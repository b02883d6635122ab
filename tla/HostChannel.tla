----------------------------- MODULE HostChannel ------------------------------
(***************************************************************************)
(* What runs over the window channel between compositor and Mac, side by    *)
(* side: the socket, which this module extends, and instances of the writer *)
(* of commands above it, the frames that are shown and released, the sizes  *)
(* of windows, notifications, and uploads of dropped files.  A behaviour    *)
(* belongs to one of the models and leaves the others alone, so that one    *)
(* run checks all of them.                                                  *)
(***************************************************************************)
EXTENDS SocketConnection, TLC

VARIABLES
  study,     \* the model this behaviour belongs to
  handle, writer_pending, guest, writer_feedback, order, scheduled, drains, running, bulk, bulkQueue,
     flight, received, wire, sends, writer_used,   \* CommandWriter
  surface, gpu, hold_window, nextId, retry, rendered, hold_host, hold_released, presented, hold_session,
     hold_sessions,   \* SceneHolds
  win, sent, win_pending, finish, down, phase, held, pace, serial, listed, last, acked, committed, wl,
     client, win_up, win_used,   \* WindowResize
  active, next, signals, queue, cur, out, note_up, sessions, known, note_feedback, inbox, batch, entry,
     tasks, center, record, enabled, clicks, spent, invoked,   \* Notifications
  host, link, answer, job, disk, target, service   \* StagedUpload

writerVars == <<handle, writer_pending, guest, writer_feedback, order, scheduled, drains, running,
     bulk, bulkQueue, flight, received, wire, sends, writer_used>>
holdVars == <<surface, gpu, hold_window, nextId, retry, rendered, hold_host, hold_released, presented,
     hold_session, hold_sessions>>
winVars == <<win, sent, win_pending, finish, down, phase, held, pace, serial, listed, last, acked,
     committed, wl, client, win_up, win_used>>
noteVars == <<active, next, signals, queue, cur, out, note_up, sessions, known, note_feedback, inbox,
     batch, entry, tasks, center, record, enabled, clicks, spent, invoked>>
upVars == <<host, link, answer, job, disk, target, service>>
allVars == <<study, writerVars, vars, holdVars, winVars, noteVars, upVars>>

\* A connect, a read, two writes that together exceed the memory, a detach.
SocketOps == {"c", "r", "w", "w2", "d"}
SocketSize == [o \in SocketOps |-> IF o \in {"w", "w2"} THEN 2 ELSE 0]
SocketKind == [o \in SocketOps |->
  CASE o = "c" -> "connect" [] o = "d" -> "detach" [] o = "r" -> "read" [] OTHER -> "write"]

\* Commands to a remote compositor, over one connection.
Writer == INSTANCE CommandWriter WITH
     Remote <- TRUE, Notes <- {1}, Fragments <- 2, Window <- 1,
     MaxSends <- 4, MaxEvents <- 1, MaxConns <- 1, pending <- writer_pending,
     feedback <- writer_feedback, used <- writer_used
\* The same over two connections.
Reconnected == INSTANCE CommandWriter WITH
     Remote <- TRUE, Notes <- {1}, Fragments <- 2, Window <- 1,
     MaxSends <- 2, MaxEvents <- 1, MaxConns <- 2, pending <- writer_pending,
     feedback <- writer_feedback, used <- writer_used
\* Answers to notifications that the guest replaces meanwhile.
Feedback == INSTANCE CommandWriter WITH
     Remote <- FALSE, Notes <- {1, 2}, Fragments <- 2,
     Window <- 1, MaxSends <- 1, MaxEvents <- 4, MaxConns <- 1, pending <- writer_pending,
     feedback <- writer_feedback, used <- writer_used
\* Two surfaces show one buffer again and again; a window loses its connection.
WithSub == [s \in {1, 2} |-> 1]
Alone   == [s \in {1} |-> 1]
Shared == INSTANCE SceneHolds WITH
     Surfaces <- {1, 2}, RootOf <- WithSub, Buffers <- {"a", "b"},
     Explicit <- {"b"}, Fifo <- {}, Repeats <- {1, 2}, Retained <- {}, Mortal <- {}, Fragile <- {},
     MaxId <- 5, MaxConnections <- 1, None <- "none", window <- hold_window, host <- hold_host,
     released <- hold_released, session <- hold_session, sessions <- hold_sessions
Lost == INSTANCE SceneHolds WITH
     Surfaces <- {1}, RootOf <- Alone, Buffers <- {"a", "b"},
     Explicit <- {"b"}, Fifo <- {}, Repeats <- {1}, Retained <- {1}, Mortal <- {}, Fragile <- {},
     MaxId <- 5, MaxConnections <- 2, None <- "none", window <- hold_window, host <- hold_host,
     released <- hold_released, session <- hold_session, sessions <- hold_sessions
\* The user resizes a window three times.
Resizes == INSTANCE WindowResize WITH
     Sizes <- {1, 2}, MaxUser <- 3, MaxMeta <- 0, MaxFree <- 1,
     MaxUnmap <- 0, pending <- win_pending, up <- win_up, used <- win_used
\* The window changes its visibility and is unmapped.
Unmapped == INSTANCE WindowResize WITH
     Sizes <- {1, 2}, MaxUser <- 2, MaxMeta <- 1, MaxFree <- 0,
     MaxUnmap <- 1, pending <- win_pending, up <- win_up, used <- win_used
\* Two notifications, replaced, closed and evicted.
Posting == INSTANCE Notifications WITH
     MaxId <- 2, MaxRev <- 2, MaxPending <- 1, PostIds <- 1,
     CloseIds <- 2, Tight <- FALSE, MaxSessions <- 1, MaxClicks <- 0, up <- note_up,
     feedback <- note_feedback
\* A click while the connection is replaced.
Clicks == INSTANCE Notifications WITH
     MaxId <- 1, MaxRev <- 2, MaxPending <- 1, PostIds <- 1,
     CloseIds <- 1, Tight <- FALSE, MaxSessions <- 2, MaxClicks <- 1, up <- note_up,
     feedback <- note_feedback
\* Two uploads to one folder.
Publish == INSTANCE StagedUpload WITH
     Uploads <- {"u1", "u2"}, Entries <- 2, Slots <- 10,
     CancelIn <- {0}, BreakIn <- {3}, MayStop <- FALSE, MayFail <- FALSE
\* An upload that fails, is cancelled or loses its connection in any request.
Broken == INSTANCE StagedUpload WITH
     Uploads <- {"u1"}, Entries <- 2, Slots <- 8, CancelIn <- 0 .. 3,
     BreakIn <- 0 .. 4, MayStop <- FALSE, MayFail <- TRUE
\* The service is stopped during an upload.
Stopped == INSTANCE StagedUpload WITH
     Uploads <- {"u1"}, Entries <- 2, Slots <- 2,
     CancelIn <- {0, 1, 2}, BreakIn <- 0 .. 4, MayStop <- TRUE, MayFail <- TRUE

StudyInit ==
  /\ study \in {"Writer", "Reconnected", "Feedback", "Socket", "Shared", "Lost", "Resizes", "Unmapped", "Posting", "Clicks", "Publish", "Broken", "Stopped"}
  /\ IF study = "Reconnected" THEN Reconnected!Init ELSE IF study = "Feedback" THEN Feedback!Init ELSE Writer!Init
  /\ Init
  /\ IF study = "Lost" THEN Lost!Init ELSE Shared!Init
  /\ IF study = "Unmapped" THEN Unmapped!Init ELSE Resizes!Init
  /\ IF study = "Clicks" THEN Clicks!Init ELSE Posting!Init
  /\ IF study = "Broken" THEN Broken!Init ELSE IF study = "Stopped" THEN Stopped!Init ELSE Publish!Init

\* A step of the model under study; the others keep their initial states.
StudyNext ==
  \/ study = "Writer" /\ Writer!Next /\ UNCHANGED <<study, vars, holdVars, winVars, noteVars, upVars>>
  \/ study = "Reconnected" /\ Reconnected!Next /\ UNCHANGED <<study, vars, holdVars, winVars, noteVars, upVars>>
  \/ study = "Feedback" /\ Feedback!Next /\ UNCHANGED <<study, vars, holdVars, winVars, noteVars, upVars>>
  \/ study = "Socket" /\ Next /\ UNCHANGED <<study, writerVars, holdVars, winVars, noteVars, upVars>>
  \/ study = "Shared" /\ Shared!Next /\ UNCHANGED <<study, writerVars, vars, winVars, noteVars, upVars>>
  \/ study = "Lost" /\ Lost!Next /\ UNCHANGED <<study, writerVars, vars, winVars, noteVars, upVars>>
  \/ study = "Resizes" /\ Resizes!Next /\ UNCHANGED <<study, writerVars, vars, holdVars, noteVars, upVars>>
  \/ study = "Unmapped" /\ Unmapped!Next /\ UNCHANGED <<study, writerVars, vars, holdVars, noteVars, upVars>>
  \/ study = "Posting" /\ Posting!Next /\ UNCHANGED <<study, writerVars, vars, holdVars, winVars, upVars>>
  \/ study = "Clicks" /\ Clicks!Next /\ UNCHANGED <<study, writerVars, vars, holdVars, winVars, upVars>>
  \/ study = "Publish" /\ Publish!Next /\ UNCHANGED <<study, writerVars, vars, holdVars, winVars, noteVars>>
  \/ study = "Broken" /\ Broken!Next /\ UNCHANGED <<study, writerVars, vars, holdVars, winVars, noteVars>>
  \/ study = "Stopped" /\ Stopped!Next /\ UNCHANGED <<study, writerVars, vars, holdVars, winVars, noteVars>>

StudySpec == StudyInit /\ [][StudyNext]_allVars

\* What is queued is written in order, to its own connection, within its memory.
QueueSafe ==
  /\ study = "Writer" => Writer!TypeOK /\ Writer!QueueSafe
  /\ study = "Reconnected" => Reconnected!QueueSafe
  /\ study = "Feedback" => Feedback!QueueSafe
  /\ study = "Socket" => TypeOK /\ ReservedIsQueued

\* The counters of a buffer are exact when surfaces share it and when the connection is
\* lost, and it is with its client or with its readers; only the scenes Metal still reads
\* for a lost connection have no hold any more (host_session.c:169).
HoldsCounted ==
  /\ study = "Shared" => Shared!TypeOK /\ Shared!CountsAgree /\ Shared!NoSignalWhileRead
  /\ study = "Lost" => Lost!TypeOK /\ Lost!BuffersSafe

\* At rest the native window has the size the client committed last, resizes are
\* paced, and no older scene changes the size after a resize.
SizesAgree ==
  /\ [](study = "Resizes" => Resizes!TypeOK /\ Resizes!SizesAgree)
  /\ [](study = "Unmapped" => Unmapped!NewestSeen)
  /\ [][study = "Resizes" => Resizes!NoSnapBack]_allVars

\* At rest the Mac shows the notifications the guest has; clicks and closings count once.
NoticesAgree ==
  /\ study = "Posting" => Posting!TypeOK /\ Posting!NoticesAgree
  /\ study = "Clicks" => Clicks!NoticesAgree

\* An upload is published whole or not at all, is reported as it ended, leaves no
\* staging folder, and replaces no other.
UploadsWhole ==
  /\ [](study = "Publish" => Publish!UploadsWhole /\ Publish!ReportsPublication /\ Publish!StagingRemoved)
  /\ [](study = "Broken" => Broken!UploadsWhole /\ Broken!ReportsPublication /\ Broken!StagingRemoved)
  /\ [](study = "Stopped" => Stopped!TypeOK /\ Stopped!UploadsWhole /\ Stopped!ReportsPublication /\ Stopped!StagingRemoved)
  /\ [][study = "Publish" => Publish!NeverReplaced]_allVars

================================================================================
