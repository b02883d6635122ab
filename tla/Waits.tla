-------------------------------- MODULE Waits ---------------------------------
(***************************************************************************)
(* Whoever waits gets an answer: the liveness properties of the models, side *)
(* by side. A behaviour belongs to one of the models, with the fairness of    *)
(* that model, and leaves the others in their initial states.              *)
(***************************************************************************)
EXTENDS Integers, Sequences, FiniteSets, TLC

VARIABLES
  study,     \* the model this behaviour belongs to
  hold_surface, gpu, hold_window, nextId, retry, rendered, hold_host, hold_released, presented,
     hold_session, hold_sessions,   \* SceneHolds
  queues, flow, turns, notes, writer, signalled, failed, wire, parts, credit, returning, media_spent,   \* RemoteMedia
  scene_surface, scene_window, jobs, previous, cursor, lane, ui, decodes, frames, destroyed, scene,
     shown, unread, results, commits, wake,   \* RemoteScenes
  turn, flights,   \* RemoteTurns
  calls, reading, connecting, writes, late, watched, reserved, accepts, closed, cancels, socket_fd,
     answers, begun,   \* SocketConnection
  st, file_last, inbound, gate, controls, sock, error, refs, file_fd,   \* FileSession
  call_session, generation, call_users, owned, state, acceptor, call, waits, ring, call_sent,   \* DropCalls
  srv_session, serving, epoch, closing, drops, openFiles, handles, srv_released, srv_users, lockFiles,
     locked, mac, open, nextDesc, nextHandle, number, idle, req, strays,   \* DropServer
  active, next, signals, queue, cur, note_out, note_up, note_sessions, known, feedback, inbox, batch,
     entry, tasks, center, record, enabled, clicks, note_spent, invoked,   \* Notifications
  win, win_sent, pending, finish, down, phase, held, pace, serial, listed, win_last, acked, committed,
     wl, client, win_up, used,   \* WindowResize
  up_host, link, answer, job, disk, target, service,   \* StagedUpload
  g, pastes, served, sel_out, in, h, asked, pubs, moves, pb, n, offer   \* Selection

holdVars == <<hold_surface, gpu, hold_window, nextId, retry, rendered, hold_host, hold_released,
     presented, hold_session, hold_sessions>>
mediaVars == <<queues, flow, turns, notes, writer, signalled, failed, wire, parts, credit, returning,
     media_spent>>
sceneVars == <<scene_surface, scene_window, jobs, previous, cursor, lane, ui, decodes, frames,
     destroyed, scene, shown, unread, results, commits, wake>>
turnVars == <<turn, flights>>
socketVars == <<calls, reading, connecting, writes, late, watched, reserved, accepts, closed, cancels,
     socket_fd, answers, begun>>
fileVars == <<st, file_last, inbound, gate, controls, sock, error, refs, file_fd>>
callVars == <<call_session, generation, call_users, owned, state, acceptor, call, waits, ring,
     call_sent>>
srvVars == <<srv_session, serving, epoch, closing, drops, openFiles, handles, srv_released, srv_users,
     lockFiles, locked, mac, open, nextDesc, nextHandle, number, idle, req, strays>>
noteVars == <<active, next, signals, queue, cur, note_out, note_up, note_sessions, known, feedback,
     inbox, batch, entry, tasks, center, record, enabled, clicks, note_spent, invoked>>
winVars == <<win, win_sent, pending, finish, down, phase, held, pace, serial, listed, win_last, acked,
     committed, wl, client, win_up, used>>
upVars == <<up_host, link, answer, job, disk, target, service>>
selVars == <<g, pastes, served, sel_out, in, h, asked, pubs, moves, pb, n, offer>>
vars == <<study, holdVars, mediaVars, sceneVars, turnVars, socketVars, fileVars, callVars, srvVars, noteVars, winVars, upVars, selVars>>

\* A window alone, a window with a subsurface.
Alone   == [s \in {1} |-> 1]
WithSub == [s \in {1, 2} |-> 1]
\* A read and a write on a socket.
SocketOps == {"r", "w"}
SocketSize == [o \in SocketOps |-> IF o = "r" THEN 0 ELSE 2]
SocketKind == [o \in SocketOps |-> IF o = "r" THEN "read" ELSE "write"]

\* Buffers of one window.
Holds == INSTANCE SceneHolds WITH
     Surfaces <- {1}, RootOf <- Alone, Buffers <- {"a", "b"},
     Explicit <- {"b"}, Fifo <- {1}, Repeats <- {1}, Retained <- {}, Mortal <- {}, Fragile <- {},
     MaxId <- 4, MaxConnections <- 1, None <- "none", surface <- hold_surface, window <- hold_window,
     host <- hold_host, released <- hold_released, session <- hold_session, sessions <- hold_sessions
\* The lanes of the media stream.
Media == INSTANCE RemoteMedia WITH
     Sizes <- {1}, FirstWindow <- 1, LeastWindow <- 1, MostWindow <- 1,
     LeastChunk <- 1, MostChunk <- 1, Ring <- 2, QueueLimit <- 8, NotedTurns <- 1, MaxQueued <- 1,
     MaxControl <- 0, MaxNotes <- 1, spent <- media_spent
\* The images of one window.
Scenes == INSTANCE RemoteScenes WITH
     Surfaces <- {1, 2}, RootOf <- WithSub, Mortal <- {2},
     Slots <- {1}, MaxFlights <- 2, LaneLimit <- 3, History <- 2, Modulus <- 6, MaxCommits <- 1,
     surface <- scene_surface, window <- scene_window
\* Three windows that share two jobs; the third may stop at any moment or go on for ever.
Turns == INSTANCE RemoteTurns WITH
     Windows <- {1, 2, 3}, Stuck <- {}, Slots <- 2, MaxFlights <- 2
\* Deadlines of one socket.
Sock == INSTANCE SocketConnection WITH
     Ops <- SocketOps, Size <- SocketSize, Kind <- SocketKind,
     MaxQueued <- 4, MaxCalls <- 2, fd <- socket_fd
\* A stream each way that the peer has no room for.
Stream == INSTANCE FileSession WITH
     Guest <- {1}, Host <- {2}, DataMax <- 0, MaxInbound <- 0,
     Socket <- 1, MaxControl <- 2, MayFail <- FALSE, last <- file_last, fd <- file_fd
\* A lock request of the drop mount over two sessions.
Calls == INSTANCE DropCalls WITH
     Plain <- {}, Locks <- {2}, Sessions <- 2, Ring <- 3,
     session <- call_session, users <- call_users, sent <- call_sent
\* Requests of the drop server.
Handles == INSTANCE DropServer WITH
     Reqs <- {1}, Drops <- {1}, Owners <- {1}, MaxSessions <- 1,
     MaxDesc <- 3, MaxHandles <- 1, session <- srv_session, released <- srv_released,
     users <- srv_users
\* One notification.
Notices == INSTANCE Notifications WITH
     MaxId <- 1, MaxRev <- 2, MaxPending <- 1, PostIds <- 1,
     CloseIds <- 1, Tight <- FALSE, MaxSessions <- 1, MaxClicks <- 1, out <- note_out, up <- note_up,
     sessions <- note_sessions, spent <- note_spent
\* Two resizes.
Resizes == INSTANCE WindowResize WITH
     Sizes <- {1, 2}, MaxUser <- 3, MaxMeta <- 0, MaxFree <- 0,
     MaxUnmap <- 0, sent <- win_sent, last <- win_last, up <- win_up
\* An upload, cancelled, stopped or losing its connection.
Upload == INSTANCE StagedUpload WITH
     Uploads <- {"u1"}, Entries <- 1, Slots <- 2,
     CancelIn <- {0, 1, 2}, BreakIn <- 0 .. 4, MayStop <- TRUE, MayFail <- TRUE, host <- up_host
\* Pastes both ways.
Pastes == INSTANCE Selection WITH
     MaxGuest <- 1, MaxMac <- 1, Files <- {2, 11}, MaxPastes <- 2,
     MaxTransfers <- 1, Stale <- FALSE, Fails <- TRUE, MaxPolicies <- 0, MaxLosses <- 1, Channel <- 2,
     out <- sel_out

Init ==
  /\ study \in {"Holds", "Media", "Scenes", "Turns", "Sock", "Stream", "Calls", "Handles", "Notices", "Resizes", "Upload", "Pastes"}
  /\ Holds!Init
  /\ Media!Init
  /\ Scenes!Init
  /\ Turns!Init
  /\ Sock!Init
  /\ Stream!Init
  /\ Calls!Init
  /\ Handles!Init
  /\ Notices!Init
  /\ Resizes!Init
  /\ Upload!Init
  /\ Pastes!Init

\* A step of the model under study; the others keep their initial states.
Next ==
  \/ study = "Holds" /\ Holds!Next /\ UNCHANGED <<study, mediaVars, sceneVars, turnVars, socketVars, fileVars, callVars, srvVars, noteVars, winVars, upVars, selVars>>
  \/ study = "Media" /\ Media!Next /\ UNCHANGED <<study, holdVars, sceneVars, turnVars, socketVars, fileVars, callVars, srvVars, noteVars, winVars, upVars, selVars>>
  \/ study = "Scenes" /\ Scenes!Next /\ UNCHANGED <<study, holdVars, mediaVars, turnVars, socketVars, fileVars, callVars, srvVars, noteVars, winVars, upVars, selVars>>
  \/ study = "Turns" /\ Turns!Next /\ UNCHANGED <<study, holdVars, mediaVars, sceneVars, socketVars, fileVars, callVars, srvVars, noteVars, winVars, upVars, selVars>>
  \/ study = "Sock" /\ Sock!Next /\ UNCHANGED <<study, holdVars, mediaVars, sceneVars, turnVars, fileVars, callVars, srvVars, noteVars, winVars, upVars, selVars>>
  \/ study = "Stream" /\ Stream!Next /\ UNCHANGED <<study, holdVars, mediaVars, sceneVars, turnVars, socketVars, callVars, srvVars, noteVars, winVars, upVars, selVars>>
  \/ study = "Calls" /\ Calls!Next /\ UNCHANGED <<study, holdVars, mediaVars, sceneVars, turnVars, socketVars, fileVars, srvVars, noteVars, winVars, upVars, selVars>>
  \/ study = "Handles" /\ Handles!Next /\ UNCHANGED <<study, holdVars, mediaVars, sceneVars, turnVars, socketVars, fileVars, callVars, noteVars, winVars, upVars, selVars>>
  \/ study = "Notices" /\ Notices!Next /\ UNCHANGED <<study, holdVars, mediaVars, sceneVars, turnVars, socketVars, fileVars, callVars, srvVars, winVars, upVars, selVars>>
  \/ study = "Resizes" /\ Resizes!Next /\ UNCHANGED <<study, holdVars, mediaVars, sceneVars, turnVars, socketVars, fileVars, callVars, srvVars, noteVars, upVars, selVars>>
  \/ study = "Upload" /\ Upload!Next /\ UNCHANGED <<study, holdVars, mediaVars, sceneVars, turnVars, socketVars, fileVars, callVars, srvVars, noteVars, winVars, selVars>>
  \/ study = "Pastes" /\ Pastes!Next /\ UNCHANGED <<study, holdVars, mediaVars, sceneVars, turnVars, socketVars, fileVars, callVars, srvVars, noteVars, winVars, upVars>>

\* The windows whose encoder, host and refresh are known to go on.
Moving == {1, 2}
Moves(w) == study = "Turns" /\ Turns!Moves(w)

\* The timer of a socket fires, whatever else its queue has to do.
TimerFires == study = "Sock" /\ Sock!Timer

\* What the threads of each model do on their own, without anybody asking for more:
\* each model's steps change its own variables only.
Fairness ==
  /\ WF_holdVars(study = "Holds" /\ Holds!Steps)
  /\ WF_mediaVars(study = "Media" /\ Media!Steps)
  /\ WF_sceneVars(study = "Scenes" /\ Scenes!Steps)
  /\ WF_socketVars(study = "Sock" /\ Sock!Steps)
  /\ WF_fileVars(study = "Stream" /\ Stream!Steps)
  /\ WF_callVars(study = "Calls" /\ Calls!Steps)
  /\ WF_srvVars(study = "Handles" /\ Handles!Steps)
  /\ WF_noteVars(study = "Notices" /\ Notices!Steps)
  /\ WF_winVars(study = "Resizes" /\ Resizes!Steps)
  /\ WF_upVars(study = "Upload" /\ Upload!Steps)
  /\ WF_selVars(study = "Pastes" /\ Pastes!Steps)
  /\ WF_socketVars(TimerFires)
  /\ \A w \in Moving : WF_turnVars(Moves(w))

Spec == Init /\ [][Next]_vars /\ Fairness

\* Something on the way of an image to the Mac waits.
ImageWaits(k) == 
  \/ study = "Holds" /\ Holds!Waits(k)
  \/ study = "Media" /\ Media!Waits(k)
  \/ study = "Scenes" /\ Scenes!Waits(k)
  \/ study = "Turns" /\ Turns!Waits(k)

\* A request to the other side waits.
RequestWaits(k) == 
  \/ study = "Sock" /\ Sock!Waits(k)
  \/ study = "Stream" /\ Stream!Waits(k)
  \/ study = "Calls" /\ Calls!Waits(k)
  \/ study = "Handles" /\ Handles!Waits(k)

\* Something the user sees waits.
UserWaits(k) == 
  \/ study = "Notices" /\ Notices!Waits(k)
  \/ study = "Resizes" /\ Resizes!Waits(k)
  \/ study = "Upload" /\ Upload!Waits(k)
  \/ study = "Pastes" /\ Pastes!Waits(k)

\* Commits are applied and release points return, notes and background records
\* leave between pictures, a window shows its last commit, and the first two windows
\* of the list get their turns, whether the third one stops or goes on too.  The third
\* has no such promise: the other two may pass the turn to each other (scene.c:51).
ImagesArrive == \A k \in 1 .. 2 : ImageWaits(k) ~> ~ImageWaits(k)

\* Deadlines hold and closed sockets give up their descriptor, full buffers stop no
\* writer and refusals arrive, interrupted and cancelled locks end and a waiting
\* lock does not keep the host from reconnecting.
RequestsEnd == \A k \in 1 .. 2 : RequestWaits(k) ~> ~RequestWaits(k)

\* Active notifications are shown and stale ones withdrawn, every resize comes to
\* rest, uploads and a stop of the service end, and so does every paste.
UserServed == \A k \in 1 .. 2 : UserWaits(k) ~> ~UserWaits(k)

================================================================================
