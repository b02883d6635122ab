------------------------------ MODULE SceneHolds ------------------------------
(***************************************************************************)
(* Buffers of clients between commit and release: the compositor's current *)
(* buffers, blocked commits, read holds of scenes, explicit release        *)
(* points, FIFO barriers and frame callbacks, and the host that reads.     *)
(* (dmabuf.c, vmpipe/scene.c, presentation.c, surface_commit.c, fifo.c)    *)
(*                                                                         *)
(* The counters of a buffer are kept as the code keeps them.  `given` and  *)
(* `owed` are what its client sees: wl_buffer.release, and the release      *)
(* points it still waits for, each named by the id of its commit.           *)
(* Every handler ends by looking at the blocked commits of all surfaces;   *)
(* `retry` holds the surfaces this pass still has to visit.                *)
(***************************************************************************)
EXTENDS Integers, Sequences, FiniteSets, SequencesExt

CONSTANTS
  Surfaces,        \* wl_surfaces
  RootOf,          \* the window each of them belongs to
  Buffers,         \* linux-dmabuf buffers
  None,            \* no buffer
  Explicit,        \* buffers committed with acquire and release points
  Fifo,            \* surfaces whose clients use FIFO barriers
  Repeats,         \* surfaces whose clients may commit a buffer some surface still shows
  Retained,        \* surfaces whose clients may change state and keep the buffer
  Mortal,          \* surfaces that clients may destroy
  Fragile,         \* buffers that clients may destroy
  MaxId,           \* bound: presentation ids
  MaxConnections   \* bound: sessions of the host

Ids   == 1 .. MaxId
Roots == {RootOf[s] : s \in Surfaces}

VARIABLES
  surface,     \* per surface: current buffer, point, blocked commits, barrier, callbacks,
               \* and for the properties which of its waits no session took over
  gpu,         \* per buffer: the counters of np_gpu_buffer_object and what its client sees
  window,      \* per root: the dirty scene and the holds of sent scenes
  nextId,      \* the last presentation id
  retry,       \* surfaces whose blocked commits the running handler has to look at
  rendered,    \* commits whose producer has finished drawing
  host,        \* per scene: where it is at the host, what it reads, whom it wakes
  released,    \* frameReleased commands under way
  presented,   \* framePresented commands under way
  session,     \* the host session is ready
  sessions     \* how many sessions there have been

vars == <<surface, gpu, window, nextId, retry, rendered, host, released, presented,
          session, sessions>>
guestVars == <<surface, gpu, window, nextId, retry, rendered>>
hostVars  == <<host, released, presented, session, sessions>>

Update == [kind : {"attach", "detach", "redraw", "state"}, buffer : Buffers \cup {None},
           id : Ids, sets : BOOLEAN, waits : BOOLEAN]

NewSurface == [alive |-> TRUE, current |-> None, point |-> 0, blocked |-> <<>>,
               barrier |-> 0, callbacks |-> {}, unbound |-> {}]
NewBuffer  == [currents |-> 0, reads |-> 0, refs |-> 1, pending |-> FALSE, queued |-> {},
               resource |-> TRUE, given |-> TRUE, owed |-> {}]
NoScene    == [at |-> "none", layers |-> {}, latches |-> {}, root |-> None]

Init ==
  /\ surface = [s \in Surfaces |-> NewSurface]
  /\ gpu = [b \in Buffers |-> NewBuffer]
  /\ window = [r \in Roots |-> [scene |-> 0, holds |-> {}]]
  /\ nextId = 0
  /\ retry = {}
  /\ rendered = {}
  /\ host = [i \in Ids |-> NoScene]
  /\ released = {} /\ presented = {}
  /\ session = TRUE /\ sessions = 1

Idle  == retry = {}
Alive == {s \in Surfaces : surface[s].alive}

\* Mutant of Woken: feedback does not look at the blocked commits.
WokenNone == {}

\* Handlers of feedback look at the blocked commits of every surface.
Woken == Alive

---------------------------------------------------------------------------
\* One buffer's counters (dmabuf.c).

\* Neither a surface shows the buffer nor a scene reads it.
Unread(g) == g.currents = 0 /\ g.reads = 0

\* maybe_release_client
GiveBack(g) ==
  IF ~Unread(g) THEN g
  ELSE [g EXCEPT !.owed = @ \ g.queued, !.queued = {},
                 !.given = @ \/ (g.pending /\ g.resource),
                 !.pending = @ /\ ~g.resource]

\* gpu_buffer_unref, n times, and gpu_buffer_free after the last reference
Unrefs(g, n) == IF g.refs > n THEN [g EXCEPT !.refs = @ - n]
                ELSE [g EXCEPT !.refs = 0, !.owed = @ \ g.queued, !.queued = {}]
Unref(g) == Unrefs(g, 1)

AcquireCurrent(g) == [g EXCEPT !.currents = @ + 1, !.pending = FALSE, !.refs = @ + 1]
ReleaseCurrent(g) == Unref(GiveBack([g EXCEPT !.currents = @ - 1, !.pending = TRUE]))
AcquireRead(g)    == [g EXCEPT !.reads = @ + 1, !.refs = @ + 1]

\* np_gpu_buffer_end_host_read for n scenes: only after the last of them can the
\* buffer be unread.
EndReads(g, n) == IF n = 0 THEN g ELSE Unrefs(GiveBack([g EXCEPT !.reads = @ - n]), n)

\* Mutant of QueueRelease: the point is signalled as soon as the surface moves on.
SignalAtOnce(g, p) == IF p = 0 THEN g ELSE [g EXCEPT !.owed = @ \ {p}]

\* Mutant of QueueRelease: the point is dropped with its surface state.
PointForgotten(g, p) == g

\* np_gpu_buffer_queue_release
QueueRelease(g, p) == IF p = 0 THEN g ELSE GiveBack([g EXCEPT !.queued = @ \cup {p}])

\* np_presentation_set_current_buffer over the buffers G
SetCurrent(G, s, b, p) ==
  LET old  == surface[s].current
      left == IF old = None THEN G
              ELSE [G EXCEPT ![old] = ReleaseCurrent(QueueRelease(@, surface[s].point))]
  IN  IF p = 0 /\ b # None /\ b = old THEN G
      ELSE IF b = None THEN left
      ELSE [left EXCEPT ![b] = AcquireCurrent(@)]

---------------------------------------------------------------------------
\* Holds of scenes (vmpipe/scene.c).

Members(root)    == {s \in Alive : RootOf[s] = root}
HasContent(s)    == surface[s].current # None
Layers(root)     == {<<surface[s].current, surface[s].point>> : s \in {m \in Members(root) : HasContent(m)}}
Sources(layers)  == {l[1] : l \in layers}

\* Mutant of HoldSources: a source is counted for every layer but released once.
HoldSourcesPerLayer(G, root) ==
  LET Shown(b) == Cardinality({s \in Members(root) : surface[s].current = b})
  IN  [b \in Buffers |-> [G[b] EXCEPT !.reads = @ + Shown(b), !.refs = @ + Shown(b)]]

\* Mutant of HoldSources: the scene goes out without holds of its own.
HoldNothing(G, root) == G

\* np_backend_hold_scene: one hold for each source, however many layers show it.
HoldSources(G, root) ==
  [b \in Buffers |-> IF b \in Sources(Layers(root)) THEN AcquireRead(G[b]) ELSE G[b]]

AllHolds == UNION {window[r].holds : r \in Roots}

\* release_references of a set of holds
DropHolds(G, holds) ==
  [b \in Buffers |-> EndReads(G[b], Cardinality({h \in holds : b \in h.sources}))]

---------------------------------------------------------------------------
\* Commits (surface_commit.c, presentation.c, vmpipe/presentation.c).

LastBuffer(s) ==
  LET attaches == SelectSeq(surface[s].blocked, LAMBDA u : u.kind \in {"attach", "detach"})
  IN  IF attaches = <<>> THEN surface[s].current ELSE Last(attaches).buffer

\* The client may write to the buffer and commit it.
Owns(b) == IF b \in Explicit THEN gpu[b].owed = {} ELSE gpu[b].given

BlockedIds(s) == {surface[s].blocked[k].id : k \in DOMAIN surface[s].blocked}
AllBlocked    == UNION {BlockedIds(s) : s \in Surfaces}
IdsLeft(n)    == nextId + n + Cardinality(AllBlocked) <= MaxId
Point(u)       == IF u.kind = "attach" /\ u.buffer \in Explicit THEN u.id ELSE 0

\* np_surface_commit up to the snapshot: every commit asks for a frame callback.
Commit(s, kind, b, sets, waits, ready) ==
  LET id == nextId + 1
      u  == [kind |-> kind, buffer |-> b, id |-> id, sets |-> sets, waits |-> waits]
  IN  /\ Idle /\ s \in Alive /\ IdsLeft(2)
      /\ kind \in {"redraw", "state"} => s \in Retained
      /\ (sets \/ waits) => s \in Fifo
      /\ IF kind = "attach"
         THEN b \in Buffers /\ gpu[b].resource /\ (Owns(b) \/ (s \in Repeats /\ \E t \in Alive : LastBuffer(t) = b))
         ELSE b = None /\ ready
      /\ nextId' = id
      /\ surface' = [surface EXCEPT ![s].blocked = Append(@, u), ![s].callbacks = @ \cup {id}]
      /\ gpu' = IF kind # "attach" THEN gpu
                ELSE [gpu EXCEPT ![b].refs = @ + 1, ![b].given = FALSE,
                                 ![b].owed = IF b \in Explicit THEN @ \cup {id} ELSE @]
      /\ rendered' = IF ready THEN rendered \cup {id} ELSE rendered
      /\ retry' = IF surface[s].blocked = <<>> THEN {s} ELSE {}
      /\ UNCHANGED <<window, hostVars>>

\* surface_update_can_apply
CanApply(s, u) ==
  /\ ~(u.waits /\ surface[s].barrier # 0)
  /\ u.id \in rendered
  /\ u.kind = "attach" => gpu[u.buffer].reads = 0

\* np_presentation_rebind_callbacks
Rebound(ids, from, to) == IF from \in ids THEN (ids \ {from}) \cup {to} ELSE ids

\* Whether applying u queues a scene: np_backend_publish_buffer,
\* np_presentation_queue_last.
Queues(s, u) == CASE u.kind = "attach" -> TRUE
                  [] u.kind = "detach" -> s # RootOf[s]
                  [] u.kind = "redraw" -> HasContent(s)
                  [] u.kind = "state"  -> FALSE

\* np_surface_apply_unblocked: the head of a surface's queue is applied, or the
\* surface has been looked at.
Visit(s) ==
  /\ s \in retry
  /\ IF surface[s].blocked # <<>> /\ CanApply(s, Head(surface[s].blocked))
     THEN LET u     == Head(surface[s].blocked)
              root  == RootOf[s]
              dirty == window[root].scene # 0
              scene == IF dirty THEN window[root].scene ELSE nextId + 1
              moved == u.kind \in {"attach", "detach"}
              after == IF moved THEN SetCurrent(gpu, s, u.buffer, Point(u)) ELSE gpu
          IN  /\ gpu' = IF u.kind = "attach" THEN [after EXCEPT ![u.buffer] = Unref(@)] ELSE after
              /\ surface' = [surface EXCEPT
                   ![s].current = IF moved THEN u.buffer ELSE @,
                   ![s].point   = IF moved /\ ~(u.kind = "attach" /\ Point(u) = 0 /\ u.buffer = surface[s].current)
                                  THEN Point(u) ELSE @,
                   ![s].blocked = Tail(@),
                   ![s].callbacks = IF Queues(s, u) THEN Rebound(@, u.id, scene) ELSE @,
                   ![s].barrier = IF ~u.sets THEN @ ELSE IF dirty \/ Queues(s, u) THEN scene ELSE u.id]
              /\ window' = IF Queues(s, u) THEN [window EXCEPT ![root].scene = scene] ELSE window
              /\ nextId' = IF Queues(s, u) /\ ~dirty THEN nextId + 1 ELSE nextId
              /\ presented' = IF Queues(s, u) \/ ~session THEN presented ELSE presented \cup {u.id}
              /\ rendered' = rendered \ {u.id}
              /\ UNCHANGED retry
     ELSE /\ retry' = retry \ {s}
          /\ UNCHANGED <<surface, gpu, window, nextId, rendered, presented>>
  /\ UNCHANGED <<host, released, session, sessions>>

\* wait_fd_ready: the producer of a blocked commit is done.
Rendered(id) ==
  /\ Idle /\ id \notin rendered
  /\ \E s \in Alive : \E i \in DOMAIN surface[s].blocked : surface[s].blocked[i].id = id
  /\ rendered' = rendered \cup {id}
  /\ retry' = Woken
  /\ UNCHANGED <<surface, gpu, window, nextId, hostVars>>

\* np_presentation_flush for one window whose scene the transport takes.
Admit(root) ==
  LET id == window[root].scene IN
  /\ Idle /\ session /\ root \in Alive /\ id # 0 /\ HasContent(root)
  /\ gpu' = HoldSources(gpu, root)
  /\ window' = [window EXCEPT ![root] = [scene |-> 0,
                   holds |-> @.holds \cup {[id |-> id, sources |-> Sources(Layers(root))]}]]
  /\ host' = [host EXCEPT ![id] = [at |-> "lane", layers |-> Layers(root), latches |-> {id}, root |-> root]]
  /\ UNCHANGED <<surface, nextId, retry, rendered, released, presented, session, sessions>>

\* The transport refuses the scene: its hold is dropped and it stays dirty.
Rejected(root, id) ==
  DropHolds(HoldSources(gpu, root), {[id |-> id, sources |-> Sources(Layers(root))]})

Reject(root) ==
  LET id == window[root].scene IN
  /\ Idle /\ session /\ root \in Alive /\ id # 0 /\ HasContent(root)
  /\ gpu' = Rejected(root, id)
  /\ UNCHANGED <<surface, window, nextId, retry, rendered, hostVars>>

\* np_presentation_flush: a window without content has no scene to send.
Retire(root) ==
  LET id == window[root].scene IN
  /\ Idle /\ session /\ root \in Alive /\ id # 0 /\ ~HasContent(root)
  /\ window' = [window EXCEPT ![root].scene = 0]
  /\ presented' = presented \cup {id}
  /\ UNCHANGED <<surface, gpu, nextId, retry, rendered, host, released, session, sessions>>

\* np_presentation_process_presented
OnPresented(id) ==
  /\ Idle /\ id \in presented
  /\ presented' = presented \ {id}
  /\ surface' = [s \in Surfaces |->
       [surface[s] EXCEPT !.callbacks = @ \ {id}, !.barrier = IF @ = id THEN 0 ELSE @]]
  /\ retry' = Woken
  /\ UNCHANGED <<gpu, window, nextId, rendered, host, released, session, sessions>>

\* np_presentation_process_released, np_backend_release_scene
OnReleased(id) ==
  /\ Idle /\ id \in released
  /\ released' = released \ {id}
  /\ LET mine(r) == {h \in window[r].holds : h.id = id} IN
     /\ gpu' = DropHolds(gpu, UNION {mine(r) : r \in Roots})
     /\ window' = [r \in Roots |-> [window[r] EXCEPT !.holds = @ \ mine(r)]]
  /\ retry' = Woken
  /\ UNCHANGED <<surface, nextId, rendered, host, presented, session, sessions>>

\* The blocked commits of a surface that attach buffer b, and those of all surfaces.
Attached(s, b) == {surface[s].blocked[k].id : k \in {j \in DOMAIN surface[s].blocked :
                     surface[s].blocked[j].kind = "attach" /\ surface[s].blocked[j].buffer = b}}
Blockers(b)    == UNION {Attached(s, b) : s \in Surfaces}

\* np_surface_update_destroy(update, true) of every blocked commit of a surface
DropAttached(g, ids) ==
  IF ids = {} THEN g
  ELSE Unrefs([g EXCEPT !.given = @ \/ g.resource, !.owed = @ \ ids], Cardinality(ids))
DropBlocked(G, s) == [b \in Buffers |-> DropAttached(G[b], Attached(s, b))]

\* surface_resource_destroy
DestroySurface(s) ==
  LET root  == RootOf[s]
      dirty == window[root].scene # 0
  IN  /\ Idle /\ s \in Mortal \cap Alive /\ IdsLeft(2)
      /\ s = root => Members(root) = {s}
      /\ LET left == SetCurrent(DropBlocked(gpu, s), s, None, 0)
         IN  gpu' = IF s = root THEN DropHolds(left, window[root].holds) ELSE left
      /\ surface' = [surface EXCEPT ![s] = [NewSurface EXCEPT !.alive = FALSE]]
      /\ IF s = root
         THEN window' = [window EXCEPT ![root] = [scene |-> 0, holds |-> {}]] /\ UNCHANGED nextId
         ELSE /\ window' = IF dirty THEN window ELSE [window EXCEPT ![root].scene = nextId + 2]
              /\ nextId' = IF dirty THEN nextId + 1 ELSE nextId + 2
      /\ rendered' = rendered \ BlockedIds(s)
      /\ UNCHANGED <<retry, hostVars>>

\* gpu_buffer_resource_destroy
DestroyBuffer(b) ==
  /\ Idle /\ b \in Fragile /\ gpu[b].resource
  /\ gpu' = [gpu EXCEPT ![b] = Unref([@ EXCEPT !.resource = FALSE, !.given = FALSE])]
  /\ UNCHANGED <<surface, window, nextId, retry, rendered, hostVars>>

---------------------------------------------------------------------------
\* The host (WindowBridge.swift, NativeWindow.swift).

\* Mutant of Inherited: the latches of the older scene are forgotten.
InheritedNothing(older) == {}

\* SceneWork.superseding: a newer scene completes the frames of the older one.
Inherited(older) == UNION {host[o].latches : o \in older}

\* A scene arrives; one that still waits for the same window gives way.
Take(id) ==
  /\ host[id].at = "lane" /\ \A j \in 1 .. (id - 1) : host[j].at = "lane" => host[j].root # host[id].root
  /\ LET older == {j \in Ids : host[j].at = "queued" /\ host[j].root = host[id].root} IN
     /\ host' = [i \in Ids |->
          IF i = id THEN [host[i] EXCEPT !.at = "queued", !.latches = @ \cup Inherited(older)]
          ELSE IF i \in older THEN NoScene ELSE host[i]]
     /\ released' = released \cup older
  /\ UNCHANGED <<guestVars, presented, session, sessions>>

\* The presenter's command buffer takes the scene and latches its frames.
Submit(id) ==
  /\ host[id].at = "queued"
  /\ host' = [host EXCEPT ![id].at = "reading", ![id].latches = {}]
  /\ presented' = presented \cup host[id].latches
  /\ UNCHANGED <<guestVars, released, session, sessions>>

\* complete, discardScene: the scene is not drawn.
Discard(id) ==
  /\ host[id].at = "queued"
  /\ host' = [host EXCEPT ![id] = NoScene]
  /\ released' = released \cup {id}
  /\ presented' = presented \cup host[id].latches
  /\ UNCHANGED <<guestVars, session, sessions>>

\* Metal has read the sources.  Work of an earlier connection reports to nobody.
ReadComplete(id) ==
  /\ host[id].at \in {"reading", "orphaned"}
  /\ host' = [host EXCEPT ![id] = NoScene]
  /\ released' = IF host[id].at = "reading" THEN released \cup {id} ELSE released
  /\ UNCHANGED <<guestVars, presented, session, sessions>>

\* The session breaks: discard_disconnected_host_reads.
Disconnect ==
  /\ Idle /\ session /\ sessions < MaxConnections
  /\ session' = FALSE
  /\ gpu' = DropHolds(gpu, AllHolds)
  /\ window' = [r \in Roots |-> [window[r] EXCEPT !.holds = {}]]
  /\ host' = [i \in Ids |-> IF host[i].at \in {"reading", "orphaned"}
                             THEN [host[i] EXCEPT !.at = "orphaned"] ELSE NoScene]
  /\ released' = {} /\ presented' = {}
  /\ retry' = Woken
  /\ UNCHANGED <<surface, nextId, rendered, sessions>>

\* republish_state: every window with content is sent again, under a new id that
\* the outstanding callbacks and barriers of its surfaces take over.  Those of
\* other windows stay as they are, and who was to answer them is gone.
Outstanding(s) == (surface[s].callbacks \ BlockedIds(s)) \cup {surface[s].barrier}

Reconnect ==
  LET shown  == {r \in Roots \cap Alive : HasContent(r)}
      fresh  == [r \in shown |-> nextId + Cardinality({q \in shown : q <= r})]
  IN  /\ Idle /\ ~session /\ IdsLeft(Cardinality(shown))
      /\ session' = TRUE /\ sessions' = sessions + 1
      /\ nextId' = nextId + Cardinality(shown)
      /\ window' = [r \in Roots |-> IF r \in shown THEN [window[r] EXCEPT !.scene = fresh[r]] ELSE window[r]]
      /\ surface' = [s \in Surfaces |->
           IF s \notin Alive THEN surface[s]
           ELSE IF RootOf[s] \notin shown
           THEN [surface[s] EXCEPT !.unbound = @ \cup (Outstanding(s) \ {window[RootOf[s]].scene})]
           ELSE [surface[s] EXCEPT !.callbacks = IF @ = {} THEN @ ELSE {fresh[RootOf[s]]},
                                   !.barrier   = IF @ = 0 THEN 0 ELSE fresh[RootOf[s]]]]
      /\ UNCHANGED <<gpu, retry, rendered, host, released, presented>>

---------------------------------------------------------------------------
Client == \/ \E s \in Surfaces, kind \in {"attach", "detach", "redraw", "state"},
                b \in Buffers \cup {None}, sets, waits, ready \in BOOLEAN :
                Commit(s, kind, b, sets, waits, ready)
          \/ \E s \in Surfaces : DestroySurface(s)
          \/ \E b \in Buffers : DestroyBuffer(b)

Compositor == \/ \E s \in Surfaces : Visit(s)
              \/ \E r \in Roots : Admit(r) \/ Reject(r) \/ Retire(r)
              \/ \E i \in Ids : Rendered(i) \/ OnPresented(i) \/ OnReleased(i)

Host == \E i \in Ids : Take(i) \/ Submit(i) \/ Discard(i) \/ ReadComplete(i)

Next == Client \/ Compositor \/ Host \/ Disconnect \/ Reconnect

Spec == Init /\ [][Next]_vars

\* Handlers run to their end, the transport takes a scene in the end, and the
\* presenter draws or discards what it was given.  Clients owe nothing.
Steps ==
  \/ \E s \in Surfaces : Visit(s)
  \/ \E r \in Roots : Admit(r) \/ Retire(r)
  \/ \E i \in Ids : Rendered(i) \/ OnPresented(i) \/ OnReleased(i) \/ Take(i) \/ Submit(i) \/ ReadComplete(i)
  \/ Reconnect

---------------------------------------------------------------------------
\* Properties.

TypeOK ==
  /\ \A s \in Surfaces : /\ surface[s].current \in Buffers \cup {None} /\ surface[s].point \in Ids \cup {0}
                          /\ surface[s].blocked \in Seq(Update) /\ surface[s].barrier \in Ids \cup {0}
                          /\ surface[s].callbacks \subseteq Ids /\ surface[s].alive \in BOOLEAN
                          /\ surface[s].unbound \subseteq Ids \cup {0}
  /\ \A b \in Buffers : /\ gpu[b].currents \in Nat /\ gpu[b].reads \in Nat /\ gpu[b].refs \in Nat
                         /\ gpu[b].queued \subseteq gpu[b].owed /\ gpu[b].owed \subseteq Ids
  /\ \A r \in Roots : window[r].scene \in Ids \cup {0}
  /\ nextId \in Ids \cup {0} /\ retry \subseteq Surfaces /\ rendered \subseteq Ids
  /\ released \cup presented \subseteq Ids

\* The scenes the host, or Metal for a session that is lost, may read buffer b for.
MayRead == {"lane", "queued", "reading", "orphaned"}
ReadBy(b) == {i \in Ids : host[i].at \in MayRead /\ b \in Sources(host[i].layers)}

\* The scenes whose holds the compositor dropped while they may still be read: it
\* does so when the session breaks and when the surface of their window goes.
Forsaken == {i \in Ids : host[i].at = "orphaned" \/ (host[i].at \in MayRead /\ host[i].root \notin Alive)}

Holders(b) == {h \in AllHolds : b \in h.sources}

\* The counters of a buffer are the numbers of those that use it: the surfaces
\* that show it, the scenes that hold it, the blocked commits and its resource.
\* A counter too high keeps the client's buffer for ever, one too low gives it
\* back while it is read.
CountsAgree == \A b \in Buffers :
  /\ gpu[b].currents = Cardinality({s \in Surfaces : surface[s].current = b})
  /\ gpu[b].reads = Cardinality(Holders(b))
  /\ gpu[b].refs = gpu[b].currents + gpu[b].reads + (IF gpu[b].resource THEN 1 ELSE 0)
                   + Cardinality(Blockers(b))

\* No buffer is in its client's hands while a scene may read it or a surface shows
\* it, as long as clients commit what they have got back.  The scenes of a lost
\* session and of a window that is gone are the only ones it may be taken from.
NoReuseWhileRead == \A b \in Buffers : Owns(b) /\ gpu[b].resource =>
  ReadBy(b) \subseteq Forsaken /\ \A s \in Surfaces : surface[s].current # b

\* A release point is signalled only after every scene with its commit is read, or
\* forsaken.
NoSignalWhileRead == \A i \in Ids \ Forsaken : host[i].at \in MayRead =>
  \A l \in host[i].layers : l[2] # 0 => l[2] \in gpu[l[1]].owed

\* docs/wayland.md:85: a transport failure does not release the holds of scenes the
\* backend accepted: what Metal still reads for a lost session stays held.
HoldsOutliveSessions == \A i \in Ids : host[i].at = "orphaned" =>
  \A b \in Sources(host[i].layers) : ~(Owns(b) /\ gpu[b].resource)

\* Every frame callback and FIFO barrier waits for something that will still
\* come: a blocked commit, a scene to be sent, or a latch of this session.  Only
\* those a new session found on a window with nothing to show wait for nobody.
NothingStranded == session /\ Idle => \A s \in Alive :
  LET due == {u.id : u \in Range(surface[s].blocked)} \cup {window[r].scene : r \in Roots}
             \cup (UNION {host[i].latches : i \in Ids}) \cup presented
  IN  (surface[s].callbacks \cup {surface[s].barrier}) \ surface[s].unbound \subseteq due \cup {0}

\* A buffer is with its client or with its readers.
BuffersSafe == CountsAgree /\ NoReuseWhileRead /\ NoSignalWhileRead

\* What clients are promised: BufferLease.
Lease == INSTANCE BufferLease WITH
  Readers <- Ids, given <- {b \in Buffers : Owns(b)}, readers <- [b \in Buffers |-> ReadBy(b)],
  forsaken <- Forsaken
ImplementsLease == Lease!LeaseSpec

\* Who waits: a commit for a fence or a presentation, a client for a frame
\* callback or for the release point of a buffer another one has replaced.
Waits(k) ==
  \/ k = 1 /\ \E s \in Surfaces : surface[s].blocked # <<>> \/ surface[s].callbacks # {}
  \/ k = 2 /\ \E b \in Buffers : \E p \in gpu[b].owed : \A s \in Surfaces : surface[s].point # p
=============================================================================
