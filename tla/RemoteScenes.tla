----------------------------- MODULE RemoteScenes -----------------------------
(***************************************************************************)
(* Scenes of a remote compositor: committed pixels are copied, encoded by   *)
(* at most a few jobs at a time, and sent before the scene that names them; *)
(* the host decodes on a queue of its own, looks pixels up for a scene, and *)
(* returns display credit.                                                  *)
(* (remote/presentation.c, remote/scene.c, RemoteFrameSource.swift,         *)
(*  WindowBridge.swift)                                                     *)
(*                                                                         *)
(* A version of a surface stands for its last_resource_id.  Versions wrap.  *)
(***************************************************************************)
EXTENDS Integers, Sequences, FiniteSets, SequencesExt, FiniteSetsExt

CONSTANTS
  Surfaces,     \* wl_surfaces, in the order of the compositor's list
  RootOf,       \* the window each belongs to
  Mortal,       \* surfaces that clients may destroy
  Slots,        \* encode jobs at a time
  MaxFlights,   \* scenes of a window the host has not answered
  LaneLimit,    \* display records the writer may own when a job starts
  History,      \* decoded frames kept for a surface
  Modulus,      \* versions count modulo this
  MaxCommits    \* bound: commits, or zero for endless ones

Roots == {RootOf[s] : s \in Surfaces}
Versions == 1 .. Modulus

VARIABLES
  surface,    \* last_resource_id, pixels not yet encoded, in a job, alive
  window,     \* per root: scene_dirty, unanswered scenes, refresh pacing
  jobs,       \* per slot: the encode job
  previous,   \* previous_owner
  cursor,     \* where a running np_presentation_flush is in the surface list
  lane,       \* display records written and not yet read by the host
  ui,         \* window events on their way to the host's main thread
  decodes,    \* decodeQueue
  frames,     \* decoded frames per surface, and the newest published
  destroyed,  \* destroyedSurfaces
  scene,      \* per root: the pending and the resolving scene of the bridge
  shown,      \* per root: the layers last displayed
  unread,     \* discarded scenes whose media is not decoded yet
  results,    \* NPRP records on their way to the guest
  commits,    \* commits so far
  wake        \* the media writer's event is set

vars == <<surface, window, jobs, previous, cursor, lane, ui, decodes, frames, destroyed,
          scene, shown, unread, results, commits, wake>>
guest == <<surface, window, jobs, previous, cursor, commits>>
hostView == <<ui, decodes, frames, destroyed, scene, shown, unread>>

NoWork == [owner |-> 0, layers |-> {}]
NoJob == [owner |-> 0, inputs |-> {}, todo |-> {}, encoding |-> 0, cancelled |-> FALSE]

Init ==
  /\ surface = [s \in Surfaces |-> [version |-> 0, pixels |-> FALSE, job |-> FALSE, alive |-> TRUE]]
  /\ window = [r \in Roots |-> [dirty |-> FALSE, flights |-> 0, paced |-> FALSE]]
  /\ jobs = [k \in Slots |-> NoJob] /\ previous = 0 /\ cursor = 0
  /\ lane = <<>> /\ ui = <<>> /\ decodes = <<>>
  /\ frames = [s \in Surfaces |-> [kept |-> <<>>, through |-> 0]] /\ destroyed = {}
  /\ scene = [r \in Roots |-> [pending |-> NoWork, resolving |-> NoWork, ready |-> {}, lost |-> FALSE]]
  /\ shown = [r \in Roots |-> {}] /\ unread = {} /\ results = {}
  /\ commits = 0 /\ wake = FALSE

Alive == {s \in Surfaces : surface[s].alive}
Layers(root) == {<<s, surface[s].version>> : s \in {m \in Alive : RootOf[m] = root /\ surface[m].version # 0}}
Quiet == cursor = 0
Flush == cursor' = Min(Surfaces)
Busy  == {k \in Slots : jobs[k] # NoJob}

\* Int32(latest - id) >= 0: id is not after latest.
NotAfter(id, latest) == latest # 0 /\ (latest - id) % Modulus <= Modulus \div 2

---------------------------------------------------------------------------
\* The compositor.

\* encode_remote_pixels, np_backend_publish_buffer: a commit with new pixels.
Commit(s) ==
  /\ Quiet /\ s \in Alive
  /\ MaxCommits # 0 => commits < MaxCommits
  /\ commits' = IF MaxCommits = 0 THEN 0 ELSE commits + 1
  /\ ~surface[s].pixels \/ MaxCommits # 0
  /\ surface' = [surface EXCEPT ![s].version = (@ % Modulus) + 1, ![s].pixels = TRUE]
  /\ window' = [window EXCEPT ![RootOf[s]].dirty = TRUE]
  /\ Flush
  /\ UNCHANGED <<jobs, previous, lane, ui, decodes, frames, destroyed, scene, shown, unread, results, wake>>

\* np_remote_scene_available
Available(r) ==
  /\ ~surface[r].job /\ window[r].flights < MaxFlights /\ ~window[r].paced
  /\ Busy # Slots /\ \A k \in Busy : jobs[k].owner # r

\* np_backend_scene_ready: the owner of the last job yields to another dirty one.
Ready(r) ==
  /\ Available(r) /\ Len(lane) < LaneLimit
  /\ previous = r => ~\E o \in Roots \ {r} : window[o].dirty /\ Available(o)

\* The inputs np_remote_submit_scene refuses.
CanSubmit(r) == Layers(r) # {} /\ \A l \in Layers(r) : ~surface[l[1]].job

\* One surface of np_presentation_flush.
FlushOne ==
  LET s == cursor IN
  /\ ~Quiet
  /\ cursor' = IF s = Max(Surfaces) THEN 0 ELSE s + 1
  /\ IF s \in Roots /\ window[s].dirty /\ Ready(s) /\ CanSubmit(s)
     THEN LET k == Min(Slots \ Busy)
              fresh == {l[1] : l \in {m \in Layers(s) : surface[m[1]].pixels}}
          IN  /\ jobs' = [jobs EXCEPT ![k] = [owner |-> s, inputs |-> Layers(s), todo |-> fresh,
                                              encoding |-> 0, cancelled |-> FALSE]]
              /\ surface' = [t \in Surfaces |-> IF \E l \in Layers(s) : l[1] = t
                                THEN [surface[t] EXCEPT !.job = TRUE, !.pixels = FALSE] ELSE surface[t]]
              /\ window' = [window EXCEPT ![s].dirty = FALSE, ![s].paced = TRUE]
              /\ previous' = s
     ELSE UNCHANGED <<jobs, surface, window, previous>>
  /\ UNCHANGED <<lane, ui, decodes, frames, destroyed, scene, shown, unread, results, commits, wake>>

\* refresh_ready: the window's next refresh is due.
RefreshDue(r) ==
  /\ Quiet /\ window[r].paced
  /\ window' = [window EXCEPT ![r].paced = FALSE]
  /\ Flush
  /\ UNCHANGED <<surface, jobs, previous, lane, hostView, results, commits, wake>>

\* output_failed: bytes left the writer or an encoder finished.
Woken ==
  /\ Quiet /\ wake /\ wake' = FALSE
  /\ Flush
  /\ UNCHANGED <<surface, window, jobs, previous, lane, hostView, results, commits>>

\* np_remote_flush_encoded: the next source of a job goes to its encoder.
StartEncode(k) ==
  /\ Quiet /\ jobs[k].encoding = 0 /\ ~jobs[k].cancelled /\ jobs[k].todo # {}
  /\ LET s == Min(jobs[k].todo) IN
     jobs' = [jobs EXCEPT ![k].encoding = s, ![k].todo = @ \ {s}]
  /\ UNCHANGED <<surface, window, previous, cursor, lane, hostView, results, commits, wake>>

Version(k, s) == (CHOOSE l \in jobs[k].inputs : l[1] = s)[2]

\* encoder_emit, encoder_finished, on the encoder's thread.
EncoderDone(k) ==
  LET s == jobs[k].encoding IN
  /\ s # 0
  /\ lane' = Append(lane, [kind |-> "media", surface |-> s, version |-> Version(k, s), layers |-> {}])
  /\ jobs' = [jobs EXCEPT ![k].encoding = 0]
  /\ wake' = TRUE
  /\ UNCHANGED <<surface, window, previous, cursor, hostView, results, commits>>

\* Mutant of Kept: a cancelled job drops the pixels it did not encode.

KeptNothing(k, s) == surface[s].pixels

\* free_scene: pixels that never reached an encoder stay the newest candidate.
Kept(k, s) == surface[s].pixels \/ (s \in jobs[k].todo /\ surface[s].version = Version(k, s))

\* The job ends: its scene follows its media, or nothing is sent.
FinishJob(k) ==
  LET j    == jobs[k]
      sent == ~j.cancelled
  IN  /\ Quiet /\ j # NoJob /\ j.encoding = 0 /\ (j.cancelled \/ j.todo = {})
      /\ jobs' = [jobs EXCEPT ![k] = NoJob]
      /\ surface' = [s \in Surfaces |-> IF s \in Alive /\ \E l \in j.inputs : l[1] = s
                        THEN [surface[s] EXCEPT !.job = FALSE, !.pixels = Kept(k, s)] ELSE surface[s]]
      /\ lane' = IF sent THEN Append(lane, [kind |-> "scene", surface |-> j.owner, version |-> 0,
                                            layers |-> j.inputs]) ELSE lane
      /\ window' = IF sent THEN [window EXCEPT ![j.owner].flights = @ + 1] ELSE window
      /\ Flush
      /\ UNCHANGED <<previous, hostView, results, commits, wake>>

\* surface_resource_destroy of a subsurface: its window is dirty, the host is
\* told, jobs that use it are cancelled, and its encoder is joined.
Destroy(s) ==
  /\ Quiet /\ s \in Mortal \cap Alive
  /\ surface' = [surface EXCEPT ![s] = [version |-> 0, pixels |-> FALSE, job |-> FALSE, alive |-> FALSE]]
  /\ window' = [window EXCEPT ![RootOf[s]].dirty = TRUE]
  /\ LET uses(k) == \E l \in jobs[k].inputs : l[1] = s
         busy    == {k \in Slots : jobs[k].encoding = s}
         gone    == [kind |-> "gone", surface |-> s, version |-> 0, layers |-> {}]
     IN  /\ jobs' = [k \in Slots |-> IF ~uses(k) THEN jobs[k]
                       ELSE [jobs[k] EXCEPT !.cancelled = TRUE, !.encoding = IF k \in busy THEN 0 ELSE @,
                                            !.todo = @ \ {s}]]
         /\ lane' = Append(lane, gone) \o
                    (IF busy = {} THEN <<>> ELSE <<[kind |-> "media", surface |-> s,
                        version |-> Version(CHOOSE k \in busy : TRUE, s), layers |-> {}]>>)
  /\ Flush
  /\ UNCHANGED <<previous, hostView, results, commits, wake>>

\* np_remote_scene_completed
OnResult(x) ==
  /\ Quiet /\ x \in results
  /\ results' = results \ {x}
  /\ window' = [window EXCEPT ![x.owner].flights = @ - 1]
  /\ Flush
  /\ UNCHANGED <<surface, jobs, previous, lane, hostView, commits, wake>>

---------------------------------------------------------------------------
\* The host.

\* The reader: media goes to the decoder, window events to the main thread.
HostRead ==
  /\ lane # <<>> /\ lane' = Tail(lane)
  /\ IF Head(lane).kind = "media"
     THEN decodes' = Append(decodes, Head(lane)) /\ UNCHANGED ui
     ELSE ui' = Append(ui, Head(lane)) /\ UNCHANGED decodes
  /\ wake' = TRUE
  /\ UNCHANGED <<guest, frames, destroyed, scene, shown, unread, results>>

\* publish, or removeSurface on the same queue.

Decode ==
  /\ decodes # <<>> /\ decodes' = Tail(decodes)
  /\ LET m == Head(decodes) IN
     IF m.kind = "gone"
     THEN /\ destroyed' = destroyed \cup {m.surface}
          /\ frames' = [frames EXCEPT ![m.surface] = [kept |-> <<>>, through |-> 0]]
     ELSE /\ frames' = IF m.surface \in destroyed THEN frames
                       ELSE [frames EXCEPT ![m.surface] =
                              [kept |-> LET all == Append(@.kept, m.version)
                                        IN  IF Len(all) > History THEN Tail(all) ELSE all,
                               through |-> m.version]]
          /\ UNCHANGED destroyed
  /\ UNCHANGED <<guest, lane, ui, scene, shown, unread, results, wake>>

\* consumed: the media of the layers has been decoded, or its surface is gone.
Consumed(layers) == \A l \in layers : l[1] \in destroyed \/ NotAfter(l[2], frames[l[1]].through)

Result(owner, n) == {[owner |-> owner, n |-> n]}
Fresh == CHOOSE n \in 0 .. Cardinality(results) : \A x \in results : x.n # n

\* Mutant of Superseded: a replaced scene returns no credit.
SupersededSilently(r) == unread

\* The pending scene gives way; its credit waits for its media.
Superseded(r) == IF scene[r].pending = NoWork THEN unread ELSE unread \cup {scene[r].pending}

\* offerScene and a surface's removal, on the main thread.
Deliver ==
  /\ ui # <<>> /\ ui' = Tail(ui)
  /\ LET e == Head(ui) IN
     IF e.kind = "scene"
     THEN /\ unread' = Superseded(e.surface)
          /\ scene' = [scene EXCEPT ![e.surface].pending = [owner |-> e.surface, layers |-> e.layers]]
          /\ UNCHANGED decodes
     ELSE /\ decodes' = Append(decodes, e) /\ UNCHANGED <<unread, scene>>
  /\ UNCHANGED <<guest, lane, frames, destroyed, shown, results, wake>>

\* resolveFrame, resolveLayer: found, not yet decoded, or never to come.
Found(l)   == l[2] \in Range(frames[l[1]].kept)
Missing(l) == ~Found(l) /\ (l[1] \in destroyed \/ NotAfter(l[2], frames[l[1]].through))

\* startPendingScene and deliverAvailableFrames: layers found are held, older
\* frames of their surfaces are retired.
Resolve(r) ==
  LET starts == scene[r].resolving = NoWork
      work   == IF starts THEN scene[r].pending ELSE scene[r].resolving
      open   == IF starts THEN work.layers ELSE work.layers \ scene[r].ready
      found  == {l \in open : Found(l)}
      lost   == {l \in open : Missing(l)}
  IN  /\ work # NoWork /\ (starts \/ found # {} \/ lost # {})
      /\ scene' = [scene EXCEPT ![r] =
           [pending |-> IF starts THEN NoWork ELSE @.pending, resolving |-> work,
            ready |-> (IF starts THEN {} ELSE @.ready) \cup found \cup lost,
            lost |-> (~starts /\ @.lost) \/ lost # {}]]
      /\ frames' = [s \in Surfaces |->
           IF \E l \in found : l[1] = s
           THEN LET v == (CHOOSE l \in found : l[1] = s)[2]
                    i == CHOOSE i \in DOMAIN frames[s].kept : frames[s].kept[i] = v
                IN  [frames[s] EXCEPT !.kept = SubSeq(@, i, Len(@))]
           ELSE frames[s]]
      /\ UNCHANGED <<guest, lane, ui, decodes, destroyed, shown, unread, results, wake>>

\* Every layer is resolved: the scene is displayed or discarded.
Present(r) ==
  LET work == scene[r].resolving IN
  /\ work # NoWork /\ scene[r].ready = work.layers
  /\ scene' = [scene EXCEPT ![r].resolving = NoWork, ![r].ready = {}, ![r].lost = FALSE]
  /\ IF scene[r].lost
     THEN unread' = unread \cup {work} /\ UNCHANGED <<shown, results>>
     ELSE /\ shown' = [shown EXCEPT ![r] = work.layers]
          /\ results' = results \cup Result(r, Fresh)
          /\ UNCHANGED unread
  /\ UNCHANGED <<guest, lane, ui, decodes, frames, destroyed, wake>>

\* whenConsumed: a discarded scene returns its credit once its media is decoded.
ReturnCredit(w) ==
  /\ w \in unread /\ Consumed(w.layers)
  /\ unread' = unread \ {w}
  /\ results' = results \cup Result(w.owner, Fresh)
  /\ UNCHANGED <<guest, lane, ui, decodes, frames, destroyed, scene, shown, wake>>

---------------------------------------------------------------------------
Encoding == \E k \in Slots : StartEncode(k) \/ EncoderDone(k) \/ FinishJob(k)
Next == \/ \E s \in Surfaces : Commit(s) \/ Destroy(s)
        \/ FlushOne \/ Woken \/ Encoding \/ HostRead \/ Decode \/ Deliver
        \/ \E r \in Roots : RefreshDue(r) \/ Resolve(r) \/ Present(r)
        \/ \E x \in results : OnResult(x)
        \/ \E w \in unread : ReturnCredit(w)

Spec == Init /\ [][Next]_vars

\* Handlers, timers, encoders and the host's threads run.
Steps ==
  \/ FlushOne \/ Woken \/ HostRead \/ Decode \/ Deliver
  \/ \E k \in Slots : StartEncode(k) \/ EncoderDone(k) \/ FinishJob(k)
  \/ \E r \in Roots : RefreshDue(r) \/ Resolve(r) \/ Present(r)
  \/ \E x \in results : OnResult(x)
  \/ \E w \in unread : ReturnCredit(w)

---------------------------------------------------------------------------
\* Properties.

TypeOK ==
  /\ \A s \in Surfaces : surface[s].version \in Versions \cup {0} /\ Len(frames[s].kept) <= History
  /\ \A r \in Roots : window[r].flights \in 0 .. MaxFlights
  /\ cursor \in Surfaces \cup {0} /\ previous \in Roots \cup {0} /\ destroyed \subseteq Surfaces

\* A scene comes after the pixels it names: whatever the encoder jobs do, and
\* also when one was cancelled, the host has read every version of a scene.
PixelsPrecedeScene == lane # <<>> /\ Head(lane).kind = "scene" =>
  \A l \in Head(lane).layers :
    \/ NotAfter(l[2], frames[l[1]].through) \/ l[1] \in destroyed
    \/ \E i \in DOMAIN decodes : decodes[i].surface = l[1] /\ decodes[i].version = l[2]

\* The credit of a window is the number of its scenes the host still has.
CreditAgrees == \A r \in Roots : window[r].flights =
    Len(SelectSeq(lane \o ui, LAMBDA e : e.kind = "scene" /\ e.surface = r))
  + Cardinality({w \in unread : w.owner = r}) + Cardinality({x \in results : x.owner = r})
  + (IF scene[r].pending = NoWork THEN 0 ELSE 1) + (IF scene[r].resolving = NoWork THEN 0 ELSE 1)

\* A scene the host is told to show is one it can show, and is answered.
ScenesAgree == PixelsPrecedeScene /\ CreditAgrees

\* Who waits: a window that does not show what its client last committed; lost
\* pixels, cancelled jobs and discarded scenes never leave an old image.
Waits(r) == r \in Roots /\ Layers(r) # {} /\ shown[r] # Layers(r)
=============================================================================
