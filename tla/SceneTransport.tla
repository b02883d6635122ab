--------------------------- MODULE SceneTransport -----------------------------
(***************************************************************************)
(* What a scene needs on its way to the Mac, side by side: the holds on the   *)
(* buffers it shows, which this module extends, and for a remote Mac          *)
(* instances of the images, the media stream and the turns of the windows.    *)
(* A behaviour belongs to one of the models and leaves the others alone, so   *)
(* that one run checks all of them.                                         *)
(***************************************************************************)
EXTENDS SceneHolds

VARIABLES
  study,     \* the model this behaviour belongs to
  queues, flow, turns, notes, writer, signalled, failed, wire, parts, credit, returning, spent,   \* RemoteMedia
  scene_surface, scene_window, jobs, previous, cursor, lane, ui, decodes, frames, destroyed, scene,
     shown, unread, results, commits, wake,   \* RemoteScenes
  turn, flights   \* RemoteTurns

mediaVars == <<queues, flow, turns, notes, writer, signalled, failed, wire, parts, credit, returning,
     spent>>
sceneVars == <<scene_surface, scene_window, jobs, previous, cursor, lane, ui, decodes, frames,
     destroyed, scene, shown, unread, results, commits, wake>>
turnVars == <<turn, flights>>
allVars == <<study, vars, mediaVars, sceneVars, turnVars>>

\* A window with a subsurface.
WithSub == [s \in {1, 2} |-> 1]

\* Records of three bytes in fragments of two.
Media == INSTANCE RemoteMedia WITH
     Sizes <- {3}, FirstWindow <- 3, LeastWindow <- 2, MostWindow <- 5,
     LeastChunk <- 2, MostChunk <- 2, Ring <- 2, QueueLimit <- 8, NotedTurns <- 1, MaxQueued <- 2,
     MaxControl <- 1, MaxNotes <- 0
\* A window with a subsurface, two encoder jobs.
Scenes == INSTANCE RemoteScenes WITH
     Surfaces <- {1, 2}, RootOf <- WithSub, Mortal <- {2},
     Slots <- {1, 2}, MaxFlights <- 2, LaneLimit <- 3, History <- 2, Modulus <- 6, MaxCommits <- 2,
     surface <- scene_surface, window <- scene_window
\* Three windows, one of which never gets answers, share two jobs.
Turns == INSTANCE RemoteTurns WITH
     Windows <- {1, 2, 3}, Stuck <- {1}, Slots <- 2, MaxFlights <- 2

StudyInit ==
  /\ study \in {"Holds", "Media", "Scenes", "Turns"}
  /\ Init
  /\ Media!Init
  /\ Scenes!Init
  /\ Turns!Init

\* A step of the model under study; the others keep their initial states.
StudyNext ==
  \/ study = "Holds" /\ Next /\ UNCHANGED <<study, mediaVars, sceneVars, turnVars>>
  \/ study = "Media" /\ Media!Next /\ UNCHANGED <<study, vars, sceneVars, turnVars>>
  \/ study = "Scenes" /\ Scenes!Next /\ UNCHANGED <<study, vars, mediaVars, turnVars>>
  \/ study = "Turns" /\ Turns!Next /\ UNCHANGED <<study, vars, mediaVars, sceneVars>>

StudySpec == StudyInit /\ [][StudyNext]_allVars

\* Credit is conserved, fragments fit, the writer does not sleep over its work, and
\* media in flight stay within the window.
StreamSafe ==
  /\ [](study = "Media" => Media!TypeOK /\ Media!StreamSafe)
  /\ [][study = "Media" => Media!SentWithinWindow]_allVars

\* The host has the pixels of every scene it is told to show, and owes an answer
\* to those the guest counts.
ScenesAgree ==
  /\ study = "Scenes" => Scenes!TypeOK /\ Scenes!ScenesAgree
  /\ study = "Turns" => Turns!TypeOK

================================================================================
