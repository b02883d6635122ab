-------------------------- MODULE PresentationLanes --------------------------
(***************************************************************************)
(* What the guest compositor and the macOS host share: the transport lanes *)
(* of one connection and the identities of scenes and barriers.            *)
(*                                                                         *)
(* Every guest event travels on the display lane, behind the scenes sent   *)
(* before it.  The host writes pause, resume and capture commands on the   *)
(* control lane, and results, drain commands and clock samples on the      *)
(* feedback lane, each with a writer of its own: only commands of one lane *)
(* keep their order.                                                       *)
(* A lost connection loses what all three lanes still carry.               *)
(***************************************************************************)
EXTENDS Integers, Sequences, FiniteSets, SequencesExt

CONSTANTS
  SurfaceCount,     \* how many wl_surfaces the session has
  RootOf,           \* the window surface whose scene samples each of them
  Queries,          \* wp_presentation_feedback objects clients may create
  Kinds,            \* what commits do: "attach" or "detach" content, change only its
                    \* "state", or only ask for a "frame" callback
  Throttled,        \* windows whose commits may wait for a fence or a barrier
  Mortal,           \* surfaces that clients may destroy
  Recaptured,       \* windows whose content the host may ask for again
  MaxId,            \* bound: presentation ids the compositor hands out
  MaxConnections,   \* bound: connections the host establishes
  MaxTokens         \* bound: barrier tokens the host hands out

Surfaces == 1 .. SurfaceCount
Ids      == 1 .. MaxId

ASSUME LaneAssumption ==
  /\ SurfaceCount \in Nat \ {0}
  /\ RootOf \in [Surfaces -> Surfaces]
  /\ \A s \in Surfaces : RootOf[RootOf[s]] = RootOf[s]
  /\ Kinds \subseteq {"attach", "detach", "state", "frame"}
  /\ Throttled \subseteq {RootOf[s] : s \in Surfaces}
  /\ Mortal \subseteq Surfaces
  /\ Recaptured \subseteq {RootOf[s] : s \in Surfaces}
  /\ MaxId \in Nat \ {0}
  /\ MaxConnections \in Nat
  /\ MaxTokens \in Nat

Roots == {RootOf[s] : s \in Surfaces}

\* One layer of a scene: which commit of which surface it samples.
Layer == Surfaces \X Ids

VARIABLES
  up,          \* the connection carries messages
  connections, \* how many connections there have been
  display,     \* guest -> host: scenes, acknowledgements, barrier replies, clock requests
  control,     \* host -> guest: pause, resume and capture commands
  feedback     \* host -> guest: results, drain commands and clock samples

laneVars == <<up, connections, display, control, feedback>>

DisplayMessage ==
       [type : {"scene"}, id : Ids, root : Roots]
  \cup [type : {"ack"}, id : Ids]
  \cup [type : {"reached", "drained", "resumed"}, token : Nat]
  \cup [type : {"started"}]
  \cup [type : {"clock"}, epoch : Nat]
ControlMessage ==
       [type : {"pause", "resume"}, token : Nat]
  \cup [type : {"capture"}, root : Roots]
FeedbackMessage ==
       [type : {"zero", "shown"}, id : Ids]
  \cup [type : {"drain"}, token : Nat]
  \cup [type : {"sample"}, epoch : Nat]

LanesTypeOK ==
  /\ up \in BOOLEAN
  /\ connections \in 0 .. MaxConnections
  /\ display \in Seq(DisplayMessage)
  /\ control \in Seq(ControlMessage)
  /\ feedback \in Seq(FeedbackMessage)

LanesInit ==
  /\ up = FALSE
  /\ connections = 0
  /\ display = <<>> /\ control = <<>> /\ feedback = <<>>

(***************************************************************************)
(* Writing to a lane.  A write after the connection broke, and before the  *)
(* writer noticed, is accepted and lost.                                   *)
(***************************************************************************)
Written(lane, messages) == IF up THEN lane \o messages ELSE lane

Heard(lane, type) == lane # <<>> /\ Head(lane).type = type

(***************************************************************************)
(* The connection breaks: every message still in a lane is lost.  Guest    *)
(* and host notice it later, each on its own.                              *)
(***************************************************************************)
Drop ==
  /\ up
  /\ connections < MaxConnections
  /\ up' = FALSE
  /\ display' = <<>> /\ control' = <<>> /\ feedback' = <<>>
  /\ UNCHANGED connections
=============================================================================
