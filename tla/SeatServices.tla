---------------------------- MODULE SeatServices ------------------------------
(***************************************************************************)
(* What the seat decides between the clients and the Mac, side by side:      *)
(* activation tokens, which this module extends, and instances of keyboard  *)
(* focus, drag and drop, and the selection.  A behaviour belongs to one of   *)
(* the models and leaves the others alone, so that one run checks all.       *)
(***************************************************************************)
EXTENDS Activation, TLC

VARIABLES
  study,     \* the model this behaviour belongs to
  id, popup, nextId, focus_user, agent, reported, entered, input, focus_told, focus_key, known, down,
     typed, missed, used,   \* KeyboardFocus
  drag_g, off, inside, pointer, drag_told, drag_out, drag_in, drag_user, br, lost, strays,   \* DragAndDrop
  sel_g, pastes, served, sel_out, sel_in, h, asked, pubs, moves, pb, n, offer   \* Selection

focusVars == <<id, popup, nextId, focus_user, agent, reported, entered, input, focus_told, focus_key,
     known, down, typed, missed, used>>
dragVars == <<drag_g, off, inside, pointer, drag_told, drag_out, drag_in, drag_user, br, lost, strays>>
selVars == <<sel_g, pastes, served, sel_out, sel_in, h, asked, pubs, moves, pb, n, offer>>
allVars == <<study, focusVars, vars, dragVars, selVars>>

\* Toplevels 1 and 2 of one client and 3 of another; popups 4 and 5 of the first, 6 of the second.
Owner == 1 :> 1 @@ 2 :> 1 @@ 3 :> 2 @@ 4 :> 1 @@ 5 :> 1 @@ 6 :> 2
\* Two clients: one with a window and a popup, one with a window.
WindowOf == <<1, 1, 3>>
ClientOf == <<"a", "a", "b">>

\* Two windows of one client with two menus, nested or beside each other, on surfaces of any age.
Focus == INSTANCE KeyboardFocus WITH
     Tops <- {1, 2}, Pops <- {4, 5}, ClientOf <- Owner, MaxIds <- 4,
     MaxHost <- 2, MaxInput <- 1,
     user <- focus_user, told <- focus_told, key <- focus_key
\* Two clients; the Mac and the agent act at once.
Racing == INSTANCE KeyboardFocus WITH
     Tops <- {1, 3}, Pops <- {4}, ClientOf <- Owner, MaxIds <- 4,
     MaxHost <- 2, MaxInput <- 1, user <- focus_user, told <- focus_told, key <- focus_key
\* Tokens of the same windows, one of which goes away.
Gone == INSTANCE Activation WITH
     Surfaces <- {1, 2, 3}, Top <- WindowOf, Client <- ClientOf,
     Ring <- 2, MaxGrants <- 1, Timeout <- 1, MaxTime <- 1, MaxPresses <- 1, MaxTokens <- 1,
     Channel <- 1, MaxGone <- 1
\* Drags of a client; sources, offers and the connection go away.
Guest == INSTANCE DragAndDrop WITH
     Clients <- {"c1"}, MaxGuest <- 2, MaxMac <- 0, Channel <- 2, Answers <- 1, MaxMoves <- 5,
     Reads <- TRUE, Withdraws <- TRUE, SourceDies <- TRUE, OfferDies <- TRUE, MaxLosses <- 1,
     g <- drag_g, told <- drag_told, out <- drag_out, in <- drag_in, user <- drag_user
\* A drag from one client to another.
Pointer == INSTANCE DragAndDrop WITH
     Clients <- {"c1", "c2"}, MaxGuest <- 1, MaxMac <- 0, Channel <- 2, Answers <- 2, MaxMoves <- 5,
     Reads <- TRUE, Withdraws <- FALSE, SourceDies <- FALSE, OfferDies <- FALSE, MaxLosses <- 0,
     g <- drag_g, told <- drag_told, out <- drag_out, in <- drag_in, user <- drag_user
\* Two drags from the Mac, the second before the first is served.
Mac == INSTANCE DragAndDrop WITH
     Clients <- {"c1"}, MaxGuest <- 0, MaxMac <- 2, Channel <- 2, Answers <- 1, MaxMoves <- 5,
     Reads <- TRUE, Withdraws <- FALSE, SourceDies <- FALSE, OfferDies <- FALSE, MaxLosses <- 0,
     g <- drag_g, told <- drag_told, out <- drag_out, in <- drag_in, user <- drag_user
\* A drag of a client that leaves its window and is dropped on it, and another one from the Mac.
Own == INSTANCE DragAndDrop WITH
     Clients <- {"c1"}, MaxGuest <- 1, MaxMac <- 2, Channel <- 3, Answers <- 1, MaxMoves <- 5,
     Reads <- FALSE, Withdraws <- FALSE, SourceDies <- FALSE, OfferDies <- FALSE, MaxLosses <- 0,
     g <- drag_g, told <- drag_told, out <- drag_out, in <- drag_in, user <- drag_user
\* Two copies on each side.
Copies == INSTANCE Selection WITH
     MaxGuest <- 2, MaxMac <- 2, Files <- {2, 11}, MaxPastes <- 0,
     MaxTransfers <- 1, Stale <- FALSE, Fails <- FALSE, MaxPolicies <- 0, MaxLosses <- 0, Channel <- 3,
     g <- sel_g, out <- sel_out, in <- sel_in
\* Pastes, also from old offers, and a policy that changes.
Pastes == INSTANCE Selection WITH
     MaxGuest <- 1, MaxMac <- 1, Files <- {2, 11}, MaxPastes <- 1,
     MaxTransfers <- 1, Stale <- TRUE, Fails <- TRUE, MaxPolicies <- 1, MaxLosses <- 0, Channel <- 3,
     g <- sel_g, out <- sel_out, in <- sel_in
\* Two lost connections.
Losing == INSTANCE Selection WITH
     MaxGuest <- 1, MaxMac <- 1, Files <- {2, 11}, MaxPastes <- 2,
     MaxTransfers <- 1, Stale <- FALSE, Fails <- TRUE, MaxPolicies <- 0, MaxLosses <- 2, Channel <- 2,
     g <- sel_g, out <- sel_out, in <- sel_in

StudyInit ==
  /\ study \in {"Focus", "Racing", "Tokens", "Gone", "Guest", "Pointer", "Mac", "Own",
               "Copies", "Pastes", "Losing"}
  /\ IF study = "Racing" THEN Racing!Init ELSE Focus!Init
  /\ IF study = "Gone" THEN Gone!Init ELSE Init
  /\ CASE study = "Pointer" -> Pointer!Init [] study = "Mac" -> Mac!Init [] study = "Own" -> Own!Init
       [] study = "Guest" -> Guest!Init [] OTHER -> Guest!Init /\ pointer = "none"
  /\ IF study = "Pastes" THEN Pastes!Init ELSE IF study = "Losing" THEN Losing!Init ELSE Copies!Init

\* A step of the model under study; the others keep their initial states.
StudyNext ==
  \/ study = "Focus" /\ Focus!Next /\ UNCHANGED <<study, vars, dragVars, selVars>>
  \/ study = "Racing" /\ Racing!Next /\ UNCHANGED <<study, vars, dragVars, selVars>>
  \/ study = "Tokens" /\ Next /\ UNCHANGED <<study, focusVars, dragVars, selVars>>
  \/ study = "Gone" /\ Gone!Next /\ UNCHANGED <<study, focusVars, dragVars, selVars>>
  \/ study = "Guest" /\ Guest!Next /\ UNCHANGED <<study, focusVars, vars, selVars>>
  \/ study = "Pointer" /\ Pointer!Next /\ UNCHANGED <<study, focusVars, vars, selVars>>
  \/ study = "Mac" /\ Mac!Next /\ UNCHANGED <<study, focusVars, vars, selVars>>
  \/ study = "Own" /\ Own!Next /\ UNCHANGED <<study, focusVars, vars, selVars>>
  \/ study = "Copies" /\ Copies!Next /\ UNCHANGED <<study, focusVars, vars, dragVars>>
  \/ study = "Pastes" /\ Pastes!Next /\ UNCHANGED <<study, focusVars, vars, dragVars>>
  \/ study = "Losing" /\ Losing!Next /\ UNCHANGED <<study, focusVars, vars, dragVars>>

StudySpec == StudyInit /\ [][StudyNext]_allVars

\* Compositor, clients and Mac agree on the keyboard focus; only grabs take it away,
\* and keys typed into the key window reach it.
FocusAgrees ==
  /\ study = "Focus" => Focus!FocusAgrees /\ Focus!KeyboardAlive
  /\ study = "Racing" => Racing!FocusAgrees /\ Racing!KeyboardAlive

\* Every drag ends once for its source, the pointer and the pipes.
DragsEnd ==
  /\ study = "Guest" => Guest!DragsEnd
  /\ study = "Pointer" => Pointer!DragsEnd
  /\ study = "Mac" => Mac!DragsEnd
  /\ study = "Own" => Own!DragsEnd
  /\ study = "Pointer" => Pointer!OnePointer
  /\ study = "Mac" => Mac!OnePointer

\* At rest both sides name one owner of the selection, and no paste waits.
SelectionAgrees ==
  /\ study = "Copies" => Copies!SelectionAgrees
  /\ study = "Pastes" => Pastes!NoEcho /\ Pastes!PastesAnswered
  /\ study = "Losing" => Losing!PastesAnswered

\* Keys reach the window they were pressed for, a window is raised for an act of the
\* user, the Mac starts no drag of a source that was dropped, a late selection buries no
\* newer one, and nothing crosses against the policy.
UserDecides ==
  /\ Focus!AgentTypesThere /\ [][UserActs /\ FocusAsks]_vars
  /\ Own!NoSurpriseDrag /\ Copies!NeverBuries /\ Pastes!PolicyHolds

================================================================================
