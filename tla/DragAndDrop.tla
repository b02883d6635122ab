------------------------------ MODULE DragAndDrop ------------------------------
(***************************************************************************)
(* Drags between Linux clients, out to the Mac and in from it: the           *)
(* compositor's data devices (data_device.c, input.c), the Mac's bridge      *)
(* (FileDragBridge.swift) and the two ordered message channels between them. *)
(*                                                                         *)
(* A drag a client starts has a serial from Guest, a Mac drag a token from   *)
(* Mac.  A client stands for its surface and its data device; a drag offers  *)
(* one type, and every action is a copy.                                     *)
(***************************************************************************)
EXTENDS Integers, Sequences, FiniteSets

CONSTANTS
  Clients,      \* Linux clients
  MaxGuest,     \* drags clients start
  MaxMac,       \* drags of the Mac that enter a Linux window
  Channel,      \* messages on their way to the guest (a bound)
  Answers,      \* messages on their way to the Mac (a bound)
  MaxMoves,     \* presses of the mouse and moves into and out of the Linux windows
  Reads,        \* whether clients ask for the bytes of a drag from the Mac
  Withdraws,    \* whether a client may take its acceptance back
  SourceDies,   \* whether a source may be destroyed at any time
  OfferDies,    \* whether a client may destroy its offer before the drag leaves it
  MaxLosses     \* lost connections

Guest == 1 .. MaxGuest
Mac == 11 .. 10 + MaxMac
Keys == Guest \cup Mac

VARIABLES
  g,         \* np_server: drag source, dropped, exported, focus, host_file_drag, buttons, grab, serial
  off,       \* per client and drag: its current offer
  inside,    \* per client: the drag whose data_device.enter it has seen, or 0
  pointer,   \* the client with wl_pointer focus, or none
  told,      \* per guest drag: what its source was told
  out,       \* messages to the Mac
  in,        \* messages to the guest
  user,      \* the Mac's mouse: where it is, whether it is down, and the AppKit drag
  br,        \* FileDragBridge
  lost,      \* lost connections so far
  strays     \* history: drags the bridge lost track of (FileDragBridge.swift:61, :112, :117, :122, :254)

vars == <<g, off, inside, pointer, told, out, in, user, br, lost, strays>>

NoOffer == [live |-> FALSE, active |-> FALSE, dropped |-> FALSE, finished |-> FALSE, ok |-> FALSE,
            source |-> FALSE, pipe |-> FALSE, value |-> "none"]
NoExport == [export |-> 0, ready |-> FALSE, dropped |-> FALSE, localDrop |-> FALSE]
Bridge0 == [out |-> NoExport, incoming |-> 0, fresh |-> FALSE, accepted |-> FALSE, transfers |-> {}]
Guest0 == [source |-> 0, dropped |-> FALSE, exported |-> FALSE, focus |-> "none", host |-> 0,
           down |-> FALSE, grab |-> "none", serial |-> 0]

Init ==
  /\ g = Guest0 /\ off = [c \in Clients |-> [k \in Keys |-> NoOffer]]
  /\ inside = [c \in Clients |-> 0] /\ pointer \in Clients \cup {"none"}
  /\ told = [k \in Guest |-> [performed |-> FALSE, ended |-> 0, finished |-> FALSE]]
  /\ out = <<>> /\ in = <<>>
  /\ user = [over |-> IF pointer = "none" THEN "mac" ELSE pointer, down |-> FALSE, drag |-> "none", macs |-> 0, moves |-> 0]
  /\ br = Bridge0 /\ lost = 0 /\ strays = {}

Msg(t, k, c, b) == [t |-> t, k |-> k, c |-> c, b |-> b]
Say(ms) == Len(out) + Len(ms) <= Answers /\ out' = out \o ms
Send(ms) == Len(in) + Len(ms) <= Channel /\ in' = in \o ms

---------------------------------------------------------------------------
\* Parts of the guest's operations, as functions of its state.

\* detach_offers_for_source
Detached(o, k, finished) ==
  [c \in Clients |-> [o[c] EXCEPT ![k] =
     IF @.source THEN [@ EXCEPT !.source = FALSE, !.active = FALSE, !.finished = @ \/ finished] ELSE @]]

\* np_data_drag_leave
Left(o, c, k) ==
  IF c = "none" THEN o ELSE [o EXCEPT ![c][k] = IF @.active THEN [@ EXCEPT !.active = FALSE, !.ok = FALSE] ELSE @]
\* Mutant of Outside: wl_data_device.leave is not sent.
OutsideStays(c) == inside
Outside(c) == IF c = "none" THEN inside ELSE [inside EXCEPT ![c] = 0]

\* Mutant of Ended: only a source that was dropped is told.
EndedDropped(k, ok) ==
  IF told[k].performed THEN [told EXCEPT ![k] = [@ EXCEPT !.ended = @ + 1, !.finished = ok]] ELSE told
\* dnd_finished or cancelled.
Ended(k, ok) == [told EXCEPT ![k] = [@ EXCEPT !.ended = @ + 1, !.finished = ok]]
NoDrag == [g EXCEPT !.source = 0, !.dropped = FALSE, !.focus = "none"]

\* host_drag_leave
HostActive == {<<c, k>> \in Clients \X Mac : off[c][k].active}
HostLeft == [c \in Clients |-> [k \in Keys |->
  IF <<c, k>> \in HostActive THEN [off[c][k] EXCEPT !.active = FALSE, !.finished = TRUE, !.pipe = FALSE] ELSE off[c][k]]]
HostOutside == [c \in Clients |-> IF \E k \in Mac : <<c, k>> \in HostActive THEN 0 ELSE inside[c]]

\* host_drag_finished: every offer of the token ends with the first answer.
HostFinished(k) == [c \in Clients |-> [off[c] EXCEPT ![k] = [@ EXCEPT !.finished = TRUE, !.pipe = FALSE]]]

---------------------------------------------------------------------------
\* The guest: requests of clients.

\* data_device_start_drag; the pointer leaves before the drag enters.
StartDrag(c) ==
  LET k == g.serial + 1 IN
  /\ k \in Guest /\ g.down /\ g.grab = c /\ pointer = c
  /\ LET o == IF g.source # 0 THEN Detached(off, g.source, FALSE) ELSE off IN
     off' = [o EXCEPT ![c][k] = [NoOffer EXCEPT !.live = TRUE, !.active = TRUE, !.source = TRUE]]
  /\ told' = IF g.source # 0 THEN Ended(g.source, FALSE) ELSE told
  /\ g' = [g EXCEPT !.source = k, !.dropped = FALSE, !.exported = FALSE, !.focus = c, !.serial = k]
  /\ pointer' = "none" /\ inside' = [inside EXCEPT ![c] = k]
  /\ Say(<<Msg("offered", k, "none", TRUE)>>)
  /\ strays' = (IF \E i \in DOMAIN in : in[i].t = "release" THEN strays \cup {k} ELSE strays)
  /\ UNCHANGED <<in, user, br, lost>>

\* data_offer_accept and data_offer_set_actions.
Accept(c, k, ok) ==
  /\ off[c][k].live /\ off[c][k].active /\ off[c][k].ok # ok /\ (~ok => Withdraws)
  /\ off' = [off EXCEPT ![c][k].ok = ok]
  /\ IF k \in Mac THEN Say(<<Msg("accepted", k, "none", ok)>>) ELSE UNCHANGED out
  /\ UNCHANGED <<g, inside, pointer, told, in, user, br, lost, strays>>

\* data_offer_receive of a Mac drag: the pipe waits unless the value is here.
Receive(c, k) ==
  LET o == off[c][k] IN
  /\ Reads /\ k \in Mac /\ o.live /\ ~o.finished /\ (o.active \/ o.dropped) /\ ~o.pipe /\ o.value = "none"
  /\ off' = [off EXCEPT ![c][k].pipe = TRUE] /\ Say(<<Msg("request", k, "none", TRUE)>>)
  /\ UNCHANGED <<g, inside, pointer, told, in, user, br, lost, strays>>

\* Mutant of Finishes: also before the drop.
FinishesEarly(o) == o.live /\ o.ok /\ ~o.finished

\* data_offer_finish
Finishes(o) == o.live /\ o.dropped /\ o.ok /\ ~o.finished
Finish(c, k) ==
  LET o == off[c][k] IN
  /\ Finishes(o)
  /\ IF k \in Mac
     THEN off' = HostFinished(k) /\ Say(<<Msg("finished", k, "none", TRUE)>>) /\ UNCHANGED <<g, told>>
     ELSE /\ o.source /\ off' = Detached(off, k, TRUE) /\ told' = Ended(k, TRUE)
          /\ g' = (IF g.source = k THEN NoDrag ELSE g) /\ UNCHANGED out
  /\ UNCHANGED <<inside, pointer, in, user, br, lost, strays>>

\* data_offer_resource_destroy: the current offer of the drag cancels it.
Cancels(o, k) == o.source /\ ~o.finished /\ g.source = k /\ (o.active \/ o.dropped)
DestroyOffer(c, k) ==
  LET o == off[c][k] IN
  /\ o.live /\ (o.active => OfferDies)
  /\ IF k \in Mac
     THEN IF o.dropped /\ ~o.finished
          THEN off' = [HostFinished(k) EXCEPT ![c][k] = NoOffer] /\ Say(<<Msg("finished", k, "none", FALSE)>>)
          ELSE off' = [off EXCEPT ![c][k] = NoOffer] /\ UNCHANGED out
     ELSE off' = [(IF Cancels(o, k) THEN Detached(off, k, FALSE) ELSE off) EXCEPT ![c][k] = NoOffer] /\ UNCHANGED out
  /\ IF k \in Guest /\ Cancels(o, k) THEN told' = Ended(k, FALSE) /\ g' = NoDrag ELSE UNCHANGED <<told, g>>
  /\ UNCHANGED <<inside, pointer, in, user, br, lost, strays>>

\* data_source_resource_destroy
DestroySource ==
  /\ SourceDies /\ g.source # 0
  /\ off' = Detached(off, g.source, FALSE) /\ g' = [NoDrag EXCEPT !.exported = FALSE]
  /\ told' = Ended(g.source, FALSE)
  /\ UNCHANGED <<inside, pointer, out, in, user, br, lost, strays>>

---------------------------------------------------------------------------
\* The guest: messages of the Mac.
Got(t) == in # <<>> /\ Head(in).t = t /\ in' = Tail(in)
M == Head(in)
Dragging == g.source # 0 /\ ~g.dropped

\* handle_pointer_position
Position ==
  /\ Got("position") /\ UNCHANGED <<out, told, user, br, lost, strays>>
  /\ IF g.exported \/ g.host # 0 THEN UNCHANGED <<g, off, inside, pointer>>
     ELSE IF Dragging
     THEN IF M.c = g.focus THEN UNCHANGED <<g, off, inside, pointer>>
          ELSE /\ g' = [g EXCEPT !.focus = M.c] /\ UNCHANGED pointer
               /\ LET o == Left(off, g.focus, g.source) IN
                  IF M.c = "none" THEN off' = o /\ inside' = Outside(g.focus)
                  ELSE /\ off' = [o EXCEPT ![M.c][g.source] = [NoOffer EXCEPT !.live = TRUE, !.active = TRUE, !.source = TRUE]]
                       /\ inside' = [Outside(g.focus) EXCEPT ![M.c] = g.source]
     ELSE /\ pointer' = (IF pointer # "none" /\ (IF g.source = 0 THEN g.down ELSE M.c = "none") THEN pointer ELSE M.c)
          /\ UNCHANGED <<g, off, inside>>

\* handle_pointer_button
Press ==
  /\ Got("press")
  /\ g' = IF pointer = M.c THEN [g EXCEPT !.down = TRUE, !.grab = M.c] ELSE g
  /\ UNCHANGED <<off, inside, pointer, told, out, user, br, lost, strays>>

\* np_data_drag_finish, when the last button is up.
Release ==
  LET k == g.source
      c == g.focus
      dropped == c # "none" /\ off[c][k].active /\ off[c][k].ok
      up == [g EXCEPT !.down = FALSE, !.grab = "none"] IN
  /\ Got("release")
  /\ IF ~Dragging \/ g.exported THEN g' = up /\ UNCHANGED <<off, inside, pointer, told>>
     ELSE /\ g' = [up EXCEPT !.focus = "none", !.dropped = dropped, !.source = IF dropped THEN k ELSE 0]
          /\ inside' = Outside(c) /\ pointer' = c
          /\ IF dropped
             THEN off' = [off EXCEPT ![c][k] = [@ EXCEPT !.active = FALSE, !.dropped = TRUE]]
                  /\ told' = [told EXCEPT ![k].performed = TRUE]
             ELSE off' = Detached(off, k, FALSE) /\ told' = Ended(k, FALSE)
  /\ UNCHANGED <<out, user, br, lost, strays>>

\* np_data_handle_file_drag, actions 6 to 9: an export of the current drag.
Current == M.k = g.serial /\ g.source # 0
Export ==
  /\ \E t \in {"read", "began", "exported", "ended"} : Got(t)
  /\ UNCHANGED <<user, br, lost, strays, pointer>>
  /\ IF ~Current THEN UNCHANGED <<g, off, inside, told, out>>
     ELSE LET k == g.source IN
       \/ M.t = "read" /\ Say(<<Msg("source", k, "none", TRUE)>>) /\ UNCHANGED <<g, off, inside, told>>
       \/ /\ M.t = "began" /\ off' = Left(off, g.focus, k) /\ inside' = Outside(g.focus)
          /\ g' = [g EXCEPT !.focus = "none", !.exported = TRUE] /\ UNCHANGED <<told, out>>
       \/ /\ M.t = "exported" /\ g' = [g EXCEPT !.dropped = TRUE] /\ told' = [told EXCEPT ![k].performed = TRUE]
          /\ UNCHANGED <<off, inside, out>>
       \/ /\ M.t = "ended" /\ off' = Detached(off, k, M.b /\ g.dropped) /\ told' = Ended(k, M.b /\ g.dropped)
          /\ g' = [NoDrag EXCEPT !.exported = FALSE, !.down = FALSE] /\ UNCHANGED <<inside, out>>

\* Actions 1 and 2: a Mac drag over a surface.
HostEnter ==
  /\ Got("enter")
  /\ IF off[M.c][M.k].active THEN UNCHANGED <<g, off, inside, pointer>>
     ELSE /\ off' = [HostLeft EXCEPT ![M.c][M.k] = [NoOffer EXCEPT !.live = TRUE, !.active = TRUE]]
          /\ inside' = [HostOutside EXCEPT ![M.c] = M.k]
          /\ g' = [g EXCEPT !.host = M.k] /\ pointer' = "none"
  /\ UNCHANGED <<told, out, user, br, lost, strays>>

\* Action 3
HostLeave ==
  /\ Got("leave")
  /\ IF g.host = M.k THEN off' = HostLeft /\ inside' = HostOutside /\ g' = [g EXCEPT !.host = 0]
     ELSE UNCHANGED <<off, inside, g>>
  /\ UNCHANGED <<pointer, told, out, user, br, lost, strays>>

\* Action 4: a drop on an offer that is accepted, otherwise a leave.
Dropped(o) == IF o.ok THEN [o EXCEPT !.active = FALSE, !.dropped = TRUE]
              ELSE [o EXCEPT !.active = FALSE, !.finished = TRUE, !.pipe = FALSE]
HostDrop ==
  LET here == {c \in Clients : off[c][M.k].active} IN
  /\ Got("drop")
  /\ off' = [c \in Clients |-> IF c \in here THEN [off[c] EXCEPT ![M.k] = Dropped(@)] ELSE off[c]]
  /\ inside' = [c \in Clients |-> IF c \in here THEN 0 ELSE inside[c]]
  /\ g' = [g EXCEPT !.host = 0]
  /\ pointer' = IF here = {} THEN pointer ELSE CHOOSE c \in here : TRUE
  /\ strays' = (IF g.exported /\ \A c \in here : ~off[c][M.k].ok THEN strays \cup {g.serial} ELSE strays)
  /\ UNCHANGED <<told, out, user, br, lost>>

\* Mutant of Supplied: a value that is absent does not answer the pipe.
SuppliedPresent(o, b) == IF b THEN [o EXCEPT !.value = "here", !.pipe = FALSE] ELSE [o EXCEPT !.value = "absent"]

\* Action 5: the Mac's bytes, or none; what was asked for and cannot come ends the drag.
Supplied(o, b) == [o EXCEPT !.value = IF b THEN "here" ELSE "absent", !.pipe = FALSE]
Payload ==
  LET mine == {c \in Clients : off[c][M.k].live /\ ~off[c][M.k].finished}
      fails == ~M.b /\ \E c \in mine : off[c][M.k].dropped /\ off[c][M.k].ok IN
  /\ Got("payload")
  /\ off' = IF fails THEN HostFinished(M.k)
            ELSE [c \in Clients |-> IF c \in mine THEN [off[c] EXCEPT ![M.k] = Supplied(@, M.b)] ELSE off[c]]
  /\ IF fails THEN Say(<<Msg("finished", M.k, "none", FALSE)>>) ELSE UNCHANGED out
  /\ UNCHANGED <<g, inside, pointer, told, user, br, lost, strays>>

---------------------------------------------------------------------------
\* Nothing is on its way; no client works on what was dropped on it.
Quiet == out = <<>> /\ in = <<>> /\ user.drag = "none" /\ ~user.down /\ br.transfers = {}
Settled == \A c \in Clients, k \in Keys : off[c][k].live /\ off[c][k].dropped => off[c][k].finished

\* The Mac: AppKit and FileDragBridge.

\* Mutant of Released: the export outlives the mouse-up.
ReleasedKeeps == br
\* pointerReleased: a bridge that has no session forgets the export.
Released == IF br.out.dropped THEN br ELSE [br EXCEPT !.out = NoExport]

Moves(w) == w # user.over /\ user.moves < MaxMoves /\ user' = [user EXCEPT !.over = w, !.moves = @ + 1]
\* The mouse outside of an AppKit drag.
MoveMouse(w) ==
  /\ user.drag = "none" /\ Moves(w)
  /\ Send(<<Msg("position", 0, IF w = "mac" THEN "none" ELSE w, TRUE)>>)
  /\ UNCHANGED <<g, off, inside, pointer, told, out, br, lost, strays>>
MouseDown ==
  /\ user.drag = "none" /\ ~user.down /\ user.over # "mac" /\ user.moves < MaxMoves
  /\ user' = [user EXCEPT !.down = TRUE, !.moves = @ + 1]
  /\ Send(<<Msg("press", 0, user.over, TRUE)>>)
  /\ UNCHANGED <<g, off, inside, pointer, told, out, br, lost, strays>>
MouseUp ==
  /\ user.drag = "none" /\ user.down /\ user' = [user EXCEPT !.down = FALSE]
  /\ Send(<<Msg("release", 0, "none", TRUE)>>)
  /\ br' = Released
  /\ strays' = strays \cup {out[i].k : i \in {j \in DOMAIN out : out[j].t = "offered"}}
  /\ UNCHANGED <<g, off, inside, pointer, told, out, lost>>

\* beginExportIfNeeded
BeginExport ==
  /\ user.drag = "none" /\ user.down /\ user.over = "mac" /\ br.out.export # 0 /\ br.out.ready
  /\ user' = [user EXCEPT !.drag = "own"]
  /\ br' = [br EXCEPT !.fresh = TRUE, !.out = [@ EXCEPT !.dropped = FALSE, !.localDrop = FALSE]]
  /\ Send(<<Msg("began", br.out.export, "none", TRUE)>>)
  /\ strays' = (IF br.out.dropped THEN strays \cup {br.out.export} ELSE strays)
  /\ UNCHANGED <<g, off, inside, pointer, told, out, lost>>
\* A drag that begins in another application.
OtherDrag ==
  /\ user.drag = "none" /\ ~user.down /\ user.over = "mac" /\ user.macs < MaxMac
  /\ user' = [user EXCEPT !.drag = "other", !.down = TRUE] /\ br' = [br EXCEPT !.fresh = TRUE]
  /\ UNCHANGED <<g, off, inside, pointer, told, out, in, lost, strays>>

\* destination and leave: a drag of a new sequence number has a new token.
Token == IF br.fresh THEN 11 + user.macs ELSE br.incoming
\* Mutant of Leaving: only an accepted drag leaves.
LeavingAccepted == IF user.over # "mac" /\ br.accepted THEN <<Msg("leave", br.incoming, "none", TRUE)>> ELSE <<>>
Leaving == IF user.over # "mac" /\ br.incoming # 0 THEN <<Msg("leave", br.incoming, "none", TRUE)>> ELSE <<>>
DragOver(w) ==
  /\ user.drag # "none" /\ Token \in Mac
  /\ IF w = "mac"
     THEN Moves(w) /\ Send(Leaving) /\ br' = [br EXCEPT !.accepted = FALSE]
     ELSE /\ Send(Leaving \o <<Msg("enter", Token, w, TRUE)>>)
          /\ br' = [br EXCEPT !.incoming = Token, !.fresh = FALSE, !.accepted = FALSE]
          /\ w # user.over /\ user.moves < MaxMoves
          /\ user' = [user EXCEPT !.over = w, !.moves = @ + 1, !.macs = IF br.fresh THEN @ + 1 ELSE @]
  /\ UNCHANGED <<g, off, inside, pointer, told, out, lost, strays>>

Over == [user EXCEPT !.drag = "none", !.down = FALSE]
\* perform, and for a drag of our own also draggingSession(endedAt:).
Perform ==
  LET k == br.incoming IN
  /\ user.drag # "none" /\ user.over # "mac" /\ br.accepted /\ user' = Over
  /\ IF user.drag = "own"
     THEN /\ Send(<<Msg("drop", k, "none", TRUE), Msg("exported", br.out.export, "none", TRUE), Msg("payload", k, "none", TRUE)>>)
          /\ br' = [br EXCEPT !.out.dropped = TRUE, !.out.localDrop = TRUE]
     ELSE Send(<<Msg("drop", k, "none", TRUE)>>) /\ UNCHANGED br
  /\ UNCHANGED <<g, off, inside, pointer, told, out, lost, strays>>
\* A drop the destination has not accepted, or one outside the Linux windows.
DropElsewhere(copied) ==
  /\ user.drag # "none" /\ (user.over # "mac" => ~br.accepted /\ ~copied) /\ user' = Over
  /\ IF user.drag = "own" /\ br.out.export # 0
     THEN /\ Send(Leaving \o (IF copied THEN <<Msg("exported", br.out.export, "none", TRUE)>> ELSE <<>>)
                          \o <<Msg("ended", br.out.export, "none", copied)>>)
          /\ br' = [br EXCEPT !.out = NoExport, !.accepted = FALSE]
     ELSE Send(Leaving) /\ br' = [br EXCEPT !.accepted = FALSE]
  /\ UNCHANGED <<g, off, inside, pointer, told, out, lost, strays>>

GotOut(t) == out # <<>> /\ Head(out).t = t /\ out' = Tail(out)
O == Head(out)
\* What the guest says of a drag the Mac has replaced by a newer one: of an own drop, for its export too.
Strayed(ks) == strays' = (IF O.k # br.incoming THEN strays \cup ks ELSE strays)
\* receive
Offered ==
  /\ GotOut("offered")
  /\ IF user.drag = "own" \/ br.out.dropped THEN UNCHANGED <<br, in>>
     ELSE br' = [br EXCEPT !.out = [NoExport EXCEPT !.export = O.k]] /\ Send(<<Msg("read", O.k, "none", TRUE)>>)
  /\ UNCHANGED <<g, off, inside, pointer, told, user, lost, strays>>
SourceData ==
  /\ GotOut("source") /\ br' = IF O.k = br.out.export THEN [br EXCEPT !.out.ready = TRUE] ELSE br
  /\ UNCHANGED <<g, off, inside, pointer, told, in, user, lost, strays>>
Accepted ==
  /\ GotOut("accepted") /\ br' = IF O.k = br.incoming THEN [br EXCEPT !.accepted = O.b] ELSE br
  /\ UNCHANGED <<g, off, inside, pointer, told, in, user, lost, strays>>
Finished ==
  /\ GotOut("finished")
  /\ IF O.k = br.incoming /\ br.out.localDrop
     THEN /\ Send(<<Msg("ended", br.out.export, "none", O.b)>>)
          /\ br' = [br EXCEPT !.out = NoExport, !.transfers = @ \ {O.k}]
     ELSE br' = [br EXCEPT !.transfers = @ \ {O.k}] /\ UNCHANGED in
  /\ Strayed({O.k} \cup (IF br.out.localDrop THEN {br.out.export} ELSE {}))
  /\ UNCHANGED <<g, off, inside, pointer, told, user, lost>>
\* supplyIncoming: only the current drag's data is asked for.
Request ==
  /\ GotOut("request")
  /\ br' = IF O.k = br.incoming THEN [br EXCEPT !.transfers = @ \cup {O.k}] ELSE br
  /\ Strayed({O.k}) /\ UNCHANGED <<g, off, inside, pointer, told, in, user, lost>>
\* A transfer ends with the bytes or with an error.
Transferred(k, b) ==
  /\ k \in br.transfers /\ br' = [br EXCEPT !.transfers = @ \ {k}] /\ Send(<<Msg("payload", k, "none", b)>>)
  /\ UNCHANGED <<g, off, inside, pointer, told, out, user, lost, strays>>

---------------------------------------------------------------------------
\* Mutant of Unfinished: a lost connection cancels no export.
UnfinishedGuest == g.source # 0 /\ ~g.exported /\ ~g.dropped

\* np_data_host_disconnected, np_input_host_disconnected, closeAll, disconnect, and the channels.
\* A drag of AppKit goes on over windows that are gone.
Unfinished == g.source # 0 /\ (g.exported \/ ~g.dropped)
Lose ==
  /\ lost < MaxLosses /\ lost' = lost + 1
  /\ out' = <<>> /\ in' = <<>> /\ br' = [Bridge0 EXCEPT !.fresh = TRUE] /\ user' = [user EXCEPT !.over = "mac"]
  /\ LET o == IF Unfinished THEN Detached(HostLeft, g.source, FALSE) ELSE HostLeft IN
     off' = [c \in Clients |-> [k \in Keys |-> IF k \in Mac THEN [o[c][k] EXCEPT !.finished = TRUE, !.pipe = FALSE] ELSE o[c][k]]]
  /\ inside' = IF Unfinished /\ g.focus # "none" THEN [HostOutside EXCEPT ![g.focus] = 0] ELSE HostOutside
  /\ told' = IF Unfinished THEN Ended(g.source, FALSE) ELSE told
  /\ g' = [(IF Unfinished THEN [NoDrag EXCEPT !.exported = FALSE] ELSE g) EXCEPT !.host = 0, !.down = FALSE, !.grab = "none"]
  /\ pointer' = "none" /\ UNCHANGED strays

GuestReads == Position \/ Press \/ Release \/ Export \/ HostEnter \/ HostLeave \/ HostDrop \/ Payload
MacReads == Offered \/ SourceData \/ Accepted \/ Finished \/ Request
Carries == GuestReads \/ MacReads \/ \E k \in Mac, b \in BOOLEAN : Transferred(k, b)
ClientActs == DestroySource \/ \E c \in Clients :
  StartDrag(c) \/ \E k \in Keys : Receive(c, k) \/ Finish(c, k) \/ DestroyOffer(c, k) \/ \E b \in BOOLEAN : Accept(c, k, b)
UserActs == MouseDown \/ MouseUp \/ BeginExport \/ OtherDrag \/ Perform
  \/ (\E w \in Clients \cup {"mac"} : MoveMouse(w) \/ DragOver(w)) \/ \E b \in BOOLEAN : DropElsewhere(b)

Next == Carries \/ ClientActs \/ UserActs \/ Lose
Spec == Init /\ [][Next]_vars

---------------------------------------------------------------------------
\* Types, and that no drag leaves its focus or its drop behind.
TypeOK ==
  /\ g.source \in {0} \cup Guest /\ g.focus \in Clients \cup {"none"} /\ pointer \in Clients \cup {"none"}
  /\ \A c \in Clients : inside[c] \in {0} \cup Keys
  /\ \A k \in Guest : told[k].ended \in 0 .. 2
  /\ g.source = 0 => g.focus = "none" /\ ~g.dropped

\* A source hears of its end once, and of finished only after dnd_drop_performed,
\* whichever of release, export, offer, replacement and disconnect comes first.
SourceToldOnce == \A k \in Guest :
  told[k].ended <= 1 /\ (told[k].finished => told[k].performed)

\* A drag that is over has told its source: the compositor forgets no source.
NoSourceForgotten == \A k \in Guest : k <= g.serial /\ k # g.source => told[k].ended = 1

\* When the mouse is up, nothing is on its way and the clients have finished, no drag holds the pointer:
\* neither an export nor a Mac drag swallows the positions that follow.  Except an export the bridge
\* never ends: it began from an offer that crossed the mouse-up (FileDragBridge.swift:61), a second
\* time before its drop was finished (:254), was dropped on an answer of the window it had left
\* (:112), or a newer drag of the Mac came before its finish (:117).
PointerIsFree == Quiet /\ Settled => g.host = 0 /\ (g.exported => g.serial \in strays)

\* A client is never inside a drag and under the pointer at once, and at most
\* one client is inside a drag.
OnePointer ==
  /\ pointer # "none" => inside[pointer] = 0
  /\ Cardinality({c \in Clients : inside[c] # 0}) <= 1

\* A client's pipe is answered: none waits when the Mac has nothing to send, but for what was
\* asked of a drag after the Mac's next one began (FileDragBridge.swift:122).
PipesAnswered == Quiet => \A c \in Clients, k \in Mac : off[c][k].pipe => k \in strays

\* Every drag ends, once, for everybody who took part in it.
DragsEnd == SourceToldOnce /\ NoSourceForgotten /\ PointerIsFree /\ PipesAnswered

\* AppKit starts a drag of a source only in the gesture that is still the source's: never for one
\* that Linux has already dropped, but for an offer that crossed the mouse-up (FileDragBridge.swift:61)
\* and an own drop the client has not finished (:254).
NoSurpriseDrag == [][user.drag = "none" /\ user'.drag = "own" /\ told[br.out.export].performed
                       => br.out.export \in strays']_vars
=============================================================================
