------------------------------- MODULE Selection -------------------------------
(***************************************************************************)
(* One clipboard for two owners: the compositor's selection (data_device.c,  *)
(* input.c) and the Mac's pasteboard (Clipboard.swift), joined by two        *)
(* ordered channels.                                                        *)
(*                                                                         *)
(* A selection of a Linux client is a number of Guest, a copy on the Mac one *)
(* of Mac, nothing is 0.  A selection offers one type; those in Files name   *)
(* files, which a sharing session resolves before they are published.        *)
(***************************************************************************)
EXTENDS Integers, Sequences, FiniteSets

CONSTANTS
  MaxGuest,     \* selections Linux clients take
  MaxMac,       \* copies made on the Mac
  Files,        \* the selections that are file lists
  MaxPastes,    \* pastes of the Mac's selection in Linux
  MaxTransfers, \* pastes of files the bridge resolves at once (4)
  Fails,        \* whether a source may write nothing
  Stale,        \* whether a client may still read an offer that is no longer the selection
  MaxPolicies,  \* changes of policy
  MaxLosses,    \* lost connections
  Channel       \* messages on their way in one direction (a bound)

Guest == 1 .. MaxGuest
Mac == 11 .. 10 + MaxMac
Owners == {0} \cup Guest \cup Mac
Pastes == 1 .. MaxPastes

VARIABLES
  g,        \* np_server: selection_source, host_mime; and how many selections there were
  pastes,   \* per token: "free", "waiting" in clip_pending, or "done"
  served,   \* clip_reads: sources the compositor reads for the Mac
  out, in,  \* messages to the Mac and to the guest
  h,        \* ClipboardBridge
  asked,    \* pendingGuestReads
  pubs,     \* publications of files under way
  moves,    \* hostTransfers
  pb,       \* NSPasteboard: its content and its change count
  n,        \* copies on the Mac, changes of policy, lost connections so far
  offer     \* what the bridge was last offered, and the change count then

vars == <<g, pastes, served, out, in, h, asked, pubs, moves, pb, n, offer>>

NoOffer == [v |-> 0, count |-> 0]
Init ==
  /\ g = [src |-> 0, mac |-> 0, born |-> 0] /\ pastes = [k \in Pastes |-> "free"]
  /\ served = {} /\ out = <<>> /\ in = <<>>
  /\ h = [conn |-> TRUE, gen |-> 0, epoch |-> 0, last |-> 0, token |-> 0, toGuest |-> TRUE, toMac |-> TRUE]
  /\ asked = {} /\ pubs = {} /\ moves = {} /\ pb = [v |-> 0, count |-> 0]
  /\ n = [macs |-> 0, policies |-> 0, losses |-> 0] /\ offer = NoOffer

Msg(t, k, v) == [t |-> t, k |-> k, v |-> v]
\* A message without a connection is lost.
Tell(m) == IF h.conn THEN Len(out) < Channel /\ out' = Append(out, m) ELSE UNCHANGED out
Send(m) == Len(in) < Channel /\ in' = Append(in, m)

---------------------------------------------------------------------------
\* The guest.

\* data_device_set_selection
SetSelection ==
  /\ g.born < MaxGuest
  /\ g' = [src |-> g.born + 1, mac |-> 0, born |-> g.born + 1] /\ Tell(Msg("offered", 0, g.born + 1))
  /\ UNCHANGED <<pastes, served, in, h, asked, pubs, moves, pb, n, offer>>

\* data_source_resource_destroy
DestroySource ==
  /\ g.src # 0 /\ g' = [g EXCEPT !.src = 0] /\ Tell(Msg("offered", 0, 0))
  /\ UNCHANGED <<pastes, served, in, h, asked, pubs, moves, pb, n, offer>>

\* Whether a client holds an offer of the Mac.
Holds == g.mac # 0 \/ Stale
\* data_offer_receive and clip_request_from_host
Paste(k) ==
  /\ Holds /\ pastes[k] = "free" /\ (k > 1 => pastes[k - 1] # "free")
  /\ pastes' = [pastes EXCEPT ![k] = "waiting"] /\ Tell(Msg("paste", k, 0))
  /\ UNCHANGED <<g, served, in, h, asked, pubs, moves, pb, n, offer>>

Got(t) == in # <<>> /\ Head(in).t = t /\ in' = Tail(in)
M == Head(in)

\* np_data_serve_host_request: what the request reads is whoever owns the
\* selection when it arrives.
ServeRequest ==
  /\ Got("request")
  /\ IF g.src = 0 THEN Tell(Msg("data", M.k, 0)) /\ UNCHANGED served
     ELSE served' = served \cup {[k |-> M.k, v |-> g.src]} /\ UNCHANGED out
  /\ UNCHANGED <<g, pastes, h, asked, pubs, moves, pb, n, offer>>

\* clip_read_finish: the source has written, or failed.
SourceDone(r, ok) ==
  /\ r \in served /\ (ok \/ Fails) /\ served' = served \ {r} /\ Tell(Msg("data", r.k, IF ok THEN r.v ELSE 0))
  /\ UNCHANGED <<g, pastes, in, h, asked, pubs, moves, pb, n, offer>>

\* Mutant of Displaced: the client's source stays beside the Mac's types.
DisplacedNever(v) == [g EXCEPT !.mac = v]

\* np_input_handle_binary, NP_HOST_SELECTION_OFFERED
Displaced(v) == [g EXCEPT !.mac = v, !.src = IF v # 0 THEN 0 ELSE @]
HostOffered ==
  /\ Got("mac") /\ g' = Displaced(M.v)
  /\ UNCHANGED <<pastes, served, out, h, asked, pubs, moves, pb, n, offer>>

\* np_data_deliver_host_data
Deliver ==
  /\ Got("bytes") /\ pastes' = [pastes EXCEPT ![M.k] = IF @ = "waiting" THEN "done" ELSE @]
  /\ UNCHANGED <<g, served, out, h, asked, pubs, moves, pb, n, offer>>

---------------------------------------------------------------------------
\* The Mac.
GotOut(t) == out # <<>> /\ Head(out).t = t /\ out' = Tail(out)
O == Head(out)

\* A copy in any application.
Copy ==
  /\ n.macs < MaxMac /\ n' = [n EXCEPT !.macs = @ + 1]
  /\ pb' = [v |-> 11 + n.macs, count |-> pb.count + 1]
  /\ UNCHANGED <<g, pastes, served, out, in, h, asked, pubs, moves, offer>>

\* selectionGeneration, guestPublication?.cancel and abandonGuestReads.
Retire(b) == h' = [b EXCEPT !.gen = @ + 1] /\ asked' = {}

\* pollPasteboard, every half second or forced.
Polled(b) == [b EXCEPT !.last = pb.count]
Poll ==
  /\ h.conn /\ h.toGuest /\ pb.count # h.last
  /\ Retire(Polled(h)) /\ Send(Msg("mac", 0, pb.v)) /\ offer' = NoOffer
  /\ UNCHANGED <<g, pastes, served, out, pubs, moves, pb, n>>

\* guestOffered
GuestOffered ==
  /\ GotOut("offered") /\ offer' = [v |-> O.v, count |-> pb.count]
  /\ h' = [h EXCEPT !.gen = @ + 1, !.token = IF h.toMac /\ O.v # 0 THEN @ + 1 ELSE @]
  /\ IF h.toMac /\ O.v # 0
     THEN /\ asked' = {[k |-> h.token + 1, gen |-> h.gen + 1, count |-> pb.count]}
          /\ Send(Msg("request", h.token + 1, 0))
     ELSE asked' = {} /\ UNCHANGED in
  /\ UNCHANGED <<g, pastes, served, pubs, moves, pb, n>>

\* Mutant of Write: our own write is not noted.
WriteEchoes(v) == pb' = [v |-> v, count |-> pb.count + 1] /\ h' = h

\* clearContents, writeObjects and lastSeenChangeCount.
Write(v) == pb' = [v |-> v, count |-> pb.count + 1] /\ h' = [h EXCEPT !.last = pb.count + 1]

\* Mutant of Fresh: the change count is not compared.
FreshGeneration(r) == r.gen = h.gen

\* The generation and the change count are those of the offer.
Fresh(r) == r.gen = h.gen /\ r.count = pb.count
\* guestSuppliedData and publishGuestSelection
GuestData ==
  /\ GotOut("data")
  /\ \/ \E r \in asked :
          /\ r.k = O.k /\ asked' = asked \ {r}
          /\ IF ~Fresh(r) \/ O.v = 0 THEN UNCHANGED <<pubs, pb, h>>
             ELSE IF O.v \in Files
             THEN pubs' = pubs \cup {[v |-> O.v, gen |-> r.gen, count |-> r.count]} /\ UNCHANGED <<pb, h>>
             ELSE Write(O.v) /\ UNCHANGED pubs
     \/ (\A r \in asked : r.k # O.k) /\ UNCHANGED <<asked, pubs, pb, h>>
  /\ UNCHANGED <<g, pastes, served, in, moves, n, offer>>

\* The publication's task goes on after sharing.hostFiles; a cancelled one's
\* generation is old.
Publish(p) ==
  /\ p \in pubs /\ pubs' = pubs \ {p}
  /\ IF Fresh(p) /\ h.conn /\ h.toMac THEN Write(p.v) ELSE UNCHANGED <<pb, h>>
  /\ UNCHANGED <<g, pastes, served, out, in, asked, moves, n, offer>>

Full == Send(Msg("bytes", O.k, 0)) /\ UNCHANGED moves
\* guestRequestedHostData
GuestPastes ==
  /\ GotOut("paste")
  /\ IF h.toGuest /\ pb.v \in Files
     THEN IF Cardinality(moves) >= MaxTransfers THEN Full
          ELSE moves' = moves \cup {[k |-> O.k, v |-> pb.v, epoch |-> h.epoch, off |-> FALSE]} /\ UNCHANGED in
     ELSE Send(Msg("bytes", O.k, IF h.toGuest THEN pb.v ELSE 0)) /\ UNCHANGED moves
  /\ UNCHANGED <<g, pastes, served, h, asked, pubs, pb, n, offer>>

\* The importer is done; a cancelled or failed one answers with nothing.
Moved(m, ok) ==
  /\ m \in moves /\ moves' = moves \ {m}
  /\ IF m.epoch = h.epoch THEN Send(Msg("bytes", m.k, IF ok /\ ~m.off /\ h.toGuest THEN m.v ELSE 0)) ELSE UNCHANGED in
  /\ UNCHANGED <<g, pastes, served, out, h, asked, pubs, pb, n, offer>>

\* Mutant of Revoked: only the new policy is stored.
RevokedLater(b) == h' = b /\ UNCHANGED asked

Revoked(b) == IF b.toMac THEN h' = b /\ UNCHANGED asked ELSE Retire(b)
\* setPolicy: one direction at a time.
SetToMac ==
  /\ n.policies < MaxPolicies /\ n' = [n EXCEPT !.policies = @ + 1]
  /\ Revoked([h EXCEPT !.toMac = ~@])
  /\ UNCHANGED <<g, pastes, served, out, in, pubs, moves, pb, offer>>
SetToGuest ==
  /\ n.policies < MaxPolicies /\ n' = [n EXCEPT !.policies = @ + 1]
  /\ IF h.toGuest
     THEN /\ h' = [h EXCEPT !.toGuest = FALSE] /\ moves' = {[m EXCEPT !.off = TRUE] : m \in moves}
          /\ IF h.conn THEN Send(Msg("mac", 0, 0)) ELSE UNCHANGED in
          /\ UNCHANGED <<asked, offer>>
     ELSE /\ UNCHANGED moves
          /\ IF h.conn
             THEN Retire(Polled([h EXCEPT !.toGuest = TRUE])) /\ Send(Msg("mac", 0, pb.v)) /\ offer' = NoOffer
             ELSE h' = [h EXCEPT !.toGuest = TRUE] /\ UNCHANGED <<in, asked, offer>>
  /\ UNCHANGED <<g, pastes, served, out, pubs, pb>>

---------------------------------------------------------------------------
\* Mutant of Unanswered: pipes that wait for the Mac stay.
UnansweredKept == pastes

\* np_data_host_disconnected and disconnect.
Unanswered == [k \in Pastes |-> IF pastes[k] = "waiting" THEN "done" ELSE pastes[k]]
Lose ==
  /\ h.conn /\ n.losses < MaxLosses /\ n' = [n EXCEPT !.losses = @ + 1]
  /\ out' = <<>> /\ in' = <<>> /\ served' = {} /\ g' = [g EXCEPT !.mac = 0] /\ pastes' = Unanswered
  /\ Retire([h EXCEPT !.conn = FALSE, !.epoch = @ + 1]) /\ offer' = NoOffer
  /\ moves' = {[m EXCEPT !.off = TRUE] : m \in moves}
  /\ UNCHANGED <<pubs, pb>>

\* connectionReady
Connect ==
  /\ ~h.conn
  /\ Retire(LET b == [h EXCEPT !.conn = TRUE] IN IF h.toGuest THEN Polled(b) ELSE b)
  /\ IF h.toGuest THEN Send(Msg("mac", 0, pb.v)) ELSE UNCHANGED in
  /\ UNCHANGED <<g, pastes, served, out, pubs, moves, pb, n, offer>>

Guests == ServeRequest \/ HostOffered \/ Deliver
Macs == GuestOffered \/ GuestData \/ GuestPastes
Works == (\E p \in pubs : Publish(p)) \/ \E m \in moves, ok \in BOOLEAN : Moved(m, ok)

Next ==
  \/ SetSelection \/ DestroySource \/ (\E k \in Pastes : Paste(k))
  \/ ServeRequest \/ HostOffered \/ Deliver \/ (\E r \in served, ok \in BOOLEAN : SourceDone(r, ok))
  \/ Copy \/ Poll \/ GuestOffered \/ GuestData \/ GuestPastes
  \/ (\E p \in pubs : Publish(p)) \/ (\E m \in moves, ok \in BOOLEAN : Moved(m, ok))
  \/ SetToMac \/ SetToGuest \/ Lose \/ Connect
Spec == Init /\ [][Next]_vars

\* Both event loops run, and imports end.
Steps == Guests \/ Macs \/ Works

---------------------------------------------------------------------------
\* Types; a client's selection and the Mac's never both own the clipboard.
TypeOK ==
  /\ g.src \in {0} \cup Guest /\ g.mac \in Owners /\ (g.src = 0 \/ g.mac = 0)
  /\ pastes \in [Pastes -> {"free", "waiting", "done"}] /\ pb.v \in Owners
  /\ Cardinality(asked) <= 1 /\ Cardinality({m \in moves : m.epoch = h.epoch}) <= MaxTransfers

Idle == out = <<>> /\ in = <<>> /\ served = {} /\ asked = {} /\ pubs = {} /\ moves = {}

\* When nothing is on its way, guest and Mac agree on the owner: a client's
\* selection is on the pasteboard, and what clients are offered is what it holds.
Agreement == Idle /\ h.conn /\ h.last = pb.count =>
  /\ g.src # 0 => pb.v = g.src
  /\ g.mac # 0 => g.mac = pb.v

\* What the bridge wrote itself never comes back to Linux as the Mac's.
NoEcho == g.mac \notin Guest

\* The bridge writes only the selection it was last offered, over exactly what
\* was on the pasteboard then: it never buries a copy it has not seen.
NeverBuries == [][pb'.v # pb.v /\ pb'.v \in Guest => offer = [v |-> pb'.v, count |-> pb.count]]_vars

\* Nothing crosses in a direction the policy forbids, whatever was under way
\* when the policy changed.
PolicyHolds == [][
  /\ pb'.v # pb.v /\ pb'.v \in Guest => h.toMac
  /\ Len(in') > Len(in) /\ in'[Len(in')].t = "bytes" /\ in'[Len(in')].v # 0 => h.toGuest]_vars

\* No client waits on a pipe that nobody will answer.
PastesAnswered == Idle => \A k \in Pastes : pastes[k] # "waiting"

\* One owner of the selection, and no paste left behind.
SelectionAgrees == Agreement /\ NoEcho /\ PastesAnswered

\* Who waits: every paste.
Waits(k) == k \in Pastes /\ pastes[k] = "waiting"
=============================================================================
