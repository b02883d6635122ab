----------------------------- MODULE WindowResize ------------------------------
(***************************************************************************)
(* The size of a toplevel, negotiated by three parties: AppKit resizes the  *)
(* native window, the compositor paces the configures it passes on, and the *)
(* client acknowledges them and commits a size of its own choice, which the *)
(* native window then takes.                                               *)
(* (NativeWindow.swift, xdg_shell.c, surface_commit.c)                      *)
(*                                                                         *)
(* Size 0 in a configure leaves the choice to the client.                   *)
(***************************************************************************)
EXTENDS Integers, Sequences, FiniteSets

CONSTANTS
  Sizes,      \* sizes of a window
  MaxUser,    \* acts of the user: resizes and changes of the key window
  MaxMeta,    \* changes of the window's visibility
  MaxFree,    \* commits in which the client takes a size of its own
  MaxUnmap    \* times the client unmaps the window

VARIABLES
  win,       \* the native window: whether it exists, its size, whether a live resize goes on
  sent,      \* lastConfiguredSize and -States, configureSerial
  pending,   \* pendingConfigure, or none
  finish,    \* pendingResizeCompletionAnchor is set; awaitingResizeCommitSerial
  down,      \* commands on their way to the compositor
  phase,     \* xdg_configure_phase
  held,      \* the host configure the compositor holds back, or none
  pace,      \* host_resize_configure_awaiting_commit and host_configure_idle
  serial,    \* the display's serial
  listed,    \* xdg_configures: serials not acknowledged
  last,      \* the configure sent last: size, states and visibility
  acked,     \* host_configure_acked with its serials
  committed, \* committed_host_configure_serial
  wl,        \* configure events on their way to the client
  client,    \* the client: the configure it read last, its size, what it has acknowledged
  up,        \* scenes on their way to the host
  used       \* budget spent

host == <<win, sent, pending, finish>>
guest == <<phase, held, pace, serial, listed, last, acked, committed>>
vars == <<host, down, guest, wl, client, up, used>>

State(r, a) == [resizing |-> r, active |-> a]
Config(s, st, n) == [size |-> s, st |-> st, hs |-> n]
NoConfig == Config(0, State(FALSE, FALSE), 0)
NoAck == [on |-> FALSE, serial |-> 0, hs |-> 0]
NoEvent == [serial |-> 0, c |-> NoConfig, visible |-> TRUE]

Init ==
  /\ win = [on |-> FALSE, size |-> 0, live |-> FALSE, key |-> FALSE, visible |-> TRUE]
  /\ sent = NoConfig /\ pending = [on |-> FALSE, force |-> FALSE, c |-> NoConfig]
  /\ finish = [armed |-> FALSE, awaiting |-> 0, final |-> 0] /\ down = <<>>
  /\ phase = "initial" /\ held = [on |-> FALSE, c |-> NoConfig] /\ pace = [awaiting |-> 0, idle |-> FALSE]
  /\ serial = 0 /\ listed = <<>> /\ last = [c |-> NoConfig, visible |-> TRUE]
  /\ acked = NoAck /\ committed = 0
  /\ wl = <<>> /\ client = [read |-> NoEvent, size |-> 0, answers |-> 0, dirty |-> FALSE] /\ up = <<>>
  /\ used = [user |-> 0, meta |-> 0, free |-> 0, unmap |-> 0]

Spend(k, max) == used[k] < max /\ used' = [used EXCEPT ![k] = @ + 1]

---------------------------------------------------------------------------
\* The native window.

\* activeStates of a window w.
States(w) == State(w.live, w.key)

\* sendConfigure: a newer sample replaces the pending one.
Wanted(w, st, force) ==
  IF force \/ w.size # sent.size \/ st # sent.st
  THEN [on |-> TRUE, force |-> force, c |-> Config(w.size, st, 0)] ELSE pending

\* flushConfigure of a pending record p with the completion of a resize armed or not.
Flush(p, armed, f) ==
  IF p.on /\ (p.force \/ p.c.size # sent.size \/ p.c.st # sent.st)
  THEN /\ sent' = Config(p.c.size, p.c.st, sent.hs + 1)
       /\ down' = Append(down, [type |-> "configure", c |-> sent', visible |-> TRUE])
       /\ finish' = IF armed /\ ~p.c.st.resizing
                    THEN [armed |-> FALSE, awaiting |-> sent.hs + 1, final |-> sent.hs + 1]
                    ELSE [f EXCEPT !.armed = armed]
  ELSE UNCHANGED <<sent, down>> /\ finish' = [f EXCEPT !.armed = armed]
NoPending == [on |-> FALSE, force |-> FALSE, c |-> NoConfig]

\* finishResize: a fresh serial, whatever the size.
FinishResize(w) ==
  /\ Flush([on |-> TRUE, force |-> TRUE, c |-> Config(w.size, [States(w) EXCEPT !.resizing = FALSE], 0)], TRUE, finish)
  /\ pending' = NoPending

\* windowWillStartLiveResize
StartLive ==
  /\ win.on /\ ~win.live /\ Spend("user", MaxUser) /\ win' = [win EXCEPT !.live = TRUE]
  /\ finish' = [armed |-> FALSE, awaiting |-> 0, final |-> 0]
  /\ UNCHANGED <<sent, pending, down, guest, wl, client, up>>

\* windowDidResize during a live resize.
LiveResize(s) ==
  /\ win.live /\ s # win.size /\ Spend("user", MaxUser)
  /\ win' = [win EXCEPT !.size = s] /\ pending' = Wanted(win', States(win), FALSE)
  /\ UNCHANGED <<sent, finish, down, guest, wl, client, up>>

\* windowDidEndLiveResize
EndLive ==
  /\ win.live /\ win' = [win EXCEPT !.live = FALSE] /\ FinishResize(win')
  /\ UNCHANGED <<guest, wl, client, up, used>>

\* setFrameFromControl
Control(s) ==
  /\ win.on /\ ~win.live /\ s # win.size /\ Spend("user", MaxUser)
  /\ win' = [win EXCEPT !.size = s] /\ FinishResize(win')
  /\ UNCHANGED <<guest, wl, client, up>>

\* windowDidBecomeKey, windowDidResignKey
Key ==
  /\ win.on /\ Spend("user", MaxUser) /\ win' = [win EXCEPT !.key = ~@]
  /\ pending' = Wanted(win', States(win'), FALSE)
  /\ UNCHANGED <<sent, finish, down, guest, wl, client, up>>

\* displayClockFired
Tick ==
  /\ pending.on /\ Flush(pending, finish.armed, finish) /\ pending' = NoPending
  /\ UNCHANGED <<win, guest, wl, client, up, used>>

\* reportWindowState
Visibility ==
  /\ win.on /\ Spend("meta", MaxMeta) /\ win' = [win EXCEPT !.visible = ~@]
  /\ down' = Append(down, [type |-> "state", c |-> NoConfig, visible |-> win'.visible])
  /\ UNCHANGED <<sent, pending, finish, guest, wl, client, up>>

\* Mutant of TakesScene: a scene from before the end of the resize is taken.
TakesSceneAny(n) == ~win.live
\* Mutant of TakesScene: only a scene of the very serial is taken.
TakesSceneExact(n) == ~win.live /\ (finish.awaiting # 0 => n = finish.awaiting)

\* applyCommittedToplevelGeometry: whether a scene with serial n decides the size.
TakesScene(n) == ~win.live /\ (finish.awaiting # 0 => n # 0 /\ n >= finish.awaiting)

\* prepareWindow, or the end of the native window.
Scene ==
  /\ up # <<>> /\ up' = Tail(up)
  /\ LET s == Head(up)
     IN  IF s.size = 0
         THEN win' = [win EXCEPT !.on = FALSE, !.live = FALSE, !.key = FALSE, !.visible = TRUE]
              /\ pending' = NoPending /\ UNCHANGED finish
         ELSE IF ~win.on THEN win' = [win EXCEPT !.on = TRUE, !.size = s.size] /\ UNCHANGED <<pending, finish>>
         ELSE IF TakesScene(s.hs)
         THEN win' = [win EXCEPT !.size = s.size] /\ finish' = [finish EXCEPT !.awaiting = 0] /\ UNCHANGED pending
         ELSE UNCHANGED <<win, pending, finish>>
  /\ UNCHANGED <<sent, down, guest, wl, client, used>>

---------------------------------------------------------------------------
\* The compositor.

\* Mutant of PaceAfter: a configure that is sent does not hold back the next one.
PaceAfterNone(st, n) == 0
\* Mutant of PaceAfter: the compositor waits for a serial it has not sent.
PaceAfterNext(st, n) == IF st.resizing THEN n + 1 ELSE 0

\* host_resize_configure_awaiting_commit after configure n was sent.
PaceAfter(st, n) == IF st.resizing THEN n ELSE 0

\* send_host_toplevel_configure
SendConfigure(c, visible, paced) ==
  /\ serial' = serial + 1 /\ listed' = Append(listed, serial + 1)
  /\ wl' = Append(wl, [serial |-> serial + 1, c |-> c, visible |-> visible])
  /\ last' = [c |-> c, visible |-> visible]
  /\ pace' = [idle |-> FALSE, awaiting |-> IF paced THEN PaceAfter(c.st, serial + 1) ELSE pace.awaiting]
NoSend == UNCHANGED <<serial, listed, wl, last>>
Free == [on |-> FALSE, c |-> NoConfig]

\* np_xdg_configure_toplevel_from_host
HostConfigure(c) ==
  IF phase = "initial" THEN held' = [on |-> TRUE, c |-> c] /\ NoSend /\ UNCHANGED pace
  ELSE IF ~c.st.resizing THEN held' = Free /\ SendConfigure(c, last.visible, TRUE)
  ELSE /\ held' = [on |-> TRUE, c |-> c] /\ NoSend
       /\ pace' = IF pace.awaiting = 0 THEN [pace EXCEPT !.idle = TRUE] ELSE pace

\* Mutant of MetaConfig: an older size replaces the one held back.
MetaConfigOld == Config(last.c.size, last.c.st, 0)

\* configure_toplevel_metadata_changed: the newest geometry that is known.
MetaConfig == IF held.on THEN held.c ELSE Config(last.c.size, last.c.st, 0)

\* np_xdg_host_window_state
HostState(v) ==
  IF phase = "initial" \/ v = last.visible
  THEN NoSend /\ UNCHANGED <<held, pace>>
  ELSE held' = Free /\ SendConfigure(MetaConfig, v, TRUE)

Command ==
  /\ down # <<>> /\ down' = Tail(down)
  /\ IF Head(down).type = "configure" THEN HostConfigure(Head(down).c) ELSE HostState(Head(down).visible)
  /\ UNCHANGED <<host, phase, acked, committed, client, up, used>>

\* dispatch_pending_host_toplevel_configure
Idle ==
  /\ pace.idle
  /\ IF held.on THEN held' = Free /\ SendConfigure(held.c, last.visible, TRUE)
     ELSE pace' = [pace EXCEPT !.idle = FALSE] /\ NoSend /\ UNCHANGED held
  /\ UNCHANGED <<host, down, phase, acked, committed, client, up, used>>

---------------------------------------------------------------------------
\* The client, whose requests the compositor handles at once.

\* The bufferless first commit: np_xdg_send_initial_role_configure.
InitialCommit ==
  /\ phase = "initial" /\ phase' = "ack" /\ held' = Free
  /\ SendConfigure(IF held.on THEN held.c ELSE NoConfig, last.visible, held.on)
  /\ UNCHANGED <<host, down, acked, committed, client, up, used>>

Read ==
  /\ wl # <<>> /\ wl' = Tail(wl) /\ client' = [client EXCEPT !.read = Head(wl)]
  /\ UNCHANGED <<host, down, guest, up, used>>

\* xdg_surface_ack_configure consumes the serial and every older one.
Ack ==
  /\ \E k \in DOMAIN listed : listed[k] = client.read.serial
  /\ listed' = SelectSeq(listed, LAMBDA n : n > client.read.serial)
  /\ acked' = [on |-> TRUE, serial |-> client.read.serial, hs |-> client.read.c.hs]
  /\ phase' = IF phase = "ack" THEN "configured" ELSE phase
  /\ client' = [client EXCEPT !.dirty = TRUE,
                  !.answers = IF client.read.c.hs > @ THEN client.read.c.hs ELSE @]
  /\ UNCHANGED <<host, down, held, pace, serial, last, committed, wl, up, used>>

\* The host serial a commit answers.
Answered == IF acked.on /\ acked.hs # 0 THEN acked.hs ELSE committed

\* np_xdg_finish_toplevel_configure: the commit of serial n makes room for the next.
Reaches(n) == pace.awaiting # 0 /\ n >= pace.awaiting

\* np_surface_commit with a buffer of size s.
Commit(s) ==
  /\ phase = "configured"
  /\ \/ acked.on /\ s = client.read.c.size /\ UNCHANGED used
     \/ acked.on /\ client.read.c.size = 0 /\ UNCHANGED used
     \/ s # client.size /\ Spend("free", MaxFree)
  /\ committed' = Answered /\ acked' = NoAck
  /\ pace' = IF acked.on /\ Reaches(acked.serial)
             THEN [awaiting |-> 0, idle |-> pace.idle \/ held.on] ELSE pace
  /\ up' = Append(up, [size |-> s, hs |-> committed', answers |-> client.answers])
  /\ client' = [client EXCEPT !.size = s, !.dirty = FALSE]
  /\ UNCHANGED <<host, down, phase, held, serial, listed, last, wl>>

\* The client attaches no buffer: np_xdg_clear_configures.
Unmap ==
  /\ phase = "configured" /\ client.size # 0 /\ Spend("unmap", MaxUnmap)
  /\ phase' = "initial" /\ held' = Free /\ pace' = [awaiting |-> 0, idle |-> FALSE]
  /\ listed' = <<>> /\ last' = [c |-> NoConfig, visible |-> TRUE] /\ acked' = NoAck /\ committed' = 0
  /\ wl' = <<>> /\ client' = [client EXCEPT !.read = NoEvent, !.size = 0, !.dirty = FALSE]
  /\ up' = Append(up, [size |-> 0, hs |-> 0, answers |-> client.answers])
  /\ UNCHANGED <<host, down, serial>>

Compositor == Command \/ Idle
ClientSteps == InitialCommit \/ Read \/ Ack \/ \E s \in Sizes : Commit(s)

Next ==
  \/ StartLive \/ EndLive \/ Key \/ Tick \/ Visibility \/ Scene
  \/ \E s \in Sizes : LiveResize(s) \/ Control(s)
  \/ Compositor \/ ClientSteps \/ Unmap

Spec == Init /\ [][Next]_vars

\* The display clock, the main run loop and the compositor go on, whether or not a live resize
\* ends; the client reads, acknowledges and commits.
Steps ==
  \/ Tick \/ Scene \/ Compositor \/ InitialCommit \/ Read \/ Ack
  \/ \E s \in Sizes : acked.on /\ Commit(s)

---------------------------------------------------------------------------
\* Every variable stays in its type.
TypeOK ==
  /\ win.size \in Sizes \cup {0} /\ client.size \in Sizes \cup {0}
  /\ phase \in {"initial", "ack", "configured"}
  /\ pace.awaiting \in 0..serial /\ finish.awaiting \in 0..sent.hs
  /\ \A j, k \in DOMAIN listed : j < k => listed[j] < listed[k]

\* Nothing is on its way and no party has anything left to do; a live resize may go on.
AtRest ==
  /\ win.on /\ ~pending.on /\ down = <<>> /\ up = <<>> /\ wl = <<>>
  /\ ~held.on /\ ~pace.idle /\ phase = "configured" /\ listed = <<>> /\ ~client.dirty

Quiet == AtRest /\ ~win.live

\* Once everything is quiet, the native window is as large as what the client shows in it
\* (NativeWindow.applyCommittedToplevelGeometry).
FramesAgree == Quiet => win.size = client.size

\* Once everything is at rest, be it with the mouse still down, the client has seen the host's last size and states, and the
\* window's visibility (xdg_shell.c np_xdg_configure_toplevel_from_host, np_xdg_host_window_state).
NewestSeen ==
  (AtRest /\ sent.hs # 0 /\ used.unmap = 0)
    => client.read.c.size = sent.size /\ client.read.c.st = sent.st /\ client.read.visible = win.visible

\* Of the configures a client has not committed, at most one belongs to a resize that still goes
\* on: samples at display rate never queue up (xdg_shell.c, the comment on pacing).
Unanswered ==
  {k \in 1..Len(wl) : wl[k].c.st.resizing} \cup
  (IF client.read.c.st.resizing /\ (client.dirty \/ \E j \in DOMAIN listed : listed[j] = client.read.serial)
   THEN {0} ELSE {})
ResizePaced ==
  \A j, k \in Unanswered : j < k =>
    \E m \in (j + 1)..(k - 1) : ~wl[m].c.st.resizing

\* Both sides of a window agree on its size.
SizesAgree == FramesAgree /\ NewestSeen /\ ResizePaced

\* After a resize, no scene the client drew for an earlier configure changes the window
\* (NativeWindow.swift, "ignore older scenes until the final configure generation is committed").
NoSnapBack == Scene /\ win.on /\ win'.on /\ win'.size # win.size => Head(up).answers >= finish.final

\* Who waits: a resize, one the user never lets go of too, until its last size and
\* states reach the client, which answers them.
Waits(k) == k = 1 /\ win.on /\ ~(AtRest /\ client.read.c.size = sent.size /\ client.read.c.st = sent.st)
===============================================================================
