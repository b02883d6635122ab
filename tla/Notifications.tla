----------------------------- MODULE Notifications -----------------------------
(***************************************************************************)
(* Desktop notifications of a remote session: the D-Bus service of the      *)
(* guest, the queue to its compositor, the outbox that shares the wire with *)
(* the window state, the inbox and the writer of the host, and the          *)
(* presenter with its asynchronous calls to Notification Center.            *)
(* (notify_dbus.c, notifications.c, notification_outbox.h,                  *)
(* GuestNotificationInbox.swift, RemoteInbound.swift,                       *)
(* GuestNotificationPresenter.swift)                                        *)
(*                                                                         *)
(* A revision is never used twice, so it names a notification's content.    *)
(***************************************************************************)
EXTENDS Integers, Sequences, FiniteSets, SequencesExt

CONSTANTS
  MaxId,        \* ids that may be allocated
  MaxRev,       \* revisions that may be posted
  MaxPending,   \* events the compositor's queue holds
  PostIds,      \* posts the outbox holds
  CloseIds,     \* closes the outbox holds (the code has one limit for both)
  Tight,        \* whether the outbox's bytes or memory may run out
  MaxSessions,  \* connections
  MaxClicks     \* clicks of the user and changes of the preference

Ids == 1..MaxId
Revs == 1..MaxRev

VARIABLES
  active,    \* the service's revision of each id, or zero
  next,      \* next_id and next_revision
  signals,   \* NotificationClosed signals sent for each id
  queue,     \* events for the compositor
  cur,       \* the event wake_ready works on, and where it is
  out,       \* the outbox
  up,        \* a session is connected, and has shaken hands
  sessions,  \* connections made
  known,     \* guestNotifications of the host's writer
  feedback,  \* actions and closes on their way to the guest
  inbox,     \* GuestNotificationInbox
  batch,     \* drained events the main run loop delivers
  entry,     \* the presenter's revision of each id, or zero
  tasks,     \* running presentation tasks
  center,    \* revisions in Notification Center
  record,    \* delivery of each revision in the history
  enabled,   \* the user's preference
  clicks,    \* clicks on their way to the presenter
  spent,     \* clicks and preference changes made
  invoked    \* ActionInvoked signals: the revision clicked and the one then current

service == <<active, next, signals>>
guest == <<queue, cur, out>>
wire == <<up, sessions, known, feedback>>
user == <<enabled, clicks, spent, invoked>>
presenter == <<entry, tasks, center, record>>
vars == <<service, guest, wire, inbox, batch, presenter, user>>

Event(t, i, r) == [type |-> t, id |-> i, rev |-> r]
Posted(i, r) == Event("posted", i, r)
Closed(i, r) == Event("closed", i, r)
Nothing == Event("none", 0, 0)
ResetFrame == Event("reset", 0, 0)
EmptyOut == [posted |-> <<>>, closed |-> <<>>, active |-> Nothing, reset |-> FALSE]
NoRevs == [i \in Ids |-> 0]
EmptyInbox == [posted |-> NoRevs, closed |-> NoRevs, rejected |-> NoRevs, reset |-> FALSE]

Init ==
  /\ active = NoRevs /\ next = [id |-> 1, rev |-> 1] /\ signals = [i \in Ids |-> 0]
  /\ queue = <<>> /\ cur = [ev |-> Nothing, at |-> "idle"] /\ out = EmptyOut
  /\ up = [linked |-> FALSE, greeted |-> FALSE] /\ sessions = 0 /\ known = NoRevs /\ feedback = <<>>
  /\ inbox = EmptyInbox /\ batch = <<>>
  /\ entry = NoRevs /\ tasks = {} /\ center = {} /\ record = [r \in Revs |-> "none"]
  /\ enabled = TRUE /\ clicks = {} /\ spent = 0 /\ invoked = {}

---------------------------------------------------------------------------
\* The service thread, under the service's lock.

Without(q, i) == SelectSeq(q, LAMBDA e : e.id # i)
\* Mutant of Room: the queue takes every event.
RoomAlways(q) == TRUE

Room(q) == Len(q) < MaxPending

\* deliver: an event replaces the pending one of its id.
Accepts(e) == Room(Without(queue, e.id))
Delivered(e) == queue' = IF Accepts(e) THEN Append(Without(queue, e.id), e) ELSE Without(queue, e.id)

\* handle_notify: a new notification, or the replacement of an active one.
Notify(i) ==
  /\ next.rev \in Revs
  /\ \/ i = next.id /\ i \in Ids
     \/ i \in Ids /\ active[i] # 0
  /\ Delivered(Posted(i, next.rev))
  /\ next' = [id |-> IF active[i] = 0 THEN next.id + 1 ELSE next.id, rev |-> next.rev + 1]
  /\ active' = IF Accepts(Posted(i, next.rev)) THEN [active EXCEPT ![i] = next.rev] ELSE active
  /\ UNCHANGED <<signals, cur, out, wire, inbox, batch, presenter, user>>

Signal(S) == signals' = [i \in Ids |-> IF i \in S THEN signals[i] + 1 ELSE signals[i]]

\* The method CloseNotification.
CloseNotification(i) ==
  /\ active[i] # 0
  /\ Delivered(Closed(i, active[i]))
  /\ IF Accepts(Closed(i, active[i]))
     THEN active' = [active EXCEPT ![i] = 0] /\ Signal({i})
     ELSE UNCHANGED <<active, signals>>
  /\ UNCHANGED <<next, cur, out, wire, inbox, batch, presenter, user>>

\* Mutant of IsCurrent: a close or an action of any revision counts.
IsCurrentId(i, r) == active[i] # 0

\* np_notify_service_is_current, and the test of the other two calls.
IsCurrent(i, r) == active[i] = r

\* Mutant of EmitClosed: the signal is sent whether or not the id was removed.
EmitClosedAlways(i, r) == active' = [active EXCEPT ![i] = IF @ = r THEN 0 ELSE @] /\ Signal({i})

\* np_notify_service_emit_closed
EmitClosed(i, r) ==
  IF IsCurrent(i, r) THEN active' = [active EXCEPT ![i] = 0] /\ Signal({i}) ELSE UNCHANGED <<active, signals>>

\* np_notify_service_reset, with the RESET it delivers.
ServiceReset ==
  /\ active' = NoRevs /\ Signal({i \in Ids : active[i] # 0}) /\ queue' = <<>>

---------------------------------------------------------------------------
\* The compositor.

At(p) == cur.at = p
To(e, p) == cur' = [ev |-> e, at |-> p]
Idle == To(Nothing, "idle")

\* wake_ready takes an event from the queue.
Pop ==
  /\ At("idle") /\ queue # <<>>
  /\ queue' = Tail(queue) /\ To(Head(queue), IF Head(queue).type = "posted" THEN "check" ELSE "send")
  /\ UNCHANGED <<service, out, wire, inbox, batch, presenter, user>>

\* wake_ready drops a post that is no longer current.
Check ==
  /\ At("check")
  /\ IF IsCurrent(cur.ev.id, cur.ev.rev) THEN To(cur.ev, "send") ELSE Idle
  /\ UNCHANGED <<service, queue, out, wire, inbox, batch, presenter, user>>

Older(q, e) == \E k \in DOMAIN q : q[k].id = e.id /\ q[k].rev > e.rev

\* The frame appended, or the reset that stands for it; short: bytes or memory ran out.
Fitted(o, e, short) ==
  LET c == IF e.type = "closed" /\ Len(o.closed) = CloseIds
           THEN [o EXCEPT !.closed = <<>>, !.reset = TRUE] ELSE o
  IN  IF short \/ (e.type = "posted" /\ Len(c.posted) = PostIds) THEN [c EXCEPT !.reset = TRUE]
      ELSE IF e.type = "closed" THEN [c EXCEPT !.closed = Append(@, e)]
      ELSE [c EXCEPT !.posted = Append(@, e)]

\* np_notification_outbox_send
Sent(o, e, short) ==
  IF (o.active.id = e.id /\ o.active.rev > e.rev) \/ Older(o.posted, e) \/ Older(o.closed, e) THEN o
  ELSE Fitted([o EXCEPT !.posted = Without(@, e.id), !.closed = Without(@, e.id)], e, short)

\* A post that was not queued is refused.
Refused(o, e, short) == e.type = "posted" /\ (short \/ Len(Without(o.posted, e.id)) = PostIds)
                        /\ ~(o.active.id = e.id /\ o.active.rev > e.rev)

\* send_event with the answers wake_ready gives to a refusal.
Send(short) ==
  /\ At("send") /\ (short => Tight)
  /\ IF up.linked
     THEN /\ out' = Sent(out, cur.ev, short)
          /\ IF Refused(out, cur.ev, short) THEN To(cur.ev, "refused") ELSE Idle
     ELSE UNCHANGED out /\ IF cur.ev.type = "posted" THEN To(cur.ev, "refused") ELSE Idle
  /\ UNCHANGED <<service, queue, wire, inbox, batch, presenter, user>>

\* A refused post is closed, and so is the older banner of its id.
Withdraw ==
  /\ At("refused") /\ EmitClosed(cur.ev.id, cur.ev.rev)
  /\ To(Closed(cur.ev.id, cur.ev.rev), "send")
  /\ UNCHANGED <<next, queue, out, wire, inbox, batch, presenter, user>>

\* np_notifications_handle_command
HandleCommand ==
  /\ At("idle") /\ feedback # <<>> /\ feedback' = Tail(feedback)
  /\ LET f == Head(feedback)
     IN  IF f.type = "closed" THEN EmitClosed(f.id, f.rev) /\ UNCHANGED invoked
         ELSE /\ invoked' = IF IsCurrent(f.id, f.rev) THEN invoked \cup {<<f.rev, active[f.id]>>} ELSE invoked
              /\ UNCHANGED <<active, signals>>
  /\ UNCHANGED <<next, guest, up, sessions, known, inbox, batch, presenter, enabled, clicks, spent>>

---------------------------------------------------------------------------
\* The wire and the reader of the host.

\* np_notification_outbox_next pins a frame.
Select ==
  /\ out.active = Nothing /\ up.linked /\ (out.reset \/ out.closed # <<>> \/ out.posted # <<>>)
  /\ out' = IF out.reset THEN [out EXCEPT !.active = ResetFrame, !.reset = FALSE]
            ELSE IF out.closed # <<>> THEN [out EXCEPT !.active = Head(out.closed), !.closed = Tail(@)]
            ELSE [out EXCEPT !.active = Head(out.posted), !.posted = Tail(@)]
  /\ UNCHANGED <<service, queue, cur, wire, inbox, batch, presenter, user>>

\* observeGuestNotification: a newer revision or a withdrawal retires the feedback.
Observed(e) ==
  IF \/ e.type \in {"posted", "rejected"} /\ e.rev > known[e.id]
     \/ e.type = "closed" /\ known[e.id] \in 1..e.rev
  THEN /\ known' = [known EXCEPT ![e.id] = IF e.type = "closed" THEN 0 ELSE e.rev]
       /\ feedback' = Without(feedback, e.id)
  ELSE UNCHANGED <<known, feedback>>

\* GuestNotificationInbox.offer
Offered(b, e) ==
  CASE e.type = "posted" /\ e.rev > b.closed[e.id] /\ e.rev > b.rejected[e.id] /\ e.rev >= b.posted[e.id] ->
         [b EXCEPT !.closed[e.id] = 0, !.rejected[e.id] = 0, !.posted[e.id] = e.rev]
    [] e.type = "closed" /\ e.rev >= b.posted[e.id] /\ e.rev >= b.rejected[e.id] ->
         [b EXCEPT !.posted[e.id] = 0, !.rejected[e.id] = 0,
                   !.closed[e.id] = IF b.closed[e.id] > e.rev THEN @ ELSE e.rev]
    [] e.type = "rejected" /\ e.rev >= b.posted[e.id] /\ e.rev > b.closed[e.id] ->
         [b EXCEPT !.posted[e.id] = 0, !.closed[e.id] = 0,
                   !.rejected[e.id] = IF b.rejected[e.id] > e.rev THEN @ ELSE e.rev]
    [] e.type = "reset" -> [b EXCEPT !.reset = TRUE]
    [] OTHER -> b

\* The last byte of the frame arrives; a post may not decode.
Arrive(valid) ==
  /\ out.active # Nothing /\ up.linked /\ (valid \/ out.active.type = "posted")
  /\ out' = [out EXCEPT !.active = Nothing]
  /\ LET e == IF valid THEN out.active ELSE [out.active EXCEPT !.type = "rejected"]
     IN  /\ inbox' = Offered(inbox, e)
         /\ IF e.type = "reset" THEN UNCHANGED <<known, feedback>> ELSE Observed(e)
  /\ UNCHANGED <<service, queue, cur, up, sessions, batch, presenter, user>>

---------------------------------------------------------------------------
\* The main run loop of the host: the presenter.

Sorted(b, t, f) == [k \in 1..Cardinality({i \in Ids : f[i] # 0}) |->
  LET i == CHOOSE j \in Ids : f[j] # 0 /\ Cardinality({m \in 1..j : f[m] # 0}) = k IN Event(t, i, f[i])]

\* RemoteInbound.drain and GuestNotificationInbox.drain
Drain ==
  /\ batch = <<>> /\ up.greeted /\ inbox # EmptyInbox
  /\ batch' = (IF inbox.reset THEN <<ResetFrame>> ELSE <<>>) \o Sorted(inbox, "closed", inbox.closed)
              \o Sorted(inbox, "rejected", inbox.rejected) \o Sorted(inbox, "posted", inbox.posted)
  /\ inbox' = EmptyInbox
  /\ UNCHANGED <<service, guest, wire, presenter, user>>

\* enqueueNotification: only the revision the guest last sent can be answered.
Answers(s) == SelectSeq(s, LAMBDA f : up.linked /\ known[f.id] = f.rev)
Reply(s) == feedback' = feedback \o Answers(s)
NoReply == UNCHANGED feedback

\* Mutant of Removed: the history keeps a removed notification pending.
RemovedRecord(rec, S) == rec

\* remove, for the record of the notification.
Removed(rec, S) == [r \in Revs |-> IF r \in S /\ rec[r] = "pending" THEN "cancelled" ELSE rec[r]]

Owned(S) == {entry[i] : i \in S} \ {0}

\* remove for the ids S; a task in its expiry ends at once.
Removes(S, rec) ==
  /\ entry' = [i \in Ids |-> IF i \in S THEN 0 ELSE entry[i]]
  /\ center' = center \ Owned(S) /\ record' = Removed(rec, Owned(S))

\* clear(notifyGuest: true)
Clear(S) ==
  Removes(S, record) /\ Reply(SetToSeq({Closed(i, entry[i]) : i \in {j \in S : entry[j] # 0}}))

\* post, when the presenter takes the notification.
Post(e) ==
  /\ entry' = [entry EXCEPT ![e.id] = e.rev] /\ center' = center \ Owned({e.id})
  /\ record' = [Removed(record, Owned({e.id})) EXCEPT ![e.rev] = "pending"]
  /\ tasks' = tasks \cup {[id |-> e.id, rev |-> e.rev, at |-> "authorize"]}

\* One drained event, as WindowBridge hands it on; fit: the limiter and the content allow it.
Deliver(fit) ==
  /\ batch # <<>> /\ batch' = Tail(batch)
  /\ LET e == Head(batch)
     IN  \/ /\ e.type = "reset" /\ fit /\ Clear(Ids) /\ UNCHANGED tasks
         \/ /\ e.type = "closed" /\ fit /\ NoReply /\ UNCHANGED tasks
            /\ IF entry[e.id] <= e.rev THEN Removes({e.id}, record) ELSE UNCHANGED <<entry, center, record>>
         \/ /\ e.type = "rejected" /\ fit /\ Reply(<<Closed(e.id, e.rev)>>) /\ UNCHANGED tasks
            /\ IF entry[e.id] <= e.rev THEN Removes({e.id}, record) ELSE UNCHANGED <<entry, center, record>>
         \/ /\ e.type = "posted" /\ entry[e.id] >= e.rev /\ fit /\ NoReply /\ UNCHANGED presenter
         \/ /\ e.type = "posted" /\ entry[e.id] < e.rev
            /\ IF fit /\ enabled THEN Post(e) /\ NoReply
               ELSE Removes({e.id}, record) /\ Reply(<<Closed(e.id, e.rev)>>) /\ UNCHANGED tasks
  /\ UNCHANGED <<service, guest, up, sessions, known, inbox, user>>

Owns(t) == entry[t.id] = t.rev
Ends(t) == tasks' = tasks \ {t}
Becomes(t, p) == tasks' = (tasks \ {t}) \cup {[t EXCEPT !.at = p]}
\* reject: the owner removes its entry and tells the guest.
Reject(t, why) == Removes({t.id}, [record EXCEPT ![t.rev] = why]) /\ Reply(<<Closed(t.id, t.rev)>>)

\* authorize returned.
Authorized(t, allowed) ==
  /\ batch = <<>> /\ t.at = "authorize"
  /\ IF ~Owns(t) THEN Ends(t) /\ NoReply /\ UNCHANGED <<entry, center, record>>
     ELSE IF enabled /\ allowed THEN Becomes(t, "present") /\ NoReply /\ UNCHANGED <<entry, center, record>>
     ELSE Ends(t) /\ Reject(t, IF enabled THEN "notAuthorized" ELSE record[t.rev])
  /\ UNCHANGED <<service, guest, up, sessions, known, inbox, batch, user>>

\* Notification Center adds the banner, or cannot.
Added(t, ok) ==
  /\ t.at = "present" /\ Becomes(t, IF ok THEN "added" ELSE "failed")
  /\ center' = IF ok THEN center \cup {t.rev} ELSE center
  /\ UNCHANGED <<service, guest, wire, inbox, batch, entry, record, user>>

\* Mutant of Late: the banner of a notification that was withdrawn meanwhile stays.
LateStays(t) == center

\* The banner of a notification that is not the task's any more is withdrawn.
Late(t) == center \ {t.rev}

\* present returned.
Presented(t) ==
  /\ batch = <<>> /\ t.at \in {"added", "failed"} /\ Ends(t)
  /\ IF ~Owns(t) THEN center' = Late(t) /\ NoReply /\ UNCHANGED <<entry, record>>
     ELSE IF t.at = "failed" THEN Reject(t, "failed")
     ELSE IF ~enabled THEN Reject(t, record[t.rev])
     ELSE record' = [record EXCEPT ![t.rev] = "delivered"] /\ NoReply /\ UNCHANGED <<entry, center>>
  /\ UNCHANGED <<service, guest, up, sessions, known, inbox, batch, user>>

\* The expiry of a delivered notification.
Expire(i) ==
  /\ batch = <<>> /\ entry[i] # 0 /\ record[entry[i]] = "delivered"
  /\ Clear({i})
  /\ UNCHANGED <<service, guest, up, sessions, known, inbox, batch, tasks, user>>

\* The user clicks a banner or dismisses it; macOS takes it away.
Click(r, what) ==
  /\ r \in center /\ spent < MaxClicks /\ spent' = spent + 1
  /\ clicks' = clicks \cup {[rev |-> r, type |-> what]} /\ center' = center \ {r}
  /\ UNCHANGED <<service, guest, wire, inbox, batch, entry, tasks, record, enabled, invoked>>

\* handleResponse
Respond(c) ==
  /\ batch = <<>> /\ clicks' = clicks \ {c}
  /\ LET S == {i \in Ids : entry[i] = c.rev}
     IN  /\ Removes(S, record)
         /\ Reply(SetToSeq({Event("action", i, c.rev) : i \in {j \in S : c.type = "action" /\ enabled}})
                  \o SetToSeq({Closed(i, c.rev) : i \in S}))
  /\ UNCHANGED <<service, guest, up, sessions, known, inbox, batch, tasks, enabled, spent, invoked>>

\* The user's preference, and refreshPreferences when it is switched off.
Switch ==
  /\ batch = <<>> /\ spent < MaxClicks /\ spent' = spent + 1 /\ enabled' = ~enabled
  /\ IF enabled THEN Clear(Ids) ELSE NoReply /\ UNCHANGED <<entry, center, record>>
  /\ UNCHANGED <<service, guest, up, sessions, known, inbox, batch, tasks, clicks, invoked>>

---------------------------------------------------------------------------
\* Sessions.

\* The connection ends: np_notifications_reset, np_media_finish, RemoteInbound.stop, disconnect.
Disconnect ==
  /\ up.linked /\ At("idle") /\ sessions < MaxSessions
  /\ ServiceReset /\ out' = EmptyOut /\ up' = [linked |-> FALSE, greeted |-> FALSE]
  /\ known' = NoRevs /\ feedback' = <<>> /\ inbox' = EmptyInbox /\ batch' = <<>>
  /\ UNCHANGED <<next, cur, sessions, presenter, user>>

\* The handshake of the next one: np_host_session_replay_metadata resets again.
Connect ==
  /\ ~up.linked /\ At("idle") /\ sessions < MaxSessions /\ sessions' = sessions + 1
  /\ ServiceReset /\ up' = [up EXCEPT !.linked = TRUE]
  /\ UNCHANGED <<next, cur, out, known, feedback, inbox, batch, presenter, user>>

\* Banners that survive resetSession: none of those the presenter has.
Kept(c) == c \ Owned(Ids)

\* channelReady reaches the main run loop: resetSession, which does not notify the guest.
Greet ==
  /\ up.linked /\ ~up.greeted /\ up' = [up EXCEPT !.greeted = TRUE]
  /\ entry' = NoRevs /\ center' = Kept(center) /\ record' = Removed(record, Owned(Ids))
  /\ UNCHANGED <<service, guest, sessions, known, feedback, inbox, batch, tasks, user>>

Application == \E i \in Ids : Notify(i) \/ CloseNotification(i)
Compositor == Pop \/ Check \/ (\E s \in BOOLEAN : Send(s)) \/ Withdraw \/ HandleCommand
Reading == Select \/ \E v \in BOOLEAN : Arrive(v)
MainLoop == Drain \/ \E fit \in BOOLEAN : Deliver(fit)
Tasks == \E t \in tasks, b \in BOOLEAN : Authorized(t, b) \/ Added(t, b) \/ Presented(t)
Clicks == \E c \in clicks : Respond(c)

Next ==
  \/ Application \/ Compositor \/ Reading \/ MainLoop \/ Tasks \/ Clicks
  \/ \E i \in Ids : Expire(i)
  \/ \E r \in center, w \in {"action", "closed"} : Click(r, w)
  \/ Switch \/ Disconnect \/ Connect \/ Greet

Spec == Init /\ [][Next]_vars

\* Threads that have work go on; the application, the user and the connection need not.
Steps == Compositor \/ Reading \/ MainLoop \/ Tasks \/ Clicks \/ Connect \/ Greet

---------------------------------------------------------------------------
\* Every variable stays in its type and every list within its bound.
TypeOK ==
  /\ active \in [Ids -> 0..MaxRev] /\ entry \in [Ids -> 0..MaxRev] /\ known \in [Ids -> 0..MaxRev]
  /\ Len(queue) <= MaxPending /\ Len(out.posted) <= PostIds /\ Len(out.closed) <= CloseIds
  /\ center \subseteq Revs /\ sessions \in 0..MaxSessions
  /\ record \in [Revs -> {"none", "pending", "delivered", "notAuthorized", "failed", "cancelled"}]

\* Nothing is on its way between the applications and Notification Center.
Quiet ==
  /\ up.linked /\ up.greeted /\ queue = <<>> /\ At("idle") /\ out = EmptyOut /\ feedback = <<>>
  /\ inbox = EmptyInbox /\ batch = <<>> /\ tasks = {} /\ clicks = {}

\* Once everything has arrived, Notification Center shows exactly the notifications that the
\* guest's service considers active, each in its latest revision, whatever was refused,
\* replaced, rejected, clicked or lost with a connection (notifications.c, GuestNotificationPresenter).
Agreement == Quiet => center = {active[i] : i \in Ids} \ {0}

\* An application hears NotificationClosed at most once for an id, although its own call, the
\* host, a refusal and the end of a session may all close it (np_notify_service_emit_closed).
SignalledOnce == \A i \in Ids : signals[i] <= 1

\* An action reaches an application only while the revision that was clicked is the one it
\* posted last, so a button is never taken for the button of a replacement
\* (np_notify_service_emit_action).
ActionOfItsRevision == \A a \in invoked : a[1] = a[2]

\* No notification stays pending in the history after the presenter has given it up
\* (GuestNotificationPresenter.remove).
HistorySettled == \A r \in Revs : record[r] = "pending" => \E i \in Ids : entry[i] = r

\* Applications, guest, Mac and history agree on the notifications.
NoticesAgree == Agreement /\ SignalledOnce /\ ActionOfItsRevision /\ HistorySettled

\* Who waits: an active notification to be shown (or its application to hear that
\* it is closed), and a stale banner to be withdrawn.
Waits(k) ==
  \/ k = 1 /\ \E i \in Ids : active[i] # 0 /\ active[i] \notin center
  \/ k = 2 /\ up.linked /\ \E r \in center : \A i \in Ids : active[i] # r
===============================================================================
