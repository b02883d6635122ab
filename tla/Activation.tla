------------------------------ MODULE Activation -------------------------------
(***************************************************************************)
(* Who may bring a window to the front: the compositor's activation tokens   *)
(* (activation.c) and the Mac's own authority (WindowActivationAuthority),   *)
(* with presses on their way to Linux and requests on their way back.        *)
(*                                                                         *)
(* A surface is a toplevel or a popup that inherits its toplevel's origin.   *)
(* Time passes in units; a press is identified by its number.                *)
(***************************************************************************)
EXTENDS Integers, Sequences, FiniteSets

CONSTANTS
  Surfaces,     \* wl_surfaces
  Top,          \* per surface its toplevel; a toplevel's is itself
  Client,       \* per surface its client
  Ring,         \* presses the compositor remembers (32)
  MaxGrants,    \* tokens that are valid at once (64)
  Timeout,      \* age at which a press no longer authorises (5 s)
  MaxTime, MaxPresses, MaxTokens, Channel,  \* bounds
  MaxGone       \* surfaces that are destroyed; with 0 none is unmapped either

Toplevels == {s \in Surfaces : Top[s] = s}
Clients == {Client[s] : s \in Surfaces}

VARIABLES
  now,       \* the clock both sides read
  alive,     \* surfaces that have their role object
  mapped,    \* toplevels that are mapped
  focus,     \* focused_window of the compositor, or 0
  back,      \* focus_restore_window of a popup that took the focus with a grab, or 0
  inputs,    \* the ring of remembered presses
  serial,    \* presses delivered so far; a press's serial is its number
  grants,    \* valid tokens
  minted,    \* tokens made so far, with what they were made from
  out, in,   \* messages to the Mac and to the guest
  shown,     \* toplevels the Mac has a window for
  key,       \* the Mac's key window, or 0, and whether the app is active
  auth,      \* WindowActivationAuthority
  presses,   \* presses the user made: where and when
  sent,      \* per press: requests the compositor sent for it
  raised     \* windows the Mac activated, each with the press that allowed it

vars == <<now, alive, mapped, focus, back, inputs, serial, grants, minted, out, in, shown, key, auth, presses, sent, raised>>

None == [w |-> 0, time |-> 0, press |-> 0]
Init ==
  /\ now = 0 /\ alive = Surfaces /\ mapped = Toplevels /\ focus = 0 /\ inputs = <<>> /\ serial = 0
  /\ back = [s \in Surfaces |-> 0] /\ shown = Toplevels
  /\ grants = {} /\ minted = 0 /\ out = <<>> /\ in = <<>> /\ key = [w |-> 0, active |-> TRUE]
  /\ auth = None /\ presses = <<>> /\ sent = [p \in 1 .. MaxPresses |-> 0] /\ raised = {}

\* recent
Recent(t) == now - t <= Timeout
\* activation_origin
Origin(s) == IF s \in alive /\ Top[s] \in alive \cap mapped THEN Top[s] ELSE 0
Focused == IF focus = 0 THEN 0 ELSE Origin(focus)
Pruned == {t \in grants : Recent(t.time)}

---------------------------------------------------------------------------
\* The Mac's user.
Tick == now < MaxTime /\ now' = now + 1
  /\ UNCHANGED <<alive, mapped, focus, back, inputs, serial, grants, minted, out, in, shown, key, auth, presses, sent, raised>>

\* Another key window, or none; the compositor is told.
KeyWindow(w) ==
  /\ w # key.w /\ w \in shown \cup {0} /\ Len(in) < Channel /\ key' = [key EXCEPT !.w = w]
  /\ in' = Append(in, [t |-> "focus", s |-> w, p |-> 0])
  /\ auth' = IF w = 0 THEN None ELSE auth
  /\ UNCHANGED <<now, alive, mapped, focus, back, inputs, serial, grants, minted, out, shown, presses, sent, raised>>
AppActive ==
  /\ key' = [key EXCEPT !.active = ~@]
  /\ UNCHANGED <<now, alive, mapped, focus, back, inputs, serial, grants, minted, out, in, shown, auth, presses, sent, raised>>

\* The Mac opens and closes windows some time after the compositor maps and
\* unmaps them; a window is not key when it is closed.
Follow(w) ==
  /\ shown' = IF w \in mapped THEN shown \cup {w} ELSE shown \ {w}
  /\ shown' # shown /\ w # key.w
  /\ UNCHANGED <<now, alive, mapped, focus, back, inputs, serial, grants, minted, out, in, key, auth, presses, sent, raised>>

\* recordActivationInput: a press the Mac sends to a surface.
Press(s) ==
  LET p == Len(presses) + 1 IN
  /\ p <= MaxPresses /\ Top[s] \in shown /\ Len(in) < Channel /\ presses' = Append(presses, [s |-> s, time |-> now, key |-> key.w])
  /\ in' = Append(in, [t |-> "press", s |-> s, p |-> p])
  /\ auth' = IF key.active /\ key.w = Top[s] THEN [w |-> Top[s], time |-> now, press |-> p] ELSE auth
  /\ UNCHANGED <<now, alive, mapped, focus, back, inputs, serial, grants, minted, out, shown, key, sent, raised>>

---------------------------------------------------------------------------
\* The compositor.
M == Head(in)

\* np_activation_record_input, in a ring of the latest presses.
Recorded(s, p) ==
  LET r == IF Len(inputs) < Ring THEN inputs ELSE Tail(inputs) IN
  Append(r, [s |-> s, origin |-> Origin(s), press |-> p, time |-> now, claimed |-> FALSE])
Input ==
  /\ in # <<>> /\ in' = Tail(in)
  /\ IF M.t = "focus" THEN focus' = M.s /\ UNCHANGED <<inputs, serial, grants>>
     ELSE /\ serial' = M.p /\ UNCHANGED focus
          /\ IF Origin(M.s) = 0 THEN UNCHANGED <<inputs, grants>>
             ELSE inputs' = Recorded(M.s, M.p) /\ grants' = Pruned
  /\ UNCHANGED <<now, alive, mapped, back, minted, out, shown, key, auth, presses, sent, raised>>

\* np_keyboard_focus_grab: a popup takes the focus from a window of its client,
\* once.  Grabs that move only the agent's focus are those of KeyboardFocus.
Grab(s) ==
  /\ s \in alive \ Toplevels /\ back[s] = 0 /\ Top[s] \in alive
  /\ focus \in alive /\ Client[focus] = Client[s]
  /\ focus' = s /\ back' = [back EXCEPT ![s] = focus]
  /\ UNCHANGED <<now, alive, mapped, inputs, serial, grants, minted, out, in, shown, key, auth, presses, sent, raised>>

\* Mutant of Allows: the client of the token is not compared with the press's.
AllowsAnyClient(i, c, p, s) ==
  /\ i.s # 0 /\ ~i.claimed /\ i.press = p /\ Recent(i.time) /\ i.origin = Focused

\* token_input: the press of the token, in the window that has focus.
Allows(i, c, p, s) ==
  /\ i.s # 0 /\ ~i.claimed /\ i.press = p /\ Recent(i.time) /\ i.origin = Focused
  /\ Client[i.s] = c /\ (s # 0 => Client[s] = c /\ Origin(s) = Focused)

\* Mutant of Claim: a press makes any number of tokens, one after the other.
ClaimNever(k) == inputs' = inputs

Claim(k) == inputs' = [inputs EXCEPT ![k].claimed = TRUE]
\* token_commit: a token without authority is the empty string.
Commit(c, p, s) ==
  /\ minted < MaxTokens /\ p \in 1 .. serial /\ Focused # 0
  /\ Cardinality(Pruned) < MaxGrants
  /\ \E k \in DOMAIN inputs :
       /\ Allows(inputs[k], c, p, s) /\ \A j \in DOMAIN inputs : Allows(inputs[j], c, p, s) => k <= j
       /\ Claim(k) /\ minted' = minted + 1
       /\ grants' = Pruned \cup {[id |-> minted + 1, s |-> IF s = 0 THEN inputs[k].s ELSE s, origin |-> inputs[k].origin,
                                   time |-> inputs[k].time, press |-> p, by |-> c]}
  /\ UNCHANGED <<now, alive, mapped, focus, back, serial, out, in, shown, key, auth, presses, sent, raised>>

\* Mutant of Valid: focus may have gone elsewhere.
ValidAnywhere(t, w) == Origin(t.origin) = t.origin /\ w \in mapped \cap alive /\ Origin(t.s) = t.origin

Valid(t, w) == Focused = t.origin /\ Origin(t.origin) = t.origin /\ w \in mapped \cap alive /\ Origin(t.s) = t.origin
\* activate_request: any use consumes the token.
Activate(t, w) ==
  /\ t \in Pruned /\ grants' = Pruned \ {t}
  /\ IF Valid(t, w)
     THEN /\ Len(out) < Channel /\ out' = Append(out, [w |-> w, origin |-> t.origin, age |-> now - t.time])
          /\ sent' = [sent EXCEPT ![t.press] = @ + 1]
     ELSE UNCHANGED <<out, sent>>
  /\ UNCHANGED <<now, alive, mapped, focus, back, inputs, serial, minted, in, shown, key, auth, presses, raised>>

\* np_activation_revoke_surface and the destroy listeners; a popup that has the
\* focus gives it back.
Revoked(s) ==
  /\ inputs' = [k \in DOMAIN inputs |-> IF s \in {inputs[k].s, inputs[k].origin} THEN [inputs[k] EXCEPT !.s = 0, !.origin = 0] ELSE inputs[k]]
  /\ grants' = {t \in grants : s \notin {t.s, t.origin}}
Destroy(s) ==
  /\ s \in alive /\ Cardinality(Surfaces \ alive) < MaxGone /\ alive' = alive \ {s} /\ Revoked(s) /\ mapped' = mapped \ {s}
  /\ focus' = IF focus # s THEN focus ELSE IF back[s] \in alive \ {s} THEN back[s] ELSE 0
  /\ UNCHANGED <<now, back, serial, minted, out, in, shown, key, auth, presses, sent, raised>>
\* np_backend_publish_buffer: a toplevel commits a null buffer, which revokes, or one again.
Unmap(w) ==
  /\ MaxGone > 0 /\ w \in mapped /\ Revoked(w) /\ mapped' = mapped \ {w}
  /\ UNCHANGED <<now, alive, focus, back, serial, minted, out, in, shown, key, auth, presses, sent, raised>>
Remap(w) ==
  /\ w \in (alive \cap Toplevels) \ mapped /\ mapped' = mapped \cup {w}
  /\ UNCHANGED <<now, alive, focus, back, inputs, serial, grants, minted, out, in, shown, key, auth, presses, sent, raised>>

---------------------------------------------------------------------------
\* Mutant of Consumes: only the guest's word on the age counts.
ConsumesGuestAge(m) == key.active /\ key.w = m.origin /\ auth.w = m.origin /\ m.age <= Timeout

\* Mutant of Consumes: the key window is not asked for.
ConsumesAnyOrigin(m) == key.active /\ auth.w = m.origin /\ m.age <= Timeout /\ now - auth.time <= Timeout

\* consume
Consumes(m) == key.active /\ key.w = m.origin /\ auth.w = m.origin /\ m.age <= Timeout /\ now - auth.time <= Timeout
\* Mutant of Spent: the authority stays for the next request.
SpentNever == UNCHANGED auth

Spent == auth' = None
\* activateGuestWindow.  With a window missing the press is not spent.
Raise ==
  LET m == Head(out) IN
  /\ out # <<>> /\ out' = Tail(out)
  /\ IF {m.w, m.origin} \subseteq shown
     THEN /\ Spent
          /\ raised' = IF Consumes(m) THEN raised \cup {[w |-> m.w, origin |-> m.origin, press |-> auth.press, time |-> now, n |-> Cardinality(raised)]} ELSE raised
     ELSE UNCHANGED <<auth, raised>>
  /\ UNCHANGED <<now, alive, mapped, focus, back, inputs, serial, grants, minted, in, shown, key, presses, sent>>

Next ==
  \/ Tick \/ AppActive \/ (\E w \in Toplevels \cup {0} : KeyWindow(w)) \/ (\E s \in Surfaces : Press(s))
  \/ Input \/ (\E c \in Clients, p \in 1 .. MaxPresses, s \in Surfaces \cup {0} : Commit(c, p, s))
  \/ (\E t \in grants, w \in Toplevels : Activate(t, w)) \/ (\E s \in Surfaces : Destroy(s))
  \/ (\E w \in Toplevels : Unmap(w) \/ Remap(w) \/ Follow(w)) \/ (\E s \in Surfaces : Grab(s)) \/ Raise
Spec == Init /\ [][Next]_vars

---------------------------------------------------------------------------
\* Types; and no remembered press and no token names a surface that is gone.
TypeOK ==
  /\ focus \in alive \cup {0} \cup Toplevels /\ shown \subseteq Toplevels /\ mapped \subseteq Toplevels /\ Cardinality(grants) <= MaxGrants
  /\ \A k \in DOMAIN inputs : inputs[k].s # 0 => {inputs[k].s, inputs[k].origin} \subseteq alive
  /\ \A t \in grants : {t.s, t.origin} \subseteq alive

\* One press asks for at most one activation and raises at most one window.
OncePerPress ==
  /\ \A p \in DOMAIN sent : sent[p] <= 1
  /\ \A a, b \in raised : a.press = b.press => a = b

\* A window is raised only for a press of the user that is recent, went to the
\* window the request names, and while that window is still the key window.
UserActs == \A a \in raised' \ raised :
  /\ a.press # 0 /\ Top[presses[a.press].s] = a.origin /\ presses[a.press].key = a.origin
  /\ now - presses[a.press].time <= Timeout /\ key.w = a.origin /\ key.active
UserActed == [][UserActs]_vars

\* A token belongs to the client that got its press, made while its window was
\* focused; the request it makes is sent only while that window is focused.
TokenOwner ==
  /\ \A t \in grants : t.by = Client[presses[t.press].s] /\ t.origin = Top[presses[t.press].s]
FocusAsks == Len(out') > Len(out) => out'[Len(out')].origin = Focused
OnlyFocused == [][FocusAsks]_vars

\* A press is worth one activation, of the client it was made in.
TokensOnce == OncePerPress /\ TokenOwner
=============================================================================
