----------------------------- MODULE KeyboardFocus ----------------------------
(***************************************************************************)
(* Who has the keyboard.  Each client sees one focus, but there are two     *)
(* owners: the user's focus follows the macOS key window, the agent's       *)
(* follows agent input, and a grabbing popup takes whichever of the two is  *)
(* in its client and gives it back when it goes.                           *)
(* (guest/compositor/input.c, xdg_shell.c, NativeWindow.swift)              *)
(*                                                                         *)
(* Surfaces are numbered in the order they were created.  A window id is    *)
(* fresh for every role object: popups come and go on the same surfaces.    *)
(***************************************************************************)
EXTENDS Integers, Sequences, SequencesExt

CONSTANTS
  Tops,      \* surfaces with a toplevel; their window ids are the same numbers
  Pops,      \* surfaces for popups, numbered after Tops
  ClientOf,  \* the client of each surface
  MaxIds,    \* window ids in all
  MaxHost,   \* changes of the key window
  MaxInput   \* presses and keys of the user, and requests of the agent

WlSurfaces == Tops \cup Pops
Clients == {ClientOf[s] : s \in WlSurfaces}

VARIABLES
  id,        \* window_id of a surface with a role object, else 0
  popup,     \* popup_parent_window, has_grab, grab_agent and focus_restore_window
  nextId,    \* next_id
  user,      \* focused_window
  agent,     \* agent_window
  reported,  \* agent_reported_window
  entered,   \* the surface a client's keyboards entered last, else 0
  input,     \* last_input_client, else 0
  told,      \* popups that were sent popup_done
  key,       \* the macOS key window, else 0
  known,     \* popups the host knows
  down,      \* commands on their way to the compositor
  typed,     \* where the agent's last event went: its window and the surface
  missed,    \* history: a menu took the focus from, or kept it from, a window it is not on
  used       \* budget spent

vars == <<id, popup, nextId, user, agent, reported, entered, input, told, key, known, down, typed, missed, used>>
roles == <<id, popup, nextId>>
host == <<key, known>>

NoPopup == [parent |-> 0, grab |-> FALSE, agent |-> FALSE, restore |-> 0]

Init ==
  /\ id = [s \in WlSurfaces |-> IF s \in Tops THEN s ELSE 0] /\ popup = [s \in WlSurfaces |-> NoPopup]
  /\ nextId = Max(Tops) + 1 /\ user = 0 /\ agent = 0 /\ reported = 0
  /\ entered = [c \in Clients |-> 0] /\ input = 0 /\ told = {} /\ key = 0 /\ known = {}
  /\ down = <<>> /\ typed = [window |-> 0, surface |-> 0] /\ missed = FALSE
  /\ used = [host |-> 0, input |-> 0]

Spend(k, max) == used[k] < max /\ used' = [used EXCEPT ![k] = @ + 1]

\* np_surface_by_window: the surface whose role object has this id, else 0.
SurfaceOf(w) == IF w # 0 /\ \E s \in WlSurfaces : id[s] = w THEN CHOOSE s \in WlSurfaces : id[s] = w ELSE 0
ClientOfS(s) == IF s = 0 THEN 0 ELSE ClientOf[s]

\* Mutant of Grabbing: a popup that never asked for a grab counts too.
GrabbingAny(a) == LET g == {s \in Pops : id[s] # 0 /\ popup[s].agent = a} IN IF g = {} THEN 0 ELSE Max(g)

\* grabbing_popup: surfaces are head-inserted, the newest one wins.
Grabbing(a) ==
  LET g == {s \in Pops : popup[s].grab /\ popup[s].agent = a} IN IF g = {} THEN 0 ELSE Max(g)

\* focus_among
FocusAmong(u, a, c) ==
  IF ClientOfS(u) = c THEN u ELSE IF ClientOfS(a) = c THEN a ELSE 0

\* The popups above a surface s that hold a grab, and the window they stand on.
RECURSIVE Chain(_, _)
Chain(s, n) ==
  IF s = 0 \/ n = 0 \/ ~popup[s].grab THEN {}
  ELSE LET p == SurfaceOf(popup[s].parent)
       IN  IF p = 0 \/ ClientOf[p] # ClientOf[s] THEN {} ELSE {id[p]} \cup Chain(p, n - 1)

\* Whether a menu stands on the window w, directly or on menus in between.
Below(s, w) == popup[s].parent = w \/ w \in Chain(SurfaceOf(popup[s].parent), Cardinality(Pops))

\* keyboard_source_matches_focus
Matches(s, w) ==
  /\ s # 0 /\ w # 0
  /\ id[s] = w \/ (popup[s].grab /\ Grabbing(popup[s].agent) = s /\ w \in Chain(s, Cardinality(Pops)))

\* report_agent_focus: the toplevel under the agent's focus.
RECURSIVE RootOf(_, _)
RootOf(s, n) == IF s = 0 \/ n = 0 \/ popup[s].parent = 0 THEN s ELSE RootOf(SurfaceOf(popup[s].parent), n - 1)
Root(s) == RootOf(s, Cardinality(Pops))

\* Mutant of AgentAllowed: the agent keeps a focus of its own in the user's client.
AgentAllowedAlways(u, a) == a
\* The agent's surface beside the user's: the user wins in its own client.
AgentAllowed(u, a) == IF u # 0 /\ a # u /\ ClientOfS(a) = ClientOfS(u) THEN 0 ELSE a

\* Mutant of RootReported: the popup itself.
RootSelf(s) == s
RootReported(s) == Root(s)

\* change_keyboard_focus, when the popups are as in the primed roles or before.
Change(u, w) ==
  LET s == SurfaceOf(u)  a == AgentAllowed(s, SurfaceOf(w))
  IN  /\ user' = u /\ agent' = (IF a # 0 THEN w ELSE 0)
      /\ entered' = [c \in Clients |->
           LET before == FocusAmong(SurfaceOf(user), SurfaceOf(agent), c)  after == FocusAmong(s, a, c)
           IN  IF before = after THEN entered[c] ELSE after]
      /\ reported' = (IF RootReported(a) = 0 THEN 0 ELSE id[RootReported(a)])
NoChange == UNCHANGED <<user, agent, entered, reported>>

\* np_set_keyboard_focus
SetUser(u) == IF user = u THEN NoChange ELSE Change(u, agent)

---------------------------------------------------------------------------
\* The host.

\* dismissPopups: the popups that stand directly on the window.
Dismissed(w) ==
  SetToSeq({[type |-> "dismiss", w |-> id[s]] : s \in {x \in Pops : id[x] \in known /\ popup[x].parent = w}})

\* windowDidResignKey of one window and windowDidBecomeKey of another.
KeyChange(w) ==
  /\ w # key /\ (w # 0 => w \in {id[t] : t \in Tops}) /\ Spend("host", MaxHost)
  /\ key' = w
  /\ down' = down \o (IF key = 0 THEN <<>> ELSE Dismissed(key) \o <<[type |-> "focus", w |-> 0]>>)
                  \o (IF w = 0 THEN <<>> ELSE <<[type |-> "focus", w |-> w]>>)
  /\ UNCHANGED <<roles, user, agent, reported, entered, input, told, known, typed, missed>>

\* popupCreated and popupDestroyed
Learn ==
  /\ \E s \in Pops : id[s] # 0 /\ id[s] \notin known /\ known' = known \cup {id[s]}
  /\ UNCHANGED <<roles, user, agent, reported, entered, input, told, key, down, typed, missed, used>>

\* A click inside a toplevel: dismissPopups and pointerButton.
Press(t) ==
  /\ id[t] # 0 /\ Spend("input", MaxInput)
  /\ down' = down \o Dismissed(id[t]) \o <<[type |-> "press", w |-> id[t]]>>
  /\ UNCHANGED <<roles, user, agent, reported, entered, input, told, host, typed, missed>>

Type ==
  /\ key # 0 /\ Spend("input", MaxInput) /\ down' = Append(down, [type |-> "key", w |-> key])
  /\ UNCHANGED <<roles, user, agent, reported, entered, input, told, host, typed, missed>>

Ask(t) ==
  /\ id[t] # 0 /\ Spend("input", MaxInput) /\ down' = Append(down, [type |-> "agent", w |-> id[t]])
  /\ UNCHANGED <<roles, user, agent, reported, entered, input, told, host, typed, missed>>

---------------------------------------------------------------------------
\* The compositor.

\* handle_keyboard_focus: a menu that grabs takes what the host gives to a window.
HandleFocus(w) ==
  /\ LET p == Grabbing(FALSE)
     IN  /\ SetUser(IF p # 0 /\ w # 0 THEN id[p] ELSE w)
         /\ missed' = (p # 0 /\ (missed \/ (w # 0 /\ ~Below(p, w))))
  /\ UNCHANGED <<input, told, typed>>

HandleDismiss(w) == told' = (IF SurfaceOf(w) # 0 THEN told \cup {w} ELSE told) /\ NoChange /\ UNCHANGED <<input, typed>>

HandlePress(w) ==
  /\ input' = (IF SurfaceOf(w) = 0 THEN input ELSE ClientOfS(SurfaceOf(w)))
  /\ NoChange /\ UNCHANGED <<told, typed>>

\* handle_key
HandleKey(w) ==
  /\ input' = (IF Matches(SurfaceOf(user), w) THEN ClientOfS(SurfaceOf(user)) ELSE input)
  /\ NoChange /\ UNCHANGED <<told, typed>>

\* Mutant of Shares: in the user's client the agent types wherever the user does.
SharesAny(w) == SurfaceOf(user)
\* The user's surface when the agent may share it.
Shares(w) == IF Matches(SurfaceOf(user), w) THEN SurfaceOf(user) ELSE 0

Typed(w, s) == typed' = [window |-> w, surface |-> s] /\ input' = ClientOf[s] /\ UNCHANGED told

\* agent_focus and the delivery of one key.
HandleAgent(w) ==
  LET t == SurfaceOf(w)  u == SurfaceOf(user)  a == SurfaceOf(agent)
  IN  IF t = 0 THEN NoChange /\ UNCHANGED <<input, told, typed>>
      ELSE IF u # 0 /\ ClientOf[u] = ClientOf[t]
      THEN /\ NoChange
           /\ IF Shares(w) # 0 THEN Typed(w, Shares(w)) ELSE UNCHANGED <<input, told, typed>>
      ELSE IF Matches(a, w) THEN NoChange /\ Typed(w, a)
      ELSE Change(user, w) /\ Typed(w, t)

Command ==
  /\ down # <<>> /\ down' = Tail(down)
  /\ LET c == Head(down)
     IN  \/ c.type = "focus" /\ HandleFocus(c.w)
         \/ c.type = "dismiss" /\ HandleDismiss(c.w) /\ UNCHANGED missed
         \/ c.type = "press" /\ HandlePress(c.w) /\ UNCHANGED missed
         \/ c.type = "key" /\ HandleKey(c.w) /\ UNCHANGED missed
         \/ c.type = "agent" /\ HandleAgent(c.w) /\ UNCHANGED missed
  /\ UNCHANGED <<roles, host, used>>

---------------------------------------------------------------------------
\* The clients.

Children(s) == {x \in Pops : id[x] # 0 /\ popup[x].parent = id[s]}

\* xdg_surface_get_popup; the grab follows before anything else of this client.
Open(s, p) ==
  /\ s \in Pops /\ id[s] = 0 /\ id[p] # 0 /\ ClientOf[s] = ClientOf[p] /\ nextId <= MaxIds
  /\ id' = [id EXCEPT ![s] = nextId] /\ nextId' = nextId + 1
  /\ popup' = [popup EXCEPT ![s] = [NoPopup EXCEPT !.parent = id[p]]]
  /\ UNCHANGED <<user, agent, reported, entered, input, told, host, down, typed, missed, used>>

\* Whose focus a grab takes.
TakesAgent(s) == SurfaceOf(user) = 0 \/ ClientOfS(SurfaceOf(user)) # ClientOf[s]

\* popup_grab and np_keyboard_focus_grab
Grab(s) ==
  /\ s \in Pops /\ id[s] # 0 /\ ~popup[s].grab
  /\ LET p == SurfaceOf(popup[s].parent) IN p # 0 /\ (p \in Tops \/ popup[p].grab)
  /\ IF input # ClientOf[s]
     THEN told' = told \cup {id[s]} /\ NoChange /\ UNCHANGED <<popup, missed>>
     ELSE /\ popup' = [popup EXCEPT ![s] = [@ EXCEPT !.grab = TRUE, !.agent = TakesAgent(s),
                                               !.restore = IF TakesAgent(s) THEN agent ELSE user]]
          /\ IF TakesAgent(s) THEN Change(user, id[s]) ELSE SetUser(id[s])
          /\ missed' = (missed \/ (~TakesAgent(s) /\ ~Below(s, user)))
          /\ UNCHANGED told
  /\ UNCHANGED <<id, nextId, input, host, down, typed, used>>

\* Mutant of Restored: the window the popup stands on, whatever had the focus.
RestoredParent(s) == IF SurfaceOf(popup[s].parent) # 0 THEN popup[s].parent ELSE 0
\* np_keyboard_focus_ungrab: only a window that still exists gets the focus back.
Restored(s) == IF SurfaceOf(popup[s].restore) # 0 THEN popup[s].restore ELSE 0

\* Whether the popup still has the focus it took.
GivesBack(s) == popup[s].grab /\ id[s] = (IF popup[s].agent THEN agent ELSE user)

\* popup_destroy_handler and popup_resource_destroy
Close(s) ==
  /\ s \in Pops /\ id[s] # 0 /\ Children(s) = {}
  /\ IF ~GivesBack(s) THEN NoChange
     ELSE IF popup[s].agent THEN Change(user, Restored(s)) ELSE SetUser(Restored(s))
  /\ id' = [id EXCEPT ![s] = 0] /\ popup' = [popup EXCEPT ![s] = NoPopup]
  /\ told' = told \ {id[s]} /\ known' = known \ {id[s]}
  /\ UNCHANGED <<nextId, input, key, down, typed, missed, used>>

\* toplevel_resource_destroy, once its menus are gone.
CloseTop(t) ==
  /\ id[t] # 0 /\ Children(t) = {} /\ id' = [id EXCEPT ![t] = 0]
  /\ UNCHANGED <<popup, nextId, user, agent, reported, entered, input, told, host, down, typed, missed, used>>

Next ==
  \/ \E w \in Tops \cup {0} : KeyChange(w)
  \/ \E t \in Tops : Press(t) \/ Ask(t) \/ CloseTop(t)
  \/ Learn \/ Type \/ Command
  \/ \E s \in Pops, p \in WlSurfaces : Open(s, p)
  \/ \E s \in Pops : Grab(s) \/ Close(s)

Spec == Init /\ [][Next]_vars

---------------------------------------------------------------------------
\* Every variable stays in its type.
TypeOK ==
  /\ nextId \in 1..(MaxIds + 1) /\ {user, agent, reported, key} \subseteq 0..MaxIds
  /\ \A c \in Clients : entered[c] = 0 \/ ClientOf[entered[c]] = c
  /\ \A s, t \in WlSurfaces : id[s] # 0 /\ id[s] = id[t] => s = t

UserSurface == SurfaceOf(user)
AgentSurface == SurfaceOf(agent)

\* A client's keyboards are in the one surface the compositor takes for its focus, and the
\* user's focus wins over the agent's there (input.c change_keyboard_focus, focus_among).
EnterAgrees ==
  \A c \in Clients :
    LET f == FocusAmong(UserSurface, AgentSurface, c)
    IN  (f # 0 => entered[c] = f) /\ (entered[c] # 0 /\ id[entered[c]] # 0 => entered[c] = f)

\* The host shows as active the toplevel under the agent's focus (input.c report_agent_focus).
ReportAgrees == AgentSurface # 0 => reported = id[Root(AgentSurface)]

\* A focus in a popup belongs to a popup that grabs (input.c np_keyboard_focus_ungrab).
OnlyGrabs == \A s \in {UserSurface, AgentSurface} : s \in Pops => popup[s].grab

\* Commands and dismissals have been acted upon.
Quiet == down = <<>> /\ told = {}

\* The user's focus is in the innermost menu that grabs, which is the newest surface among them.
Innermost == UserSurface \in Pops => Grabbing(FALSE) = UserSurface

\* Once the compositor and the clients have caught up, keys typed into the key window reach it
\* or the menus that stand on it (docs/wayland.md, "The user's focus follows the macOS key window"),
\* but for three cases in which the code does not give the focus back: the key window changed
\* while a menu of another window held the grab, or a menu took the focus from a window it does
\* not stand on (missed: input.c handle_keyboard_focus, np_keyboard_focus_ungrab), or an inner
\* menu came on an older surface than the outer one (~Innermost: input.c grabbing_popup).
KeyboardAlive ==
  (/\ Quiet /\ ~missed /\ Innermost /\ SurfaceOf(key) # 0
   /\ \A s \in Pops : popup[s].grab /\ ~popup[s].agent => id[Root(s)] = key)
    => Matches(UserSurface, key)

\* Compositor, clients and Mac agree on where keys go.
FocusAgrees == EnterAgrees /\ ReportAgrees /\ OnlyGrabs

\* An event of the agent reaches the window it was addressed to or a menu on it
\* (input.c agent_focus).
AgentTypesThere ==
  [][typed' # typed => Root(typed'.surface) # 0 /\ id[Root(typed'.surface)] = typed'.window]_vars
===============================================================================
