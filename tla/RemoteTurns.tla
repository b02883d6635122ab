------------------------------ MODULE RemoteTurns ------------------------------
(***************************************************************************)
(* Which window gets the next encode job of a remote compositor.  Windows   *)
(* change for ever; a job, a refresh pause and an unanswered scene each     *)
(* keep a window from the next one.  The encoders and the host are reduced  *)
(* to the end of a job and to a result.  (remote/presentation.c, scene.c)   *)
(***************************************************************************)
EXTENDS Integers, FiniteSets, Sequences, SequencesExt

CONSTANTS
  Windows,    \* root surfaces, in the order of the compositor's list
  Slots,      \* jobs at a time
  Stuck,      \* windows whose encoder never finishes
  MaxFlights  \* scenes of a window the host has not answered

VARIABLES
  turn,    \* windows with scene_dirty, owning a job, before next_refresh_ns; previous_owner
  flights  \* flight_count of each window

vars == <<turn, flights>>

Init ==
  /\ turn = [dirty |-> {}, job |-> {}, paced |-> {}, previous |-> 0]
  /\ flights = [w \in Windows |-> 0]

\* np_remote_scene_available
Available(t, w) ==
  w \notin t.job \cup t.paced /\ flights'[w] < MaxFlights /\ Cardinality(t.job) < Slots

\* Mutant of Ready: windows take jobs in the order of the list.
ReadyInOrder(t, w) == Available(t, w)

\* np_backend_scene_ready
Ready(t, w) ==
  Available(t, w) /\ (t.previous = w => ~\E o \in t.dirty \ {w} : Available(t, o))

\* One window of the list in np_presentation_flush, and np_remote_submit_scene.
Visit(t, w) ==
  IF w \in t.dirty /\ Ready(t, w)
  THEN [dirty |-> t.dirty \ {w}, job |-> t.job \cup {w}, paced |-> t.paced \cup {w}, previous |-> w]
  ELSE t

\* np_presentation_flush, which ends every handler.
Flush(t) == turn' = FoldLeft(Visit, t, [i \in Windows |-> i])

\* A client commits.
Change(w) ==
  /\ w \notin turn.dirty /\ UNCHANGED flights
  /\ Flush([turn EXCEPT !.dirty = @ \cup {w}])

\* np_remote_flush_encoded sends the scene of a finished job.
Sent(w) ==
  /\ w \in turn.job \ Stuck /\ flights' = [flights EXCEPT ![w] = @ + 1]
  /\ Flush([turn EXCEPT !.job = @ \ {w}])

\* np_remote_scene_completed
Answered(w) ==
  /\ flights[w] > 0 /\ flights' = [flights EXCEPT ![w] = @ - 1]
  /\ Flush(turn)

\* refresh_ready
RefreshDue(w) ==
  /\ w \in turn.paced /\ UNCHANGED flights
  /\ Flush([turn EXCEPT !.paced = @ \ {w}])

Next == \E w \in Windows : Change(w) \/ Sent(w) \/ Answered(w) \/ RefreshDue(w)

\* The encoder of a window finishes, the host answers and its refresh comes.
Moves(w) == Sent(w) \/ Answered(w) \/ RefreshDue(w)

Spec == Init /\ [][Next]_vars

\* Jobs are distinct windows within the slots, and a window is not sent while
\* it has a job or all its credit is used.
TypeOK ==
  /\ flights \in [Windows -> 0 .. MaxFlights] /\ turn.job \subseteq Windows
  /\ Cardinality(turn.job) <= Slots /\ turn.previous \in Windows \cup {0}

\* Who waits: a window with changes, however busy the others are ("a slow, hidden
\* or paced window must not prevent another window").
Waits(w) == w \in turn.dirty \ Stuck
=============================================================================
