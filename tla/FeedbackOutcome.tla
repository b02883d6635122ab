--------------------------- MODULE FeedbackOutcome ---------------------------
(***************************************************************************)
(* What display feedback promises to a Wayland client, without compositor, *)
(* host or connection: a query belongs to one commit of one surface and    *)
(* ends at most once.  It is presented only if a display showed that       *)
(* commit, it is discarded only while none has, and it fails when nobody   *)
(* can tell.                                                               *)
(***************************************************************************)
CONSTANTS
  Queries, \* feedback objects
  Layers   \* contents: a commit of a surface

VARIABLES
  outcome, \* of each query
  content, \* the layer each query is about, once it is committed
  shown    \* the layers displays have shown

outcomeVars == <<outcome, content, shown>>

Nothing == <<>>
Ended   == {"presented", "discarded", "failed"}

Init ==
  /\ outcome = [q \in Queries |-> "unused"]
  /\ content = [q \in Queries |-> Nothing]
  /\ shown = {}

Request(q) ==
  /\ outcome[q] = "unused"
  /\ outcome' = [outcome EXCEPT ![q] = "pending"]
  /\ UNCHANGED <<content, shown>>

\* One commit takes every query that waits for it.
Bind(Q, layer) ==
  /\ \A q \in Q : outcome[q] = "pending" /\ content[q] = Nothing
  /\ content' = [q \in Queries |-> IF q \in Q THEN layer ELSE content[q]]
  /\ UNCHANGED <<outcome, shown>>

Show(layers) ==
  /\ shown' = shown \cup layers
  /\ UNCHANGED <<outcome, content>>

Truthful(q, end) ==
  CASE end = "presented" -> content[q] \in shown
    [] end = "discarded" -> content[q] \notin shown
    [] end = "failed"    -> TRUE

Conclude(Q, end) ==
  /\ \A q \in Q : outcome[q] = "pending" /\ Truthful(q, end[q])
  /\ outcome' = [q \in Queries |-> IF q \in Q THEN end[q] ELSE outcome[q]]
  /\ UNCHANGED <<content, shown>>

Next ==
  \/ \E q \in Queries : Request(q)
  \/ \E Q \in SUBSET Queries, layer \in Layers : Bind(Q, layer)
  \/ \E layers \in SUBSET Layers : Show(layers)
  \/ \E Q \in SUBSET Queries : \E end \in [Q -> Ended] : Conclude(Q, end)

Spec == Init /\ [][Next]_outcomeVars
=============================================================================
