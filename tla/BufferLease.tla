----------------------------- MODULE BufferLease -----------------------------
(***************************************************************************)
(* What a client is promised about its buffers, whoever renders them: a    *)
(* buffer that was given back is read by nobody until it is committed       *)
(* again, readers that were forsaken excepted.  A reader is one scene of    *)
(* the host; it is forsaken when its session or its window ends first.      *)
(***************************************************************************)
CONSTANTS Buffers, Readers

VARIABLES
  given,    \* buffers the client may write to
  readers,  \* the scenes that may still read each buffer
  forsaken  \* those of them that nobody waits for any more

leaseVars == <<given, readers, forsaken>>

LeaseInit ==
  /\ given = Buffers
  /\ readers = [b \in Buffers |-> {}]
  /\ forsaken = {}

\* The client hands buffers over.
Commit == \E B \in SUBSET given :
  /\ given' = given \ B
  /\ UNCHANGED <<readers, forsaken>>

\* A scene begins to read buffers the client has handed over.
Read == \E r \in Readers \ forsaken, B \in SUBSET (Buffers \ given) :
  /\ readers' = [b \in Buffers |-> IF b \in B THEN readers[b] \cup {r} ELSE readers[b]]
  /\ UNCHANGED <<given, forsaken>>

\* Scenes end or are forsaken, and buffers without another reader go back.
Return ==
  /\ readers' \in [Buffers -> SUBSET Readers] /\ forsaken' \subseteq Readers
  /\ \A b \in Buffers : readers'[b] \subseteq readers[b] /\ readers'[b] \cap forsaken \subseteq forsaken'
  /\ given \subseteq given' /\ given' \subseteq Buffers
  /\ \A b \in given' \ given : readers'[b] \subseteq forsaken'

LeaseNext == Commit \/ Read \/ Return
LeaseSpec == LeaseInit /\ [][LeaseNext]_leaseVars
=============================================================================
