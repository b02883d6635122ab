------------------------------- MODULE MCBarrier -------------------------------
(***************************************************************************)
(* The pause barrier for TLC, in two studies that one run checks: with two  *)
(* scenes on one connection (the constants of the run), and with one scene   *)
(* while connections break and are replaced and the host asks for replays.   *)
(* A behaviour belongs to one of them.                                      *)
(***************************************************************************)
EXTENDS MCPresentation

VARIABLE study  \* the instance this behaviour belongs to

\* A window whose content the host may ask for again, over two connections.
Lossy == INSTANCE Presentation WITH Recaptured <- {1}, MaxId <- 1, MaxConnections <- 2

BarrierInit == (study = "steady" /\ Init) \/ (study = "lossy" /\ Lossy!Init)
BarrierNext ==
  \/ study = "steady" /\ Next /\ UNCHANGED study
  \/ study = "lossy" /\ Lossy!Next /\ UNCHANGED study
BarrierSpec == BarrierInit /\ [][BarrierNext]_<<vars, study>>

\* A drain is answered by the last record that leaves the guest's ledger.
DrainsAnswered == IF study = "steady" THEN DrainNotForgotten ELSE Lossy!DrainNotForgotten

\* A sealed host has the barrier of this very connection, and nothing is under way.
SealsQuiet == IF study = "steady" THEN SealedIsQuiet ELSE Lossy!SealedIsQuiet

\* A host that draws has left no pause in force.
OpensUnfenced == IF study = "steady" THEN OpenMeansUnfenced ELSE Lossy!OpenMeansUnfenced
=============================================================================
