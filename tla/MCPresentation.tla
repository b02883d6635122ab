---------------------------- MODULE MCPresentation ----------------------------
(* Instances of Presentation for TLC.                                      *)
EXTENDS Presentation

\* One window.
OneWindow == <<1>>
\* A window and its synchronized subsurface.
WindowWithSubsurface == <<1, 1>>
=============================================================================
