----------------------------- MODULE MCDashboard -----------------------------
(* Instances of Dashboard for TLC.  ENABLING (2) and NORMAL (3) are the modes *)
(* that the gate of the zero-set buttons has to tell apart.                   *)
EXTENDS Dashboard

MCModes == {2, 3}
=============================================================================
