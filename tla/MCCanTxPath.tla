--------------------------- MODULE MCCanTxPath ---------------------------
(* Instances of CanTxPath for TLC. *)
EXTENDS CanTxPath

CONSTANTS controller, tool

MCClients == {controller, tool}

\* The controller sends a tick's frames, the tool gets in between.
MCMaxFrames == [c \in Clients |-> IF c = controller THEN 2 ELSE 1]
=============================================================================
