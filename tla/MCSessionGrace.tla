--------------------------- MODULE MCSessionGrace ---------------------------
(***************************************************************************)
(* The instances of MCSessionService, with the history of SessionGrace.    *)
(***************************************************************************)
EXTENDS MCSessionService, SessionGrace
=============================================================================
