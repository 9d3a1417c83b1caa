----------------------------- MODULE MCLiveNotes -----------------------------
(* LiveNotes on the instance of the .cfg files.                              *)
EXTENDS LiveNotes
=============================================================================
