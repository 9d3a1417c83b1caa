----------------------- MODULE MCSteamProcessInspector -----------------------
(* Two PIDs, which are alike.                                              *)
EXTENDS SteamProcessInspector, TLC

Symmetry == Permutations(Pid)
=============================================================================
