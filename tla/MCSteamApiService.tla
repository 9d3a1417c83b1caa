-------------------------- MODULE MCSteamApiService --------------------------
(***************************************************************************)
(* Small instances of SteamApiService.                                     *)
(***************************************************************************)
EXTENDS SteamApiService

CONSTANTS k1, k2
=============================================================================
