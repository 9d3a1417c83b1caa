-------------------------- MODULE MCTrackerContract --------------------------
(***************************************************************************)
(* TrackerContract on a catalogue of three tracked games: a Steam game     *)
(* that also has a path, a game known by its path alone, and a second      *)
(* Steam game; and processes that exercise each kind of match, among them  *)
(* one whose App ID contradicts its path.                                  *)
(***************************************************************************)
EXTENDS TrackerContract

CONSTANTS a1, a2, p1, p2

MCCatalog == {[id |-> 1, app |-> NoApp, path |-> p1, tracked |-> TRUE],
              [id |-> 2, app |-> a1, path |-> p2, tracked |-> TRUE],
              [id |-> 3, app |-> a2, path |-> NoPath, tracked |-> TRUE]}

MCProcesses == {[app |-> NoApp, path |-> p1],
                [app |-> a1, path |-> p1],
                [app |-> a2, path |-> p2],
                [app |-> NoApp, path |-> p2]}
=============================================================================
