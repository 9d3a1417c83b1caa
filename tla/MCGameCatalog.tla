---------------------------- MODULE MCGameCatalog ----------------------------
(***************************************************************************)
(* A small instance of GameCatalog: two keys, two Steam games, and a game  *)
(* a client enters with a path.                                            *)
(***************************************************************************)
EXTENDS GameCatalog

CONSTANTS a1, a2, p1

MCForms == {[app |-> a1, path |-> p1, tracked |-> FALSE],
            [app |-> NoApp, path |-> p1, tracked |-> TRUE]}

\* The whole library, with a blank and a non-positive entry.
MCPayloads == {{[app |-> a1, titled |-> TRUE], [app |-> a2, titled |-> TRUE],
                [app |-> a2, titled |-> FALSE], [app |-> NoApp, titled |-> TRUE]}}
=============================================================================
