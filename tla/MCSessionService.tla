-------------------------- MODULE MCSessionService --------------------------
(***************************************************************************)
(* Small instances of SessionService: one Steam game and one game known by *)
(* its path, each with the process that runs it.                           *)
(***************************************************************************)
EXTENDS SessionService

CONSTANTS a1, p1

SteamGame == [app |-> a1, path |-> NoPath, tracked |-> TRUE]
PathGame  == [app |-> NoApp, path |-> p1, tracked |-> TRUE]

MCForms == {SteamGame, PathGame}
MCOneForm == {SteamGame}
MCProcesses == {[app |-> a1, path |-> NoPath], [app |-> NoApp, path |-> p1]}

MCOneProcess == {[app |-> a1, path |-> NoPath]}

Empty == [games |-> [g \in GameId |-> NoGame], rows |-> [i \in SessionId |-> NoSession]]

\* Both games are in the catalogue.
BothGames == [g \in GameId |-> GameOf(g, IF g = 1 THEN SteamGame ELSE PathGame)]

MCBothGames == {[Empty EXCEPT !.games = BothGames]}

\* A database older than the index: any two active rows.
ActiveRow == [game : GameId, start : Time, end : {NoEnd}, status : {"active"}]

MCTwoActive == {[games |-> BothGames, rows |-> f] :
                  f \in [SessionId -> ActiveRow \cup {NoSession}]}
=============================================================================
