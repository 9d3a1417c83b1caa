--------------------------- MODULE ProcessMatching ---------------------------
(***************************************************************************)
(* How GameLog decides that a process of the operating system is a game of *)
(* the catalogue: ProcessHelpers (core/process), the two in-memory indexes *)
(* of GameService it reads, and the gate GameLogRuntime::update puts       *)
(* before SteamProcessInspector.                                           *)
(*                                                                         *)
(* A process is what matching can see of it: the Steam App ID found in its *)
(* environment (NoApp when there is none) and its executable path.  A game *)
(* is a row of the games table: its primary key, the two identities it can *)
(* be matched by, and its tracking switch.                                 *)
(***************************************************************************)
EXTENDS Naturals

CONSTANTS GameId,    \* primary keys of the games table, positive integers
          App,       \* Steam App IDs
          Path,      \* executable paths
          NoApp,     \* std::nullopt in an optional Steam App ID
          NoPath,    \* the empty QString
          NoGame     \* std::nullopt in an optional game or game id

ASSUME GameIdAssumption == GameId \subseteq Nat \ {0}

ASSUME SentinelAssumption == /\ NoApp \notin App
                             /\ NoPath \notin Path
                             /\ NoGame \notin Nat

Process == [app : App \cup {NoApp}, path : Path \cup {NoPath}]

Game == [id      : GameId,
         app     : App \cup {NoApp},
         path    : Path \cup {NoPath},
         tracked : BOOLEAN]

ASSUME NoGameAssumption == NoGame \notin Game

-----------------------------------------------------------------------------
(* ProcessHelpers::processMatchesGame.  When both sides have an App ID the *)
(* IDs alone decide; otherwise the executable path does.                   *)
processMatchesGame(p, g) ==
  \/ /\ g.app # NoApp /\ p.app # NoApp
     /\ p.app = g.app
  \/ /\ g.app = NoApp \/ p.app = NoApp
     /\ g.path # NoPath /\ p.path = g.path

(* ProcessHelpers::matchTrackedGame, split by the MatchKind it reports.    *)
(* `steam' and `paths' are the two indexes, as sets of the game copies     *)
(* they hold: at most one copy per App ID, at most one per path.           *)
SteamMatches(p, steam) == {g \in steam : p.app # NoApp /\ g.app = p.app}

PathMatches(p, steam, paths) ==
  {g \in paths : /\ SteamMatches(p, steam) = {}
                 /\ p.path # NoPath /\ g.path = p.path
                 /\ processMatchesGame(p, g)}

(* Every game some process of a snapshot is matched to, by kind.           *)
SteamCandidates(ps, steam) == UNION {SteamMatches(p, steam) : p \in ps}
PathCandidates(ps, steam, paths) == UNION {PathMatches(p, steam, paths) : p \in ps}

-----------------------------------------------------------------------------
(* GameService::syncGamesWithDatabase.  Both indexes hold copies of the    *)
(* tracked rows.  A path shared by several tracked rows keeps one of them: *)
(* QHash::insert replaces, and which row comes last depends on titles,     *)
(* which are not modelled.                                                 *)
TrackedSteamGames(rows) == {g \in rows : g.tracked /\ g.app # NoApp}

TrackedWithPath(rows) == {g \in rows : g.tracked /\ g.path # NoPath}

IsPathIndex(index, rows) ==
  /\ index \subseteq TrackedWithPath(rows)
  /\ \A g \in TrackedWithPath(rows) : \E h \in index : h.path = g.path
  /\ \A g, h \in index : g.path = h.path => g = h

(* GameLogRuntime::update annotates the snapshot with Steam App IDs only   *)
(* while some tracked game has one; otherwise the App IDs stay unread.     *)
annotate(ps, steam) ==
  IF steam # {} THEN ps ELSE {[p EXCEPT !.app = NoApp] : p \in ps}

(* A process that starts a game's session also keeps that session alive:   *)
(* whatever game matchTrackedGame reports for a process,                   *)
(* processMatchesGame, which decides whether the session's game is still   *)
(* running, agrees.                                                        *)
MatchesAgree(ps, steam, paths) ==
  \A p \in ps : \A g \in SteamMatches(p, steam) \cup PathMatches(p, steam, paths) :
     processMatchesGame(p, g)
=============================================================================
