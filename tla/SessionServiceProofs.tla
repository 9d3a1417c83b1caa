------------------------ MODULE SessionServiceProofs ------------------------
(***************************************************************************)
(* The invariants of SessionService, its refinement of SessionLifecycle    *)
(* and the grace period of SessionGrace, proved for every catalogue, every *)
(* number of sessions, processes and failures, every set of calls clients  *)
(* make and with or without the unique index, but where a theorem's        *)
(* hypotheses say otherwise.                                               *)
(*                                                                         *)
(* The inductive invariant is the conjunction of the invariants the runs   *)
(* check with one addition, GamesAreKeyed: a row of the games table is     *)
(* stored under its own key, without which a game fetched again for the    *)
(* cached session could be another game.  The conjuncts need one another:  *)
(* a session that ends leaves no active row behind only because the active *)
(* row was the cached one, and a session that starts does not overwrite    *)
(* another only because the cached row is in use.  The refinement adds     *)
(* OneActiveRow to it, and the grace period GamesInv and AbsenceIsCounted. *)
(***************************************************************************)
EXTENDS SessionGrace, AutomaticSessionTrackerProofs

\* Rows of the games table carry their own key.
GamesAreKeyed == \A g \in GameId : games[g] # NoGame => games[g].id = g

\* CacheMatchesRow is conditional: only removeGame breaks it.
CacheIsSound == "removeGame" \notin ClientCalls => CacheMatchesRow

IInv == /\ TypeOK
        /\ GamesAreKeyed
        /\ CacheIsSound
        /\ ActiveGameOfSession
        /\ NoInheritedAbsence
        /\ ActiveRowIsCached

-----------------------------------------------------------------------------
(* Rows and caches.                                                        *)

LEMMA RowsOfSessions ==
  /\ NoSession \notin Row /\ NoSession \notin Session /\ NoGame \notin Game
  /\ \A s \in Session : s.id \in SessionId /\ s.row \in Row
  /\ \A r \in Row : r.game \in GameId /\ r.start \in Time
  /\ NoGame \notin GameId
BY NoSessionAssumption, NoGameAssumption, GameIdAssumption, SentinelAssumption
   DEF Session, Row

LEMMA EndedRow ==
  ASSUME NEW r \in Row, NEW t \in Time, NEW status \in Status
  PROVE  /\ Ended(r, t, status) \in Row
         /\ Ended(r, t, status).status = status
BY DEF Ended, Row

LEMMA StartedRow ==
  ASSUME NEW g \in GameId, now \in Time
  PROVE  /\ AutomaticRow(g) \in Row
         /\ AutomaticRow(g).status = "active" /\ AutomaticRow(g).game = g
BY DEF AutomaticRow, Row, Status

LEMMA InterruptedRow ==
  ASSUME NEW r \in Row, now \in Time
  PROVE  /\ Interrupted(r) \in Row
         /\ Interrupted(r).status # "active"
<1>1. (IF now < r.start THEN r.start ELSE now) \in Time
  BY RowsOfSessions
<1> QED BY <1>1, EndedRow DEF Interrupted, Status

LEMMA CachedSession ==
  ASSUME NEW i \in SessionId, NEW r \in Row, NEW game, Associate(i, r, game)
  PROVE  /\ activeSession' \in Session /\ activeSession' # NoSession
         /\ activeSession'.id = i /\ activeSession'.row = r
         /\ activeGame' = game
BY RowsOfSessions DEF Associate, Session

LEMMA FreshTrackerIsTyped == FreshTracker \in Tracker /\ FreshTracker.closed = 0
BY DEF FreshTracker, Tracker

(* How a write to one row changes the set of active rows.                  *)
LEMMA WrittenRow ==
  ASSUME rows \in [SessionId -> Row \cup {NoSession}],
         NEW i \in SessionId, NEW r \in Row, rows' = [rows EXCEPT ![i] = r]
  PROVE  /\ rows' \in [SessionId -> Row \cup {NoSession}]
         /\ rows'[i] = r /\ \A j \in SessionId \ {i} : rows'[j] = rows[j]
         /\ r.status = "active" => ActiveIds' = ActiveIds \cup {i}
         /\ r.status # "active" => ActiveIds' = ActiveIds \ {i}
<1>1. /\ rows' \in [SessionId -> Row \cup {NoSession}]
      /\ rows'[i] = r /\ \A j \in SessionId \ {i} : rows'[j] = rows[j]
  OBVIOUS
<1> QED BY <1>1, RowsOfSessions DEF ActiveIds, ActiveIdsOf

(* The next key is not in use.                                             *)
LEMMA NextSessionIsNew ==
  ASSUME NEW i \in SessionId, IsNextSessionId(i)
  PROVE  rows[i] = NoSession
<1>1. i \in UsedSessionIds => i < i
  BY DEF IsNextSessionId, IsNextKey
<1>2. ~ (i < i)
  BY BoundAssumption DEF SessionId
<1> QED BY <1>1, <1>2 DEF UsedSessionIds

LEMMA FailuresCounted ==
  ASSUME TypeOK, NEW query \in BOOLEAN, NEW write \in BOOLEAN, Failing(query, write)
  PROVE  /\ faults' \in [query : Nat, write : Nat]
         /\ faults'.query = 0 => ~ query /\ faults.query = 0
<1>1. /\ faults \in [query : Nat, write : Nat]
      /\ faults' = [query |-> faults.query + (IF query THEN 1 ELSE 0),
                    write |-> faults.write + (IF write THEN 1 ELSE 0)]
  BY DEF TypeOK, Failing
<1> QED BY <1>1

(* A rebuilt index holds rows of the games table, or nothing.              *)
LEMMA RebuiltIndexes ==
  ASSUME NEW table \in [GameId -> Game \cup {NoGame}], NEW queryFails \in BOOLEAN,
         SyncGamesWithDatabase(table, queryFails)
  PROVE  trackedSteamGames' \in SUBSET Game /\ trackedPathGames' \in SUBSET Game
<1>1. GameRows(table) \subseteq Game
  BY DEF GameRows
<1> QED BY <1>1 DEF SyncGamesWithDatabase, TrackedSteamGames, TrackedWithPath

LEMMA FormsOfGames ==
  ASSUME NEW g \in GameId, NEW form \in GameForms
  PROVE  GameOf(g, form) \in Game /\ GameOf(g, form).id = g
BY ClientAssumption DEF GameOf, Game

(* What stays true while neither the tables nor the cache change.          *)
LEMMA UnchangedSessionsKeepInv ==
  ASSUME IInv, TypeOK', GamesAreKeyed',
         UNCHANGED <<rows, service>>,
         faults'.query = 0 => faults.query = 0,
         running' => running
  PROVE  IInv'
<1>1. ActiveIds' = ActiveIds
  BY DEF ActiveIds, ActiveIdsOf
<1>2. CacheIsSound' /\ ActiveGameOfSession' /\ NoInheritedAbsence'
  BY DEF IInv, CacheIsSound, CacheMatchesRow, ActiveGameOfSession, NoInheritedAbsence, service
<1>3. ActiveRowIsCached'
  BY <1>1 DEF IInv, ActiveRowIsCached, IsCached, service
<1> QED BY <1>2, <1>3 DEF IInv

(* What stays true when the service drops its session.                     *)
LEMMA DissociatedKeepsInv ==
  ASSUME Dissociate, TypeOK', GamesAreKeyed',
         running' /\ faults'.query = 0 => ActiveIds' = {}
  PROVE  IInv'
<1>1. CacheIsSound' /\ ActiveGameOfSession' /\ NoInheritedAbsence'
  BY FreshTrackerIsTyped
     DEF Dissociate, CacheIsSound, CacheMatchesRow, ActiveGameOfSession, NoInheritedAbsence
<1>2. ActiveRowIsCached'
  BY DEF ActiveRowIsCached
<1> QED BY <1>1, <1>2 DEF IInv

(* What stays true when the service takes up a session that has just been  *)
(* written as the only active row.                                         *)
LEMMA AssociatedKeepsInv ==
  ASSUME TypeOK', GamesAreKeyed',
         NEW i \in SessionId, NEW r \in Row, r.status = "active", NEW game,
         Associate(i, r, game), game # NoGame => game.id = r.game,
         rows'[i] = r,
         running' /\ faults'.query = 0 => ActiveIds' \subseteq {i}
  PROVE  IInv'
<1>1. /\ activeSession' # NoSession /\ activeSession'.id = i /\ activeSession'.row = r
      /\ activeGame' = game
  BY CachedSession
<1>2. CacheIsSound'
  BY <1>1 DEF CacheIsSound, CacheMatchesRow
<1>3. ActiveGameOfSession' /\ NoInheritedAbsence'
  BY <1>1 DEF ActiveGameOfSession, NoInheritedAbsence
<1>4. ActiveRowIsCached'
  BY <1>1 DEF ActiveRowIsCached, IsCached
<1> QED BY <1>2, <1>3, <1>4 DEF IInv

-----------------------------------------------------------------------------
(* The initial state, and then one lemma per action.                       *)

LEMMA InitEstablishesInv == Init => IInv
<1> SUFFICES ASSUME Init PROVE IInv
  OBVIOUS
<1>1. PICK t \in InitialTables : games = t.games /\ rows = t.rows
  BY DEF Init
<1>2. /\ games \in [GameId -> Game \cup {NoGame}]
      /\ rows \in [SessionId -> Row \cup {NoSession}]
      /\ GamesAreKeyed
  BY <1>1, TablesAssumption DEF Tables, GamesAreKeyed
<1>3. TypeOK
  <2>1. now \in Time
    BY BoundAssumption DEF Init, Time
  <2>2. faults \in [query : Nat, write : Nat]
    BY DEF Init
  <2> QED BY <1>2, <2>1, <2>2, FreshTrackerIsTyped DEF Init, TypeOK
<1>4. CacheIsSound /\ ActiveGameOfSession /\ NoInheritedAbsence /\ ActiveRowIsCached
  BY FreshTrackerIsTyped
     DEF Init, CacheIsSound, CacheMatchesRow, ActiveGameOfSession, NoInheritedAbsence,
         ActiveRowIsCached
<1> QED BY <1>2, <1>3, <1>4 DEF IInv

LEMMA AddSessionKeepsInv ==
  ASSUME IInv, NEW r \in Row, NEW queryFails \in BOOLEAN, AddSession(r, queryFails)
  PROVE  IInv'
<1>1. PICK i \in SessionId :
        /\ IsNextSessionId(i)
        /\ rows' = [rows EXCEPT ![i] = r]
        /\ IF r.status = "active"
           THEN Associate(i, r, findById(r.game)) /\ tracker' = FreshTracker
           ELSE UNCHANGED service
  BY DEF AddSession
<1>2. /\ UNCHANGED <<games, indexes, running, world>>
      /\ faults' \in [query : Nat, write : Nat]
      /\ faults'.query = 0 => ~ queryFails /\ faults.query = 0
      /\ running /\ GamesAreKeyed'
  BY FailuresCounted DEF AddSession, IInv, GamesAreKeyed
<1>3. /\ rows[i] = NoSession
      /\ rows' \in [SessionId -> Row \cup {NoSession}]
      /\ rows'[i] = r /\ \A j \in SessionId \ {i} : rows'[j] = rows[j]
      /\ r.status = "active" => ActiveIds' = ActiveIds \cup {i}
      /\ r.status # "active" => ActiveIds' = ActiveIds \ {i}
  BY <1>1, NextSessionIsNew, WrittenRow DEF IInv, TypeOK
<1>4. CASE r.status = "active"
  <2>1. /\ findById(r.game) \in Game \cup {NoGame}
        /\ findById(r.game) # NoGame => findById(r.game).id = r.game
    BY RowsOfSessions DEF IInv, TypeOK, findById, GamesAreKeyed
  <2>2. /\ activeSession = NoSession
        /\ ~ queryFails => ActiveIds \ {0} = {}
    BY <1>4 DEF AddSession, hasOtherActiveSession
  <2>3. faults'.query = 0 => ActiveIds' \subseteq {i}
    BY <1>2, <1>3, <1>4, <2>2 DEF IInv, ActiveRowIsCached, IsCached
  <2>4. /\ activeSession' \in Session /\ activeGame' \in Game \cup {NoGame}
        /\ tracker' \in Tracker
    BY <1>1, <1>4, <2>1, CachedSession, FreshTrackerIsTyped
  <2>5. TypeOK'
    BY <1>2, <1>3, <2>4 DEF IInv, TypeOK, indexes, world
  <2> QED BY <1>1, <1>2, <1>3, <1>4, <2>1, <2>3, <2>5, AssociatedKeepsInv
<1>5. CASE r.status # "active"
  <2>1. UNCHANGED service /\ ActiveIds' \subseteq ActiveIds
    BY <1>1, <1>3, <1>5
  <2>2. TypeOK'
    BY <1>2, <1>3, <2>1 DEF IInv, TypeOK, indexes, world, service
  <2>3. CacheIsSound'
    BY <1>3, <2>1, RowsOfSessions
       DEF IInv, TypeOK, CacheIsSound, CacheMatchesRow, service
  <2>4. ActiveGameOfSession' /\ NoInheritedAbsence'
    BY <2>1 DEF IInv, ActiveGameOfSession, NoInheritedAbsence, service
  <2>5. ActiveRowIsCached'
    BY <1>2, <2>1 DEF IInv, ActiveRowIsCached, IsCached, service
  <2> QED BY <1>2, <2>2, <2>3, <2>4, <2>5 DEF IInv
<1> QED BY <1>4, <1>5

LEMMA UpdateSessionKeepsInv ==
  ASSUME IInv, NEW i \in SessionId, NEW r \in Row, NEW queryFails \in BOOLEAN,
         UpdateSession(i, r, queryFails)
  PROVE  IInv'
<1>1. /\ UNCHANGED <<games, indexes, running, world>>
      /\ faults' \in [query : Nat, write : Nat]
      /\ faults'.query = 0 => ~ queryFails /\ faults.query = 0
      /\ running /\ GamesAreKeyed'
      /\ UpdateCache(i, r)
  BY FailuresCounted DEF UpdateSession, IInv, GamesAreKeyed
<1>2. /\ rows' \in [SessionId -> Row \cup {NoSession}]
      /\ rows'[i] = r /\ \A j \in SessionId \ {i} : rows'[j] = rows[j]
      /\ r.status = "active" => ActiveIds' = ActiveIds \cup {i}
      /\ r.status # "active" => ActiveIds' = ActiveIds \ {i}
  BY WrittenRow DEF UpdateSession, IInv, TypeOK
<1>3. IsActive(i) <=> i \in ActiveIds
  BY DEF IsActive, ActiveIds, ActiveIdsOf
<1>4. CASE r.status = "active"
  <2>1. /\ findById(r.game) \in Game \cup {NoGame}
        /\ findById(r.game) # NoGame => findById(r.game).id = r.game
    BY RowsOfSessions DEF IInv, TypeOK, findById, GamesAreKeyed
  <2>2. faults'.query = 0 => ActiveIds' \subseteq {i}
    BY <1>1, <1>2, <1>4 DEF UpdateSession, hasOtherActiveSession
  <2>3. Associate(i, r, findById(r.game)) /\ tracker' \in {FreshTracker, tracker}
    BY <1>1, <1>4 DEF UpdateCache
  <2>4. /\ activeSession' \in Session /\ activeGame' \in Game \cup {NoGame}
        /\ tracker' \in Tracker
    BY <2>1, <2>3, CachedSession, FreshTrackerIsTyped DEF IInv, TypeOK
  <2>5. TypeOK'
    BY <1>1, <1>2, <2>4 DEF IInv, TypeOK, indexes, world
  <2> QED BY <1>1, <1>2, <1>4, <2>1, <2>2, <2>3, <2>5, AssociatedKeepsInv
<1>5. CASE r.status # "active" /\ i \in ActiveIds /\ IsCached(i)
  <2>1. Dissociate
    BY <1>1, <1>3, <1>5 DEF UpdateCache
  <2>2. TypeOK'
    BY <1>1, <1>2, <2>1, FreshTrackerIsTyped DEF IInv, TypeOK, indexes, world, Dissociate
  <2>3. faults'.query = 0 => ActiveIds' = {}
    BY <1>1, <1>2, <1>5 DEF IInv, ActiveRowIsCached, IsCached
  <2> QED BY <1>1, <2>1, <2>2, <2>3, DissociatedKeepsInv
<1>6. CASE r.status # "active" /\ ~ (i \in ActiveIds /\ IsCached(i))
  <2>1. UNCHANGED service /\ ActiveIds' \subseteq ActiveIds
    BY <1>1, <1>2, <1>3, <1>6 DEF UpdateCache
  <2>2. TypeOK'
    BY <1>1, <1>2, <2>1 DEF IInv, TypeOK, indexes, world, service
  <2>3. CacheIsSound'
    <3> SUFFICES ASSUME "removeGame" \notin ClientCalls, activeSession # NoSession
                 PROVE  /\ rows'[activeSession.id] = activeSession.row
                        /\ activeSession.row.status = "active"
      BY <2>1 DEF CacheIsSound, CacheMatchesRow, service
    <3>1. /\ rows[activeSession.id] = activeSession.row
          /\ activeSession.row.status = "active"
          /\ activeSession.id \in SessionId /\ activeSession.row # NoSession
      BY RowsOfSessions DEF IInv, TypeOK, CacheIsSound, CacheMatchesRow
    <3>2. activeSession.id # i
      BY <1>6, <3>1 DEF ActiveIds, ActiveIdsOf, IsCached
    <3> QED BY <1>2, <3>1, <3>2
  <2>4. ActiveGameOfSession' /\ NoInheritedAbsence'
    BY <2>1 DEF IInv, ActiveGameOfSession, NoInheritedAbsence, service
  <2>5. ActiveRowIsCached'
    BY <1>1, <2>1 DEF IInv, ActiveRowIsCached, IsCached, service
  <2> QED BY <1>1, <2>2, <2>3, <2>4, <2>5 DEF IInv
<1> QED BY <1>4, <1>5, <1>6

LEMMA RemoveSessionKeepsInv ==
  ASSUME IInv, NEW i \in SessionId, RemoveSession(i)
  PROVE  IInv'
<1>1. /\ UNCHANGED <<games, indexes, service, running, world, faults>>
      /\ rows' \in [SessionId -> Row \cup {NoSession}]
      /\ rows' = [rows EXCEPT ![i] = NoSession]
      /\ i \notin ActiveIds
  BY DEF RemoveSession, IInv, TypeOK, IsActive, ActiveIds, ActiveIdsOf
<1>2. ActiveIds' = ActiveIds /\ \A j \in SessionId \ {i} : rows'[j] = rows[j]
  BY <1>1 DEF IInv, TypeOK, ActiveIds, ActiveIdsOf
<1>3. TypeOK' /\ GamesAreKeyed'
  BY <1>1 DEF IInv, TypeOK, GamesAreKeyed, indexes, service, world
<1>4. CacheIsSound'
  <2> SUFFICES ASSUME "removeGame" \notin ClientCalls, activeSession # NoSession
               PROVE  /\ rows'[activeSession.id] = activeSession.row
                      /\ activeSession.row.status = "active"
    BY <1>1 DEF CacheIsSound, CacheMatchesRow, service
  <2>1. /\ rows[activeSession.id] = activeSession.row
        /\ activeSession.row.status = "active"
        /\ activeSession.id \in SessionId /\ activeSession.row # NoSession
    BY RowsOfSessions DEF IInv, TypeOK, CacheIsSound, CacheMatchesRow
  <2>2. activeSession.id # i
    BY <1>1, <2>1 DEF ActiveIds, ActiveIdsOf
  <2> QED BY <1>2, <2>1, <2>2
<1>5. ActiveGameOfSession' /\ NoInheritedAbsence' /\ ActiveRowIsCached'
  BY <1>1, <1>2
     DEF IInv, ActiveGameOfSession, NoInheritedAbsence, ActiveRowIsCached, IsCached, service
<1> QED BY <1>3, <1>4, <1>5 DEF IInv

(* Starting a session for a known game while no session is cached, by a    *)
(* client or by a poll.                                                    *)
LEMMA StartedSessionKeepsInv ==
  ASSUME IInv, TypeOK', GamesAreKeyed',
         NEW i \in SessionId, NEW g \in GameId, NEW game, NEW queryFails \in BOOLEAN,
         activeSession = NoSession, ~ hasOtherActiveSession(0, queryFails), running,
         rows' = [rows EXCEPT ![i] = AutomaticRow(g)],
         Associate(i, AutomaticRow(g), game), game # NoGame => game.id = g,
         Failing(queryFails, FALSE)
  PROVE  IInv'
<1>1. /\ AutomaticRow(g) \in Row
      /\ AutomaticRow(g).status = "active" /\ AutomaticRow(g).game = g
  BY StartedRow DEF IInv, TypeOK
<1>2. rows'[i] = AutomaticRow(g) /\ ActiveIds' = ActiveIds \cup {i}
  BY <1>1, WrittenRow DEF IInv, TypeOK
<1>3. faults'.query = 0 => faults.query = 0
  BY FailuresCounted DEF IInv
<1>4. faults'.query = 0 => ActiveIds' \subseteq {i}
  BY <1>2, <1>3 DEF IInv, ActiveRowIsCached, IsCached
<1> QED BY <1>1, <1>2, <1>4, AssociatedKeepsInv

LEMMA StartAutomaticSessionKeepsInv ==
  ASSUME IInv, NEW g \in GameId, NEW queryFails \in BOOLEAN,
         StartAutomaticSession(g, queryFails)
  PROVE  IInv'
<1>1. PICK i \in SessionId :
        /\ rows' = [rows EXCEPT ![i] = AutomaticRow(g)]
        /\ Associate(i, AutomaticRow(g), findById(g))
  BY DEF StartAutomaticSession
<1>2. /\ UNCHANGED <<games, indexes, tracker, running, world>>
      /\ running /\ activeSession = NoSession
      /\ ~ hasOtherActiveSession(0, queryFails) /\ Failing(queryFails, FALSE)
      /\ findById(g) \in Game /\ findById(g).id = g
  BY DEF StartAutomaticSession, IInv, TypeOK, GamesAreKeyed, findById
<1>3. AutomaticRow(g) \in Row
  BY StartedRow DEF IInv, TypeOK
<1>4. /\ rows' \in [SessionId -> Row \cup {NoSession}]
      /\ activeSession' \in Session /\ activeGame' \in Game
      /\ faults' \in [query : Nat, write : Nat]
  <2>1. rows' \in [SessionId -> Row \cup {NoSession}]
    BY <1>1, <1>3, WrittenRow DEF IInv, TypeOK
  <2>2. activeSession' \in Session /\ activeGame' \in Game
    BY <1>1, <1>2, <1>3, CachedSession
  <2>3. faults' \in [query : Nat, write : Nat]
    BY <1>2, FailuresCounted DEF IInv
  <2> QED BY <2>1, <2>2, <2>3
<1>5. TypeOK' /\ GamesAreKeyed'
  BY <1>2, <1>4 DEF IInv, TypeOK, GamesAreKeyed, indexes, world
<1> QED BY <1>1, <1>2, <1>5, StartedSessionKeepsInv

(* Ending the cached session, by a client or by a poll.                    *)
LEMMA EndedSessionKeepsInv ==
  ASSUME IInv, CanEndActiveSession, endActiveSession,
         UNCHANGED <<games, indexes, running, world, faults>>
  PROVE  IInv'
<1>1. /\ activeSession.id \in SessionId /\ activeSession.row \in Row
      /\ now \in Time /\ activeSession # NoSession
  BY RowsOfSessions DEF CanEndActiveSession, IInv, TypeOK
<1>2. Completed \in Row /\ Completed.status # "active"
  BY <1>1, EndedRow DEF Completed, Status
<1>3. /\ rows' \in [SessionId -> Row \cup {NoSession}]
      /\ ActiveIds' = ActiveIds \ {activeSession.id}
  BY <1>1, <1>2, WrittenRow DEF endActiveSession, IInv, TypeOK
<1>4. Dissociate
  BY DEF endActiveSession
<1>5. TypeOK' /\ GamesAreKeyed'
  BY <1>3, <1>4, FreshTrackerIsTyped
     DEF IInv, TypeOK, GamesAreKeyed, Dissociate, indexes, world
<1>6. running' /\ faults'.query = 0 => ActiveIds' = {}
  BY <1>3 DEF IInv, ActiveRowIsCached, IsCached
<1> QED BY <1>4, <1>5, <1>6, DissociatedKeepsInv

LEMMA ResetAutomaticTrackingKeepsInv ==
  ASSUME IInv, ResetAutomaticTracking \/ Stop
  PROVE  IInv'
<1>1. /\ tracker' = FreshTracker /\ activeGame' = NoGame
      /\ UNCHANGED <<games, rows, indexes, activeSession, world, faults>>
      /\ running' \in BOOLEAN /\ (running' => running)
  BY DEF ResetAutomaticTracking, Stop, IInv, TypeOK, tables
<1>2. TypeOK' /\ GamesAreKeyed'
  BY <1>1, FreshTrackerIsTyped DEF IInv, TypeOK, GamesAreKeyed, indexes, world
<1>3. CacheIsSound' /\ ActiveGameOfSession' /\ NoInheritedAbsence'
  BY <1>1, FreshTrackerIsTyped
     DEF IInv, CacheIsSound, CacheMatchesRow, ActiveGameOfSession, NoInheritedAbsence
<1>4. ActiveRowIsCached'
  BY <1>1 DEF IInv, ActiveRowIsCached, IsCached, ActiveIds, ActiveIdsOf
<1> QED BY <1>2, <1>3, <1>4 DEF IInv

LEMMA AddOrUpdateGameKeepsInv ==
  ASSUME IInv, NEW g \in GameId, NEW form \in GameForms, NEW queryFails \in BOOLEAN,
         AddGame(g, form, queryFails) \/ UpdateGame(g, form, queryFails)
  PROVE  IInv'
<1>1. /\ games' = [games EXCEPT ![g] = GameOf(g, form)]
      /\ SyncGamesWithDatabase(games', queryFails)
      /\ Failing(queryFails, FALSE)
      /\ UNCHANGED <<rows, service, running, world>>
  BY DEF AddGame, UpdateGame
<1>2. games' \in [GameId -> Game \cup {NoGame}] /\ GamesAreKeyed'
  BY <1>1, FormsOfGames DEF IInv, TypeOK, GamesAreKeyed
<1>3. /\ trackedSteamGames' \in SUBSET Game /\ trackedPathGames' \in SUBSET Game
      /\ faults' \in [query : Nat, write : Nat]
      /\ faults'.query = 0 => faults.query = 0
  <2>1. trackedSteamGames' \in SUBSET Game /\ trackedPathGames' \in SUBSET Game
    BY <1>1, <1>2, RebuiltIndexes
  <2>2. /\ faults' \in [query : Nat, write : Nat]
        /\ faults'.query = 0 => faults.query = 0
    BY <1>1, FailuresCounted DEF IInv
  <2> QED BY <2>1, <2>2
<1>4. TypeOK'
  BY <1>1, <1>2, <1>3 DEF IInv, TypeOK, service, world
<1> QED BY <1>1, <1>2, <1>3, <1>4, UnchangedSessionsKeepInv

LEMMA RemoveGameKeepsInv ==
  ASSUME IInv, NEW g \in GameId, NEW queryFails \in BOOLEAN, RemoveGame(g, queryFails)
  PROVE  IInv'
<1>1. /\ games' = [games EXCEPT ![g] = NoGame]
      /\ rows' = [i \in SessionId |->
                    IF rows[i] # NoSession /\ rows[i].game = g THEN NoSession ELSE rows[i]]
      /\ SyncGamesWithDatabase(games', queryFails)
      /\ Failing(queryFails, FALSE)
      /\ UNCHANGED <<service, running, world>>
      /\ "removeGame" \in ClientCalls
  BY DEF RemoveGame
<1>2. /\ games' \in [GameId -> Game \cup {NoGame}] /\ GamesAreKeyed'
      /\ rows' \in [SessionId -> Row \cup {NoSession}]
      /\ ActiveIds' \subseteq ActiveIds
  BY <1>1 DEF IInv, TypeOK, GamesAreKeyed, ActiveIds, ActiveIdsOf
<1>3. trackedSteamGames' \in SUBSET Game /\ trackedPathGames' \in SUBSET Game
  BY <1>1, <1>2, RebuiltIndexes
<1>4. /\ faults' \in [query : Nat, write : Nat]
      /\ faults'.query = 0 => faults.query = 0
  BY <1>1, FailuresCounted DEF IInv
<1>5. TypeOK'
  BY <1>1, <1>2, <1>3, <1>4 DEF IInv, TypeOK, service, world
<1>6. CacheIsSound' /\ ActiveGameOfSession' /\ NoInheritedAbsence' /\ ActiveRowIsCached'
  BY <1>1, <1>2, <1>4
     DEF IInv, CacheIsSound, ActiveGameOfSession, NoInheritedAbsence, ActiveRowIsCached,
         IsCached, service
<1> QED BY <1>2, <1>5, <1>6 DEF IInv

(* Interrupting some of the active rows leaves the others as they were.    *)
LEMMA InterruptedRows ==
  ASSUME TypeOK, NEW ids \in SUBSET ActiveIds, InterruptRows(ids)
  PROVE  /\ rows' \in [SessionId -> Row \cup {NoSession}]
         /\ ActiveIds' = ActiveIds \ ids
         /\ \A i \in SessionId \ ids : rows'[i] = rows[i]
         /\ \A i \in ids : rows'[i] \in Row /\ rows'[i].status # "active"
<1>1. rows' = [i \in SessionId |-> IF i \in ids THEN Interrupted(rows[i]) ELSE rows[i]]
  BY DEF InterruptRows
<1>2. \A i \in ids : i \in SessionId /\ rows[i] \in Row
  BY DEF ActiveIds, ActiveIdsOf, TypeOK
<1>3. \A i \in ids : /\ Interrupted(rows[i]) \in Row
                     /\ Interrupted(rows[i]).status # "active"
  BY <1>2, InterruptedRow DEF TypeOK
<1>4. /\ \A i \in SessionId \ ids : rows'[i] = rows[i]
      /\ \A i \in ids : rows'[i] \in Row /\ rows'[i].status # "active"
  BY <1>1, <1>2, <1>3
<1>5. rows' \in [SessionId -> Row \cup {NoSession}]
  BY <1>1, <1>3 DEF TypeOK
<1>6. ActiveIds' = ActiveIds \ ids
  BY <1>4, <1>2 DEF ActiveIds, ActiveIdsOf
<1> QED BY <1>4, <1>5, <1>6

LEMMA StartKeepsInv ==
  ASSUME IInv, NEW syncFails \in BOOLEAN, NEW unread, Start(syncFails, unread)
  PROVE  IInv'
<1>1. PICK keep \in SessionId \cup {0} :
        /\ IsKept(keep, unread)
        /\ InterruptRows(ActiveIds \ {keep})
        /\ IF keep = 0
           THEN Dissociate
           ELSE /\ Associate(keep, rows[keep], findById(rows[keep].game))
                /\ tracker' = FreshTracker
  BY DEF Start
<1>2. /\ SyncGamesWithDatabase(games, syncFails)
      /\ Failing(syncFails \/ unread # 0, FALSE)
      /\ UNCHANGED <<games, world>> /\ running' = TRUE
  BY DEF Start
<1>3. /\ rows' \in [SessionId -> Row \cup {NoSession}]
      /\ ActiveIds' = ActiveIds \ (ActiveIds \ {keep})
      /\ \A i \in SessionId \ (ActiveIds \ {keep}) : rows'[i] = rows[i]
  BY <1>1, InterruptedRows DEF IInv
<1>4. trackedSteamGames' \in SUBSET Game /\ trackedPathGames' \in SUBSET Game
  BY <1>2, RebuiltIndexes DEF IInv, TypeOK
<1>5. faults' \in [query : Nat, write : Nat] /\ GamesAreKeyed'
  BY <1>2, FailuresCounted DEF IInv, GamesAreKeyed
<1>6. CASE keep = 0
  <2>1. Dissociate /\ ActiveIds' = {}
    BY <1>1, <1>3, <1>6, BoundAssumption DEF ActiveIds, ActiveIdsOf, SessionId
  <2>2. TypeOK'
    BY <1>2, <1>3, <1>4, <1>5, <2>1, FreshTrackerIsTyped DEF IInv, TypeOK, Dissociate, world
  <2> QED BY <1>5, <2>1, <2>2, DissociatedKeepsInv
<1>7. CASE keep # 0
  <2>1. /\ keep \in ActiveIds /\ keep \in SessionId
        /\ rows[keep] \in Row /\ rows[keep].status = "active"
    BY <1>1, <1>7 DEF IsKept, Restorable, ActiveIds, ActiveIdsOf, IInv, TypeOK
  <2>2. /\ findById(rows[keep].game) \in Game \cup {NoGame}
        /\ findById(rows[keep].game) # NoGame
             => findById(rows[keep].game).id = rows[keep].game
    BY <2>1, RowsOfSessions DEF IInv, TypeOK, findById, GamesAreKeyed
  <2>3. /\ Associate(keep, rows[keep], findById(rows[keep].game))
        /\ tracker' = FreshTracker
    BY <1>1, <1>7
  <2>4. activeSession' \in Session /\ activeGame' \in Game \cup {NoGame}
    BY <2>1, <2>2, <2>3, CachedSession
  <2>5. TypeOK'
    BY <1>2, <1>3, <1>4, <1>5, <2>3, <2>4, FreshTrackerIsTyped DEF IInv, TypeOK, world
  <2>6. rows'[keep] = rows[keep] /\ ActiveIds' \subseteq {keep}
    BY <1>3, <2>1
  <2> QED BY <1>5, <2>1, <2>2, <2>3, <2>5, <2>6, AssociatedKeepsInv
<1> QED BY <1>6, <1>7

LEMMA StartUnrestoredKeepsInv ==
  ASSUME IInv, NEW syncFails \in BOOLEAN, StartUnrestored(syncFails)
  PROVE  IInv'
<1>1. /\ SyncGamesWithDatabase(games, syncFails) /\ Dissociate
      /\ Failing(TRUE, FALSE)
      /\ UNCHANGED <<games, rows, world>> /\ running' = TRUE
  BY DEF StartUnrestored, tables
<1>2. trackedSteamGames' \in SUBSET Game /\ trackedPathGames' \in SUBSET Game
  BY <1>1, RebuiltIndexes DEF IInv, TypeOK
<1>3. faults' \in [query : Nat, write : Nat] /\ faults'.query # 0
  BY <1>1, FailuresCounted DEF IInv
<1>4. TypeOK' /\ GamesAreKeyed'
  BY <1>1, <1>2, <1>3, FreshTrackerIsTyped DEF IInv, TypeOK, GamesAreKeyed, Dissociate, world
<1> QED BY <1>1, <1>3, <1>4, DissociatedKeepsInv

LEMMA StartRefusedKeepsInv ==
  ASSUME IInv, NEW syncFails \in BOOLEAN, NEW unread, StartRefused(syncFails, unread)
  PROVE  IInv'
<1>1. PICK keep \in SessionId \cup {0}, failed \in ActiveIds :
        InterruptRows({i \in ActiveIds \ {keep} : Before(i, failed)})
  BY DEF StartRefused
<1>2. /\ SyncGamesWithDatabase(games, syncFails) /\ Dissociate
      /\ Failing(syncFails \/ unread # 0, TRUE)
      /\ UNCHANGED <<games, running, world>> /\ running = FALSE
  BY DEF StartRefused, IInv, TypeOK
<1>3. rows' \in [SessionId -> Row \cup {NoSession}]
  BY <1>1, InterruptedRows DEF IInv
<1>4. trackedSteamGames' \in SUBSET Game /\ trackedPathGames' \in SUBSET Game
  BY <1>2, RebuiltIndexes DEF IInv, TypeOK
<1>5. faults' \in [query : Nat, write : Nat]
  BY <1>2, FailuresCounted DEF IInv
<1>6. TypeOK' /\ GamesAreKeyed'
  BY <1>2, <1>3, <1>4, <1>5, FreshTrackerIsTyped
     DEF IInv, TypeOK, GamesAreKeyed, Dissociate, world
<1> QED BY <1>2, <1>6, DissociatedKeepsInv

LEMMA ExitKeepsInv ==
  ASSUME IInv, Exit
  PROVE  IInv'
<1>1. /\ Dissociate /\ running' = FALSE
      /\ trackedSteamGames' = {} /\ trackedPathGames' = {}
      /\ UNCHANGED <<games, rows, world, faults>>
  BY DEF Exit, tables
<1>2. TypeOK' /\ GamesAreKeyed'
  BY <1>1, FreshTrackerIsTyped DEF IInv, TypeOK, GamesAreKeyed, Dissociate, world
<1> QED BY <1>1, <1>2, DissociatedKeepsInv

(* What a poll knows when it decides: a start is decided only without a    *)
(* session and for an indexed game, a stop only with a session, and the    *)
(* game the tracker is given is the game of the cached session.            *)
LEMMA PollDecision ==
  ASSUME IInv, CanTrack
  PROVE  /\ Advance.tracker \in Tracker
         /\ Advance.action = "Start" => activeSession = NoSession /\ Advance.game \in Game
         /\ Advance.action = "Stop" => activeSession # NoSession
         /\ activeSession = NoSession => Advance.tracker.closed = tracker.closed
         /\ RehydratedGame \in Game \cup {NoGame}
         /\ RehydratedGame # NoGame => /\ activeSession # NoSession
                                       /\ RehydratedGame.id = activeSession.row.game
<1> DEFINE seen == annotate(processes, trackedSteamGames)
           watched == IF activeSession = NoSession THEN NoGame ELSE RehydratedGame
<1>1. /\ tracker \in Tracker /\ PollInterval \in Int
      /\ trackedSteamGames \in SUBSET Game /\ trackedPathGames \in SUBSET Game
  BY BoundAssumption DEF IInv, TypeOK
<1>2. Advance = advance(tracker, seen, PollInterval, watched,
                        trackedSteamGames, trackedPathGames)
  BY DEF Advance
<1>3. Candidates(seen, trackedSteamGames, trackedPathGames) \subseteq Game
  BY <1>1, CandidatesAreIndexed
<1>4. watched = NoGame <=> activeSession = NoSession
  BY DEF CanTrack
<1>5. activeSession # NoSession => activeSession.row.game \in GameId
  BY RowsOfSessions DEF IInv, TypeOK
<1>6. /\ RehydratedGame \in Game \cup {NoGame}
      /\ RehydratedGame # NoGame => /\ activeSession # NoSession
                                    /\ RehydratedGame.id = activeSession.row.game
  BY <1>5 DEF RehydratedGame, IInv, TypeOK, ActiveGameOfSession, findById, GamesAreKeyed
<1> HIDE DEF seen, watched
<1>7. /\ Advance.tracker \in Tracker
      /\ Advance.action = "Start" =>
           /\ watched = NoGame
           /\ Advance.game \in Candidates(seen, trackedSteamGames, trackedPathGames)
      /\ Advance.action = "Stop" => watched # NoGame
      /\ watched = NoGame => Advance.tracker.closed = tracker.closed
  BY <1>1, <1>2, AdvanceOutcome
<1> QED BY <1>3, <1>4, <1>6, <1>7

LEMMA PollKeepsInv ==
  ASSUME IInv, Poll
  PROVE  IInv'
<1>1. CASE PollUndecided \/ PollFailsToStart \/ PollFailsToStop
  <2>1. /\ tracker' = Advance.tracker /\ activeGame' \in {activeGame, RehydratedGame}
        /\ UNCHANGED <<games, rows, indexes, activeSession, running, world>>
    BY <1>1, PollDecision DEF PollUndecided, PollFailsToStart, PollFailsToStop, tables
  <2>2. /\ faults' \in [query : Nat, write : Nat]
        /\ faults'.query = 0 => faults.query = 0
    BY <1>1, FailuresCounted
       DEF PollUndecided, PollFailsToStart, PollFailsToStop, CanStartDetected,
           CanEndActiveSession, hasOtherActiveSession, IInv, TypeOK
  <2>3. CanTrack
    BY <1>1 DEF PollUndecided, PollFailsToStart, PollFailsToStop
  <2>4. TypeOK' /\ GamesAreKeyed'
    BY <2>1, <2>2, <2>3, PollDecision DEF IInv, TypeOK, GamesAreKeyed, indexes, world
  <2>5. ActiveGameOfSession' /\ NoInheritedAbsence'
    BY <2>1, <2>3, PollDecision DEF IInv, ActiveGameOfSession, NoInheritedAbsence
  <2>6. CacheIsSound' /\ ActiveRowIsCached'
    BY <2>1, <2>2
       DEF IInv, CacheIsSound, CacheMatchesRow, ActiveRowIsCached, IsCached, ActiveIds, ActiveIdsOf
  <2> QED BY <2>4, <2>5, <2>6 DEF IInv
<1>2. CASE \E queryFails \in BOOLEAN : PollStarts(queryFails)
  <2>1. PICK queryFails \in BOOLEAN : PollStarts(queryFails)
    BY <1>2
  <2> DEFINE g == Advance.game.id
  <2>2. PICK i \in SessionId : /\ rows' = [rows EXCEPT ![i] = AutomaticRow(g)]
                               /\ Associate(i, AutomaticRow(g), Advance.game)
    BY <2>1 DEF PollStarts
  <2>3. /\ activeSession = NoSession /\ running
        /\ ~ hasOtherActiveSession(0, queryFails) /\ Failing(queryFails, FALSE)
        /\ Advance.game \in Game /\ g \in GameId
        /\ tracker' = Advance.tracker /\ Advance.tracker \in Tracker
        /\ UNCHANGED <<games, indexes, running, world>>
    BY <2>1, PollDecision DEF PollStarts, CanTrack, CanStartDetected, Game
  <2>4. AutomaticRow(g) \in Row
    BY <2>3, StartedRow DEF IInv, TypeOK
  <2>5. rows' \in [SessionId -> Row \cup {NoSession}]
    BY <2>2, <2>4, WrittenRow DEF IInv, TypeOK
  <2>6. activeSession' \in Session /\ activeGame' \in Game
    BY <2>2, <2>3, <2>4, CachedSession
  <2>7. faults' \in [query : Nat, write : Nat]
    BY <2>3, FailuresCounted DEF IInv
  <2>8. TypeOK' /\ GamesAreKeyed'
    BY <2>3, <2>5, <2>6, <2>7 DEF IInv, TypeOK, GamesAreKeyed, indexes, world
  <2> HIDE DEF g
  <2>9. Advance.game # NoGame => Advance.game.id = g
    BY DEF g
  <2> QED BY <2>2, <2>3, <2>8, <2>9, StartedSessionKeepsInv
<1>3. CASE PollStops
  BY <1>3, EndedSessionKeepsInv DEF PollStops
<1> QED BY <1>1, <1>2, <1>3 DEF Poll

LEMMA EventsKeepInv ==
  ASSUME IInv, ProcessesChange \/ ClockTicks \/ ClockStepsBack
  PROVE  IInv'
<1>1. /\ UNCHANGED <<games, rows, indexes, service, running, faults>>
      /\ processes' \in SUBSET Processes /\ now' \in Time
  BY BoundAssumption
     DEF ProcessesChange, ClockTicks, ClockStepsBack, tables, Time, IInv, TypeOK
<1>2. TypeOK' /\ GamesAreKeyed'
  BY <1>1 DEF IInv, TypeOK, GamesAreKeyed, indexes, service
<1> QED BY <1>1, <1>2, UnchangedSessionsKeepInv

LEMMA StutteringKeepsInv ==
  ASSUME IInv, UNCHANGED vars
  PROVE  IInv'
<1>1. TypeOK' /\ GamesAreKeyed'
  BY DEF IInv, TypeOK, GamesAreKeyed, vars, tables, indexes, service, world
<1> QED BY <1>1, UnchangedSessionsKeepInv DEF vars, tables

LEMMA CallsKeepInv ==
  ASSUME IInv, CallOrEvent
  PROVE  IInv'
<1>1. CASE SessionCall
  <2>1. PICK queryFails \in BOOLEAN :
          \/ \E r \in RowInputs : \/ AddSession(r, queryFails)
                                  \/ \E i \in SessionId : UpdateSession(i, r, queryFails)
          \/ \E g \in GameId : StartAutomaticSession(g, queryFails)
    BY <1>1 DEF SessionCall
  <2>2. RowInputs \subseteq Row
    BY DEF RowInputs
  <2>3. CASE \E r \in RowInputs : AddSession(r, queryFails)
    BY <2>2, <2>3, AddSessionKeepsInv
  <2>4. CASE \E r \in RowInputs, i \in SessionId : UpdateSession(i, r, queryFails)
    BY <2>2, <2>4, UpdateSessionKeepsInv
  <2>5. CASE \E g \in GameId : StartAutomaticSession(g, queryFails)
    BY <2>5, StartAutomaticSessionKeepsInv
  <2> QED BY <2>1, <2>3, <2>4, <2>5
<1>2. CASE \E i \in SessionId : RemoveSession(i)
  BY <1>2, RemoveSessionKeepsInv
<1>3. CASE EndActiveSession
  BY <1>3, EndedSessionKeepsInv DEF EndActiveSession
<1>4. CASE ResetAutomaticTracking \/ Stop
  BY <1>4, ResetAutomaticTrackingKeepsInv
<1>5. CASE GameCall
  <2>1. PICK g \in GameId, queryFails \in BOOLEAN :
          \/ \E form \in GameForms : \/ AddGame(g, form, queryFails)
                                     \/ UpdateGame(g, form, queryFails)
          \/ RemoveGame(g, queryFails)
    BY <1>5 DEF GameCall
  <2> QED BY <2>1, AddOrUpdateGameKeepsInv, RemoveGameKeepsInv
<1>6. CASE Starting
  <2>1. PICK syncFails \in BOOLEAN :
          \/ \E unread \in ActiveIds \cup {0} : \/ Start(syncFails, unread)
                                                \/ StartRefused(syncFails, unread)
          \/ StartUnrestored(syncFails)
    BY <1>6 DEF Starting
  <2> QED BY <2>1, StartKeepsInv, StartRefusedKeepsInv, StartUnrestoredKeepsInv
<1>7. CASE Exit
  BY <1>7, ExitKeepsInv
<1>8. CASE ProcessesChange \/ ClockTicks \/ ClockStepsBack
  BY <1>8, EventsKeepInv
<1> QED BY <1>1, <1>2, <1>3, <1>4, <1>5, <1>6, <1>7, <1>8 DEF CallOrEvent

LEMMA InvariantHolds == Spec => []IInv
<1>1. IInv /\ [Next]_vars => IInv'
  BY CallsKeepInv, PollKeepsInv, StutteringKeepsInv DEF Next
<1> QED BY <1>1, InitEstablishesInv, PTL DEF Spec

-----------------------------------------------------------------------------
(* The tables, the indexes, the cache and the tracker hold well-formed     *)
(* values after every call, poll, failure, exit and restart.               *)
THEOREM TypeCorrect == Spec => []TypeOK
<1>1. IInv => TypeOK
  BY DEF IInv
<1> QED BY <1>1, InvariantHolds, PTL

(* As long as no client removes games, the cached session is the active    *)
(* row of the database field for field: ending it ends that row and no     *)
(* other, through every interleaving of calls, polls, failed queries and   *)
(* writes, exits and restarts, with the unique index and without it.       *)
THEOREM CacheIsTheActiveRow ==
  ASSUME "removeGame" \notin ClientCalls
  PROVE  Spec => []CacheMatchesRow
<1>1. IInv => CacheMatchesRow
  BY DEF IInv, CacheIsSound
<1> QED BY <1>1, InvariantHolds, PTL

(* The tracker is never given a game that is not the game of the cached    *)
(* session, even when games are edited and removed under the service.      *)
THEOREM TrackedGameIsTheSessionsGame == Spec => []ActiveGameOfSession
<1>1. IInv => ActiveGameOfSession
  BY DEF IInv
<1> QED BY <1>1, InvariantHolds, PTL

(* No session begins with an absence timed for an earlier one: every way   *)
(* of losing the active session clears the end timer.                      *)
THEOREM AbsenceIsNotInherited == Spec => []NoInheritedAbsence
<1>1. IInv => NoInheritedAbsence
  BY DEF IInv
<1> QED BY <1>1, InvariantHolds, PTL

(* While the runtime runs and no query has failed, every active row is the *)
(* cached one: no row the service has forgotten blocks later starts, even  *)
(* on a database that lacks the unique index and held several active rows. *)
THEOREM NoActiveRowIsForgotten == Spec => []ActiveRowIsCached
<1>1. IInv => ActiveRowIsCached
  BY DEF IInv
<1> QED BY <1>1, InvariantHolds, PTL

(* The service's own checks and the repair at its start keep at most one   *)
(* row active, whether or not the database enforces it, as long as no      *)
(* query fails.                                                            *)
THEOREM OneActiveSession == Spec => []AtMostOneActive
<1>1. IInv => AtMostOneActive
  BY DEF IInv, ActiveRowIsCached, AtMostOneActive, IsCached
<1> QED BY <1>1, InvariantHolds, PTL

-----------------------------------------------------------------------------
(***************************************************************************)
(* SessionService implements SessionLifecycle: on a database with the      *)
(* unique index, and as long as no client removes games, every step of the *)
(* system is one step of one session's life, or none.                      *)
(*                                                                         *)
(* The argument has two halves.  Every action changes the sessions table   *)
(* in one of three ways (RowStep): not at all, by writing one row the      *)
(* index accepts, or by deleting one row that is not active.  And each of  *)
(* the three maps to a step of the abstract specification or to none.  The *)
(* invariant that carries it is the uniqueness of the active row, which is *)
(* also why the repair at start-up interrupts one row at most.             *)
(***************************************************************************)

OneActiveRow == \A i, j \in ActiveIds : i = j

RInv == IInv /\ OneActiveRow

Written(i, r) == /\ rows' = [rows EXCEPT ![i] = r]
                 /\ r.status = "active" => ActiveIds \subseteq {i}

Deleted(i) == /\ rows[i] # NoSession /\ i \notin ActiveIds
              /\ rows' = [rows EXCEPT ![i] = NoSession]

RowStep == \/ rows' = rows
           \/ \E i \in SessionId, r \in Row : Written(i, r)
           \/ \E i \in SessionId : Deleted(i)

-----------------------------------------------------------------------------
(* What the schema accepts as an active row is the only one.               *)
LEMMA AcceptedRow ==
  ASSUME OneActiveIndex, NEW i, NEW r, Writable(i, r)
  PROVE  r.status = "active" => ActiveIds \subseteq {i}
BY DEF Writable, SatisfiesSchema

LEMMA RepairIsARowStep ==
  ASSUME RInv, NEW ids \in SUBSET ActiveIds, InterruptRows(ids)
  PROVE  RowStep
<1>1. rows' = [i \in SessionId |-> IF i \in ids THEN Interrupted(rows[i]) ELSE rows[i]]
  BY DEF InterruptRows
<1>2. CASE ids = {}
  <2>1. rows' = rows
    BY <1>1, <1>2 DEF RInv, IInv, TypeOK
  <2> QED BY <2>1 DEF RowStep
<1>3. CASE ids # {}
  <2>1. PICK i \in ids : TRUE
    BY <1>3
  <2>2. /\ ids = {i} /\ i \in SessionId /\ rows[i] \in Row
    BY <2>1 DEF RInv, OneActiveRow, IInv, TypeOK, ActiveIds, ActiveIdsOf
  <2>3. Interrupted(rows[i]) \in Row /\ Interrupted(rows[i]).status # "active"
    BY <2>2, InterruptedRow DEF RInv, IInv, TypeOK
  <2>4. rows' = [rows EXCEPT ![i] = Interrupted(rows[i])]
    BY <1>1, <2>2 DEF RInv, IInv, TypeOK
  <2> QED BY <2>2, <2>3, <2>4 DEF RowStep, Written
<1> QED BY <1>2, <1>3

LEMMA SessionCallIsARowStep ==
  ASSUME RInv, OneActiveIndex, SessionCall
  PROVE  RowStep
<1>1. PICK queryFails \in BOOLEAN :
        \/ \E r \in RowInputs : \/ AddSession(r, queryFails)
                                \/ \E i \in SessionId : UpdateSession(i, r, queryFails)
        \/ \E g \in GameId : StartAutomaticSession(g, queryFails)
  BY DEF SessionCall
<1>2. CASE \E r \in RowInputs : \/ AddSession(r, queryFails)
                                \/ \E i \in SessionId : UpdateSession(i, r, queryFails)
  <2>1. PICK r \in RowInputs, i \in SessionId :
          Writable(i, r) /\ rows' = [rows EXCEPT ![i] = r]
    BY <1>2 DEF AddSession, UpdateSession
  <2> QED BY <2>1, AcceptedRow DEF RowStep, Written, RowInputs
<1>3. CASE \E g \in GameId : StartAutomaticSession(g, queryFails)
  <2>1. PICK g \in GameId, i \in SessionId :
          /\ Writable(i, AutomaticRow(g))
          /\ rows' = [rows EXCEPT ![i] = AutomaticRow(g)]
    BY <1>3 DEF StartAutomaticSession
  <2>2. AutomaticRow(g) \in Row
    BY StartedRow DEF RInv, IInv, TypeOK
  <2> QED BY <2>1, <2>2, AcceptedRow DEF RowStep, Written
<1> QED BY <1>1, <1>2, <1>3

LEMMA EndIsARowStep ==
  ASSUME RInv, OneActiveIndex, CanEndActiveSession, endActiveSession
  PROVE  RowStep
<1>1. /\ activeSession.id \in SessionId /\ activeSession.row \in Row /\ now \in Time
  BY RowsOfSessions DEF CanEndActiveSession, RInv, IInv, TypeOK
<1>2. Completed \in Row
  BY <1>1, EndedRow DEF Completed, Status
<1>3. Written(activeSession.id, Completed)
  BY AcceptedRow DEF CanEndActiveSession, endActiveSession, Written
<1> QED BY <1>1, <1>2, <1>3 DEF RowStep

LEMMA PollIsARowStep ==
  ASSUME RInv, OneActiveIndex, Poll
  PROVE  RowStep
<1>1. CASE PollUndecided \/ PollFailsToStart \/ PollFailsToStop
  BY <1>1 DEF PollUndecided, PollFailsToStart, PollFailsToStop, tables, RowStep
<1>2. CASE \E queryFails \in BOOLEAN : PollStarts(queryFails)
  <2>1. PICK queryFails \in BOOLEAN : PollStarts(queryFails)
    BY <1>2
  <2>2. PICK i \in SessionId :
          /\ Writable(i, AutomaticRow(Advance.game.id))
          /\ rows' = [rows EXCEPT ![i] = AutomaticRow(Advance.game.id)]
    BY <2>1 DEF PollStarts
  <2>3. Advance.game.id \in GameId
    BY <2>1, PollDecision DEF PollStarts, RInv, Game
  <2>4. AutomaticRow(Advance.game.id) \in Row
    BY <2>3, StartedRow DEF RInv, IInv, TypeOK
  <2> QED BY <2>2, <2>4, AcceptedRow DEF RowStep, Written
<1>3. CASE PollStops
  BY <1>3, EndIsARowStep DEF PollStops
<1> QED BY <1>1, <1>2, <1>3 DEF Poll

LEMMA EveryStepIsARowStep ==
  ASSUME RInv, OneActiveIndex, "removeGame" \notin ClientCalls, [Next]_vars
  PROVE  RowStep
<1>1. CASE SessionCall
  BY <1>1, SessionCallIsARowStep
<1>2. CASE \E i \in SessionId : RemoveSession(i)
  BY <1>2 DEF RemoveSession, IsActive, ActiveIds, ActiveIdsOf, Deleted, RowStep
<1>3. CASE EndActiveSession
  BY <1>3, EndIsARowStep DEF EndActiveSession
<1>4. CASE GameCall
  <2>1. rows' = rows
    BY <1>4 DEF GameCall, AddGame, UpdateGame, RemoveGame
  <2> QED BY <2>1 DEF RowStep
<1>5. CASE Starting
  <2>1. PICK syncFails \in BOOLEAN :
          \/ \E unread \in ActiveIds \cup {0} : \/ Start(syncFails, unread)
                                                \/ StartRefused(syncFails, unread)
          \/ StartUnrestored(syncFails)
    BY <1>5 DEF Starting
  <2>2. CASE StartUnrestored(syncFails)
    BY <2>2 DEF StartUnrestored, tables, RowStep
  <2>3. CASE \E unread \in ActiveIds \cup {0} : \/ Start(syncFails, unread)
                                                \/ StartRefused(syncFails, unread)
    <3>1. PICK ids \in SUBSET ActiveIds : InterruptRows(ids)
      <4>1. CASE \E unread \in ActiveIds \cup {0} : Start(syncFails, unread)
        BY <4>1 DEF Start
      <4>2. CASE \E unread \in ActiveIds \cup {0} : StartRefused(syncFails, unread)
        BY <4>2 DEF StartRefused
      <4> QED BY <2>3, <4>1, <4>2
    <3> QED BY <3>1, RepairIsARowStep
  <2> QED BY <2>1, <2>2, <2>3
<1>6. CASE Poll
  BY <1>6, PollIsARowStep
<1>7. CASE \/ ResetAutomaticTracking \/ Stop \/ Exit
           \/ ProcessesChange \/ ClockTicks \/ ClockStepsBack
           \/ UNCHANGED vars
  BY <1>7
     DEF ResetAutomaticTracking, Stop, Exit, ProcessesChange, ClockTicks, ClockStepsBack,
         vars, tables, RowStep
<1> QED BY <1>1, <1>2, <1>3, <1>4, <1>5, <1>6, <1>7 DEF Next, CallOrEvent

-----------------------------------------------------------------------------
(* The invariant: the active row stays the only one.                       *)
LEMMA InitHasOneActiveRow ==
  ASSUME OneActiveIndex, Init
  PROVE  RInv
<1>1. PICK t \in InitialTables : rows = t.rows
  BY DEF Init
<1>2. OneActiveRow
  BY <1>1, TablesAssumption DEF OneActiveRow, ActiveIds
<1> QED BY <1>2, InitEstablishesInv DEF RInv

LEMMA RowStepKeepsOneActiveRow ==
  ASSUME TypeOK, OneActiveRow, RowStep
  PROVE  OneActiveRow'
<1>1. CASE rows' = rows
  BY <1>1 DEF OneActiveRow, ActiveIds, ActiveIdsOf
<1>2. CASE \E i \in SessionId, r \in Row : Written(i, r)
  <2>1. PICK i \in SessionId, r \in Row : Written(i, r)
    BY <1>2
  <2>2. /\ rows'[i] = r
        /\ \A j \in SessionId \ {i} : rows'[j] = rows[j]
    BY <2>1, WrittenRow DEF Written, TypeOK
  <2>3. CASE r.status = "active"
    <3>1. ActiveIds' \subseteq {i}
      BY <2>1, <2>2, <2>3 DEF Written, ActiveIds, ActiveIdsOf
    <3> QED BY <3>1 DEF OneActiveRow
  <2>4. CASE r.status # "active"
    <3>1. ActiveIds' \subseteq ActiveIds
      BY <2>2, <2>4 DEF ActiveIds, ActiveIdsOf
    <3> QED BY <3>1 DEF OneActiveRow
  <2> QED BY <2>3, <2>4
<1>3. CASE \E i \in SessionId : Deleted(i)
  <2>1. PICK i \in SessionId : Deleted(i)
    BY <1>3
  <2>2. /\ rows'[i] = NoSession
        /\ \A j \in SessionId \ {i} : rows'[j] = rows[j]
    BY <2>1 DEF Deleted, TypeOK
  <2>3. ActiveIds' \subseteq ActiveIds
    BY <2>2 DEF ActiveIds, ActiveIdsOf
  <2> QED BY <2>3 DEF OneActiveRow
<1> QED BY <1>1, <1>2, <1>3 DEF RowStep

-----------------------------------------------------------------------------
(* The refinement mapping.                                                 *)
Phases == [i \in SessionId |-> Phase(rows[i])]

LEMMA LiveIsActive ==
  ASSUME TypeOK
  PROVE  Lifecycle!Live = ActiveIds
<1>1. \A i \in SessionId : Phases[i] = "live" <=> i \in ActiveIds
  BY DEF Phases, Phase, ActiveIds, ActiveIdsOf
<1>2. ActiveIds \subseteq SessionId
  BY DEF ActiveIds, ActiveIdsOf
<1> QED BY <1>1, <1>2 DEF Lifecycle!Live, Phases

LEMMA InitIsMapped ==
  ASSUME TypeOK, OneActiveRow
  PROVE  Lifecycle!Init
<1>1. Phases \in [SessionId -> Lifecycle!Phase]
  BY DEF Phases, Phase, Lifecycle!Phase
<1>2. \A i, j \in Lifecycle!Live : i = j
  BY LiveIsActive DEF OneActiveRow
<1> QED BY <1>1, <1>2 DEF Lifecycle!Init, Phases

LEMMA RowStepIsMapped ==
  ASSUME TypeOK, RowStep
  PROVE  [Lifecycle!Next]_Phases
<1>1. CASE rows' = rows
  BY <1>1 DEF Phases, Phase
<1>2. CASE \E i \in SessionId, r \in Row : Written(i, r)
  <2>1. PICK i \in SessionId, r \in Row : Written(i, r)
    BY <1>2
  <2>2. /\ rows'[i] = r /\ r # NoSession
        /\ \A j \in SessionId \ {i} : rows'[j] = rows[j]
    BY <2>1, WrittenRow, NoSessionAssumption DEF Written, TypeOK
  <2>3. Phases' = [Phases EXCEPT ![i] = Phase(r)]
    BY <2>2 DEF Phases, Phase
  <2>4. CASE r.status = "active"
    <3>1. Phase(r) = "live"
      BY <2>2, <2>4 DEF Phase
    <3>2. Lifecycle!Live \subseteq {i}
      BY <2>1, <2>4, LiveIsActive DEF Written
    <3>3. CASE i \in ActiveIds
      <4>1. Phases[i] = "live"
        BY <3>3 DEF Phases, Phase, ActiveIds, ActiveIdsOf
      <4> QED BY <2>3, <3>1, <4>1 DEF Phases
    <3>4. CASE i \notin ActiveIds
      <4>1. Lifecycle!Live = {}
        BY <3>2, <3>4, LiveIsActive
      <4>2. Phases[i] = "absent" \/ Phases[i] = "finished"
        BY <3>4 DEF Phases, Phase, ActiveIds, ActiveIdsOf
      <4>3. Lifecycle!Begin(i) \/ Lifecycle!Reopen(i)
        BY <2>3, <3>1, <4>1, <4>2
           DEF Lifecycle!Begin, Lifecycle!Reopen, Lifecycle!Become, Phases
      <4> QED BY <4>3 DEF Lifecycle!Next
    <3> QED BY <3>3, <3>4
  <2>5. CASE r.status # "active"
    <3>1. Phase(r) = "finished"
      BY <2>2, <2>5 DEF Phase
    <3>2. Phases[i] = "absent" \/ Phases[i] = "live" \/ Phases[i] = "finished"
      BY DEF Phases, Phase
    <3>3. CASE Phases[i] = "finished"
      BY <2>3, <3>1, <3>3 DEF Phases
    <3>4. CASE Phases[i] # "finished"
      <4>1. Lifecycle!Record(i) \/ Lifecycle!Finish(i)
        BY <2>3, <3>1, <3>2, <3>4
           DEF Lifecycle!Record, Lifecycle!Finish, Lifecycle!Become, Phases
      <4> QED BY <4>1 DEF Lifecycle!Next
    <3> QED BY <3>3, <3>4
  <2> QED BY <2>4, <2>5
<1>3. CASE \E i \in SessionId : Deleted(i)
  <2>1. PICK i \in SessionId : Deleted(i)
    BY <1>3
  <2>2. Phases' = [Phases EXCEPT ![i] = "absent"]
    BY <2>1 DEF Deleted, TypeOK, Phases, Phase
  <2>3. Phases[i] = "finished"
    BY <2>1 DEF Deleted, Phases, Phase, ActiveIds, ActiveIdsOf
  <2>4. Lifecycle!Forget(i)
    BY <2>2, <2>3 DEF Lifecycle!Forget, Lifecycle!Become, Phases
  <2> QED BY <2>4 DEF Lifecycle!Next
<1> QED BY <1>1, <1>2, <1>3 DEF RowStep

-----------------------------------------------------------------------------
(* The sessions table, through every call, poll, failure, exit and         *)
(* restart, follows the life cycle GameLog promises: one session changes   *)
(* per step, at most one is live, a live session can only finish and is    *)
(* never deleted or lost.  It takes the unique index, and clients that do  *)
(* not remove games: the foreign key would delete live sessions with them. *)
THEOREM SessionsFollowTheirLifecycle ==
  ASSUME OneActiveIndex, "removeGame" \notin ClientCalls
  PROVE  GraceSpec => LifecycleIsKept
<1>1. GraceInit => RInv
  BY InitHasOneActiveRow DEF GraceInit
<1>2. [GraceNext]_graceVars => [Next]_vars
  BY DEF GraceNext, graceVars, Next
<1>3. RInv /\ [Next]_vars => RInv'
  <2>1. ASSUME RInv, [Next]_vars PROVE OneActiveRow'
    BY <2>1, EveryStepIsARowStep, RowStepKeepsOneActiveRow DEF RInv, IInv
  <2>2. ASSUME RInv, [Next]_vars PROVE IInv'
    BY <2>2, CallsKeepInv, PollKeepsInv, StutteringKeepsInv DEF RInv, Next
  <2> QED BY <2>1, <2>2 DEF RInv
<1>4. RInv => Lifecycle!Init
  BY InitIsMapped DEF RInv, IInv
<1>5. RInv /\ [Next]_vars => [Lifecycle!Next]_Phases
  BY EveryStepIsARowStep, RowStepIsMapped DEF RInv, IInv
<1> QED BY <1>1, <1>2, <1>3, <1>4, <1>5, PTL
        DEF GraceSpec, LifecycleIsKept, Lifecycle!Spec, Phases

-----------------------------------------------------------------------------
(* The end grace period.  The closed timer never runs ahead of the time    *)
(* the session's game has really been missing: the tracker watches a copy  *)
(* of the game that is still what the games table says, and it sees the    *)
(* App IDs that decide about it, because the index of Steam games is never *)
(* empty while a Steam game has a session.                                 *)

\* A catalogue in which App IDs are read whenever one could matter: some Steam
\* game is tracked, or every Steam game is and any that is added will be.
AppsAreRead(table) ==
  \/ \E g \in GameId : table[g] # NoGame /\ table[g].tracked /\ table[g].app # NoApp
  \/ /\ \A g \in GameId : table[g] # NoGame /\ table[g].app # NoApp => table[g].tracked
     /\ \A form \in GameForms : form.app # NoApp => form.tracked

\* The hypotheses: the catalogues GameLog begins with, and the calls GameLog's
\* windows make.
CataloguesAreRead == \A t \in InitialTables : AppsAreRead(t.games)

NoGameIsEdited == ClientCalls \cap {"updateGame", "removeGame", "reassociate"} = {}

IndexesHoldRows ==
  /\ trackedSteamGames \cup trackedPathGames \subseteq GameRows(games)
  /\ running /\ faults.query = 0 => trackedSteamGames = TrackedSteamGames(GameRows(games))

CachedGameIsItsRow == activeGame # NoGame => activeGame = games[activeGame.id]

AbsenceIsCounted == activeSession # NoSession /\ faults.query = 0 => tracker.closed <= absent

\* The part of the invariant that the games table and its indexes decide.
GamesInv == /\ AppsAreRead(games)
            /\ IndexesHoldRows
            /\ CachedGameIsItsRow

GraceInv == /\ IInv
            /\ GamesInv
            /\ absent \in Nat
            /\ AbsenceIsCounted

(* Both indexes hold rows once they have been rebuilt.                     *)
LEMMA RebuiltIndexesHoldRows ==
  ASSUME NEW queryFails \in BOOLEAN, SyncGamesWithDatabase(games', queryFails),
         faults'.query = 0 => ~ queryFails
  PROVE  IndexesHoldRows'
BY DEF SyncGamesWithDatabase, IsPathIndex, TrackedSteamGames, TrackedWithPath, IndexesHoldRows

(* A step that leaves the catalogue and its indexes alone.                 *)
LEMMA UnchangedGamesKeepInv ==
  ASSUME GamesInv, UNCHANGED <<games, indexes>>, running' => running,
         faults'.query = 0 => faults.query = 0,
         activeGame' # NoGame => activeGame' = games[activeGame'.id]
  PROVE  GamesInv'
BY DEF GamesInv, AppsAreRead, IndexesHoldRows, CachedGameIsItsRow, indexes

(* The game a call associates is the row of the games table.               *)
LEMMA FoundGameIsItsRow ==
  ASSUME GamesAreKeyed, NEW g \in GameId, findById(g) # NoGame
  PROVE  findById(g) = games[findById(g).id]
BY DEF GamesAreKeyed, findById

\* What a call or an event does, as far as the count of an absence can tell.
CountSurvives ==
  \/ activeSession' = NoSession
  \/ tracker'.closed = 0
  \/ tracker' = tracker /\ activeSession # NoSession /\ Association' = Association

CallEffect == /\ faults'.query = 0 => faults.query = 0
              /\ GamesInv'
              /\ CountSurvives

LEMMA FreshTrackerCountsNothing == tracker' = FreshTracker => tracker'.closed = 0
BY DEF FreshTracker

(* A call that changes the session begins its timers afresh, unless the    *)
(* session stays with its game.                                            *)
LEMMA SessionCallEffect ==
  ASSUME IInv, GamesInv, NoGameIsEdited, SessionCall
  PROVE  CallEffect
<1>1. PICK queryFails \in BOOLEAN :
        \/ \E r \in RowInputs : \/ AddSession(r, queryFails)
                                \/ \E i \in SessionId : UpdateSession(i, r, queryFails)
        \/ \E g \in GameId : StartAutomaticSession(g, queryFails)
  BY DEF SessionCall
<1>2. /\ UNCHANGED <<games, indexes, running>>
      /\ faults'.query = 0 => faults.query = 0
  BY <1>1, FailuresCounted
     DEF AddSession, UpdateSession, StartAutomaticSession, IInv
<1>3. GamesAreKeyed /\ CacheMatchesRow /\ NoInheritedAbsence /\ CachedGameIsItsRow
  BY DEF IInv, CacheIsSound, NoGameIsEdited, GamesInv
<1>4. ASSUME NEW i, NEW r \in Row, Associate(i, r, findById(r.game))
      PROVE  /\ activeGame' # NoGame => activeGame' = games[activeGame'.id]
             /\ activeSession' = [id |-> i, row |-> r]
  BY <1>3, <1>4, FoundGameIsItsRow, RowsOfSessions DEF Associate
<1>5. CASE \E r \in RowInputs : AddSession(r, queryFails)
  <2>1. PICK r \in RowInputs : AddSession(r, queryFails)
    BY <1>5
  <2>2. \/ UNCHANGED service
        \/ tracker' = FreshTracker /\ \E i \in SessionId : Associate(i, r, findById(r.game))
    BY <2>1 DEF AddSession
  <2>3. r \in Row
    BY DEF RowInputs
  <2>4. activeGame' # NoGame => activeGame' = games[activeGame'.id]
    BY <1>3, <1>4, <2>2, <2>3 DEF service, CachedGameIsItsRow
  <2>5. CountSurvives
    BY <1>3, <2>2, FreshTrackerCountsNothing DEF service, CountSurvives, Association, NoInheritedAbsence
  <2> QED BY <1>2, <2>4, <2>5, UnchangedGamesKeepInv DEF CallEffect
<1>6. CASE \E r \in RowInputs, i \in SessionId : UpdateSession(i, r, queryFails)
  <2>1. PICK r \in RowInputs, i \in SessionId : UpdateSession(i, r, queryFails)
    BY <1>6
  <2>2. r \in Row
    BY DEF RowInputs
  <2>3. \/ UNCHANGED service
        \/ Dissociate
        \/ tracker' = FreshTracker /\ Associate(i, r, findById(r.game))
        \/ UNCHANGED tracker /\ IsActive(i) /\ r.status = "active"
           /\ Associate(i, r, findById(r.game))
    BY <2>1 DEF UpdateSession, UpdateCache
  <2>4. activeGame' # NoGame => activeGame' = games[activeGame'.id]
    BY <1>3, <1>4, <2>2, <2>3 DEF service, CachedGameIsItsRow, Dissociate
  <2>5. CountSurvives
    <3>1. CASE ~ (UNCHANGED tracker /\ IsActive(i) /\ r.status = "active"
                  /\ Associate(i, r, findById(r.game)))
      BY <1>3, <2>3, <3>1, FreshTrackerCountsNothing
         DEF service, Dissociate, CountSurvives, Association, NoInheritedAbsence
    <3>2. CASE activeSession = NoSession /\ UNCHANGED tracker
      BY <1>3, <3>2 DEF CountSurvives, NoInheritedAbsence
    <3>3. CASE /\ activeSession # NoSession /\ UNCHANGED tracker /\ IsActive(i)
               /\ r.status = "active" /\ Associate(i, r, findById(r.game))
      <4>1. IsCached(i) /\ r.game = rows[i].game
        BY <2>1, <3>3 DEF UpdateSession, NoGameIsEdited
      <4>2. activeSession.id = i /\ activeSession.row.game = r.game
        BY <1>3, <3>3, <4>1 DEF IsCached, CacheMatchesRow
      <4>3. /\ activeSession' # NoSession /\ activeSession'.id = i
            /\ activeSession'.row = r
        BY <2>2, <3>3, CachedSession
      <4>4. Association' = Association
        BY <3>3, <4>2, <4>3 DEF Association
      <4> QED BY <3>3, <4>4 DEF CountSurvives
    <3> QED BY <3>1, <3>2, <3>3
  <2> QED BY <1>2, <2>4, <2>5, UnchangedGamesKeepInv DEF CallEffect
<1>7. CASE \E g \in GameId : StartAutomaticSession(g, queryFails)
  <2>1. PICK g \in GameId : StartAutomaticSession(g, queryFails)
    BY <1>7
  <2>2. /\ activeSession = NoSession /\ UNCHANGED tracker
        /\ findById(g) # NoGame /\ activeGame' = findById(g)
    BY <2>1 DEF StartAutomaticSession, Associate
  <2>3. activeGame' # NoGame => activeGame' = games[activeGame'.id]
    BY <1>3, <2>2, FoundGameIsItsRow
  <2>4. CountSurvives
    BY <1>3, <2>2 DEF CountSurvives, NoInheritedAbsence
  <2> QED BY <1>2, <2>3, <2>4, UnchangedGamesKeepInv DEF CallEffect
<1> QED BY <1>1, <1>5, <1>6, <1>7

(* A game that is added leaves every other row, and the cached copy of     *)
(* one, as it was; the key it gets was free.                               *)
LEMMA GameCallEffect ==
  ASSUME IInv, GamesInv, NoGameIsEdited, GameCall
  PROVE  CallEffect
<1>1. PICK g \in GameId, form \in GameForms, queryFails \in BOOLEAN : AddGame(g, form, queryFails)
  BY DEF GameCall, UpdateGame, RemoveGame, NoGameIsEdited
<1>2. /\ games' = [games EXCEPT ![g] = GameOf(g, form)]
      /\ SyncGamesWithDatabase(games', queryFails) /\ Failing(queryFails, FALSE)
      /\ UNCHANGED service
      /\ IsNextKey(g, GameId, {h \in GameId : games[h] # NoGame})
  BY <1>1 DEF AddGame
<1>3. (faults'.query = 0 => ~ queryFails /\ faults.query = 0)
  BY <1>2, FailuresCounted DEF IInv
<1>4. games[g] = NoGame
  <2>1. games[g] # NoGame => g < g
    BY <1>2 DEF IsNextKey
  <2> QED BY <2>1, GameIdAssumption
<1>5. /\ games \in [GameId -> Game \cup {NoGame}] /\ activeGame \in Game \cup {NoGame}
      /\ NoGame \notin Game
  BY NoGameAssumption DEF IInv, TypeOK
<1>6. /\ games'[g] = GameOf(g, form)
      /\ \A h \in GameId \ {g} : games'[h] = games[h]
  BY <1>2, <1>5
<1>7. CachedGameIsItsRow'
  <2>1. activeGame # NoGame => activeGame.id \in GameId /\ activeGame = games[activeGame.id]
    BY <1>5 DEF GamesInv, CachedGameIsItsRow, Game
  <2>2. activeGame # NoGame => activeGame.id # g
    BY <1>4, <2>1
  <2> QED BY <1>2, <1>6, <2>1, <2>2 DEF CachedGameIsItsRow, service
<1>8. IndexesHoldRows'
  BY <1>2, <1>3, RebuiltIndexesHoldRows
<1>9. AppsAreRead(games)'
  <2>1. CASE \E h \in GameId : games[h] # NoGame /\ games[h].tracked /\ games[h].app # NoApp
    BY <1>4, <1>6, <2>1 DEF AppsAreRead
  <2>2. CASE /\ \A h \in GameId : games[h] # NoGame /\ games[h].app # NoApp => games[h].tracked
             /\ \A f \in GameForms : f.app # NoApp => f.tracked
    <3>1. GameOf(g, form).app = form.app /\ GameOf(g, form).tracked = form.tracked
      BY DEF GameOf
    <3>2. form.app # NoApp => form.tracked
      BY <2>2
    <3>3. \A h \in GameId : games'[h] # NoGame /\ games'[h].app # NoApp => games'[h].tracked
      BY <1>6, <2>2, <3>1, <3>2
    <3> QED BY <2>2, <3>3 DEF AppsAreRead
  <2> QED BY <2>1, <2>2 DEF GamesInv, AppsAreRead
<1>10. CountSurvives
  BY <1>2 DEF CountSurvives, service, Association
<1> QED BY <1>3, <1>7, <1>8, <1>9, <1>10 DEF CallEffect, GamesInv

(* A start rebuilds the indexes; what it restores begins with a fresh      *)
(* tracker.                                                                *)
LEMMA StartingEffect ==
  ASSUME IInv, GamesInv, Starting
  PROVE  CallEffect
<1>1. PICK syncFails \in BOOLEAN :
        \/ \E unread \in ActiveIds \cup {0} : \/ Start(syncFails, unread)
                                              \/ StartRefused(syncFails, unread)
        \/ StartUnrestored(syncFails)
  BY DEF Starting
<1>2. games' = games /\ SyncGamesWithDatabase(games, syncFails)
  BY <1>1 DEF Start, StartRefused, StartUnrestored, tables
<1>3. faults'.query = 0 => ~ syncFails /\ faults.query = 0
  <2>1. \E query, write \in BOOLEAN : Failing(query, write) /\ (syncFails => query)
    BY <1>1 DEF Start, StartRefused, StartUnrestored
  <2> QED BY <2>1, FailuresCounted DEF IInv
<1>4. \/ Dissociate
      \/ /\ tracker' = FreshTracker
         /\ \E keep \in ActiveIds : activeGame' = findById(rows[keep].game)
  <2>1. CASE \E unread \in ActiveIds \cup {0} : Start(syncFails, unread)
    <3>1. PICK unread \in ActiveIds \cup {0} : Start(syncFails, unread)
      BY <2>1
    <3>2. PICK keep \in SessionId \cup {0} :
            /\ IsKept(keep, unread)
            /\ IF keep = 0
               THEN Dissociate
               ELSE /\ Associate(keep, rows[keep], findById(rows[keep].game))
                    /\ tracker' = FreshTracker
      BY <3>1 DEF Start
    <3>3. keep # 0 => keep \in ActiveIds
      BY <3>2 DEF IsKept, Restorable
    <3> QED BY <3>2, <3>3 DEF Associate
  <2> QED BY <1>1, <2>1 DEF StartRefused, StartUnrestored
<1>5. CachedGameIsItsRow'
  <2>1. ASSUME NEW keep \in ActiveIds, activeGame' = findById(rows[keep].game)
        PROVE  activeGame' # NoGame => activeGame' = games[activeGame'.id]
    <3>1. rows[keep].game \in GameId
      BY RowsOfSessions DEF ActiveIds, ActiveIdsOf, IInv, TypeOK
    <3> QED BY <2>1, <3>1, FoundGameIsItsRow DEF IInv
  <2> QED BY <1>2, <1>4, <2>1 DEF CachedGameIsItsRow, Dissociate
<1>6. IndexesHoldRows'
  BY <1>2, <1>3, RebuiltIndexesHoldRows
<1>7. AppsAreRead(games)'
  BY <1>2 DEF GamesInv, AppsAreRead
<1>8. CountSurvives
  BY <1>4, FreshTrackerCountsNothing DEF CountSurvives, Dissociate
<1> QED BY <1>3, <1>5, <1>6, <1>7, <1>8 DEF CallEffect, GamesInv

LEMMA CallsKeepTheCount ==
  ASSUME IInv, GamesInv, NoGameIsEdited, CallOrEvent
  PROVE  CallEffect
<1>1. CASE SessionCall \/ GameCall \/ Starting
  BY <1>1, SessionCallEffect, GameCallEffect, StartingEffect
<1>2. CASE Exit
  <2>1. /\ Dissociate /\ running' = FALSE /\ UNCHANGED <<games, faults>>
        /\ trackedSteamGames' = {} /\ trackedPathGames' = {}
    BY <1>2 DEF Exit, tables
  <2>2. GamesInv'
    BY <2>1 DEF Dissociate, GamesInv, AppsAreRead, IndexesHoldRows, CachedGameIsItsRow
  <2> QED BY <2>1, <2>2 DEF Dissociate, CallEffect, CountSurvives
<1>3. CASE \/ \E i \in SessionId : RemoveSession(i)
           \/ EndActiveSession \/ ResetAutomaticTracking \/ Stop
           \/ ProcessesChange \/ ClockTicks \/ ClockStepsBack
  <2>1. /\ UNCHANGED <<games, indexes, faults>>
        /\ running' => running
        /\ activeGame' \in {activeGame, NoGame}
    BY <1>3
       DEF RemoveSession, EndActiveSession, endActiveSession, Dissociate,
           ResetAutomaticTracking, Stop, ProcessesChange, ClockTicks, ClockStepsBack,
           tables, service
  <2>2. \/ UNCHANGED <<activeSession, tracker>>
        \/ activeSession' = NoSession
        \/ tracker' = FreshTracker
    BY <1>3
       DEF RemoveSession, EndActiveSession, endActiveSession, Dissociate,
           ResetAutomaticTracking, Stop, ProcessesChange, ClockTicks, ClockStepsBack, service
  <2>3. GamesInv'
    BY <2>1, UnchangedGamesKeepInv DEF GamesInv, CachedGameIsItsRow
  <2>4. CountSurvives
    BY <2>2, FreshTrackerCountsNothing DEF CountSurvives, Association
  <2> QED BY <2>1, <2>3, <2>4 DEF CallEffect
<1> QED BY <1>1, <1>2, <1>3 DEF CallOrEvent

-----------------------------------------------------------------------------
(* Polls.                                                                  *)

(* The game the tracker watches is the row of the games table.             *)
LEMMA WatchedGameIsItsRow ==
  ASSUME IInv, GamesInv, activeSession # NoSession, RehydratedGame # NoGame
  PROVE  /\ RehydratedGame = games[RehydratedGame.id]
         /\ RehydratedGame = findById(activeSession.row.game)
<1>1. activeSession.row.game \in GameId
  BY RowsOfSessions DEF IInv, TypeOK
<1>2. CASE activeGame = NoGame
  <2>1. RehydratedGame = findById(activeSession.row.game)
    BY <1>2 DEF RehydratedGame
  <2> QED BY <1>1, <2>1, FoundGameIsItsRow DEF IInv
<1>3. CASE activeGame # NoGame
  <2>1. RehydratedGame = activeGame
    BY <1>3 DEF RehydratedGame
  <2> QED BY <1>3, <2>1 DEF IInv, ActiveGameOfSession, GamesInv, CachedGameIsItsRow, findById
<1> QED BY <1>2, <1>3

(* If the session's game really runs, the tracker sees a process of it.    *)
LEMMA RunningGameIsSeen ==
  ASSUME IInv, GamesInv, running, faults.query = 0, activeSession # NoSession,
         RehydratedGame # NoGame, ActiveGameRuns
  PROVE  \E p \in annotate(processes, trackedSteamGames) : processMatchesGame(p, RehydratedGame)
<1> DEFINE g == findById(activeSession.row.game)
<1>1. RehydratedGame = g /\ g # NoGame
  BY WatchedGameIsItsRow DEF ActiveGameRuns
<1>2. PICK p \in processes : processMatchesGame(p, g)
  BY DEF ActiveGameRuns
<1>3. activeSession.row.game \in GameId
  BY RowsOfSessions DEF IInv, TypeOK
<1> HIDE DEF g
<1>4. CASE trackedSteamGames # {}
  BY <1>1, <1>2, <1>4 DEF annotate
<1>5. CASE trackedSteamGames = {}
  <2>1. \A h \in GameId : games[h] # NoGame /\ games[h].app # NoApp => ~ games[h].tracked
    BY <1>5 DEF GamesInv, IndexesHoldRows, TrackedSteamGames, GameRows
  <2>2. g.app = NoApp
    <3>1. \A h \in GameId : games[h] # NoGame /\ games[h].app # NoApp => games[h].tracked
      BY <2>1 DEF GamesInv, AppsAreRead
    <3> QED BY <1>1, <1>3, <2>1, <3>1 DEF findById, g
  <2>3. g.path # NoPath /\ p.path = g.path
    BY <1>2, <2>2 DEF processMatchesGame
  <2> DEFINE q == [p EXCEPT !.app = NoApp]
  <2>4. q \in annotate(processes, trackedSteamGames)
    BY <1>5 DEF annotate
  <2>5. p \in Process
    BY ClientAssumption DEF IInv, TypeOK
  <2>6. q.path = p.path
    BY <2>5 DEF Process
  <2> HIDE DEF q
  <2>7. processMatchesGame(q, g)
    BY <2>2, <2>3, <2>6 DEF processMatchesGame
  <2> QED BY <1>1, <2>4, <2>7
<1> QED BY <1>4, <1>5

(* What a poll does to the closed timer of a session it leaves active, and *)
(* when it may end one.                                                    *)
LEMMA PollCounts ==
  ASSUME IInv, GamesInv, CanTrack, activeSession # NoSession, faults.query = 0,
         absent \in Nat, AbsenceIsCounted, ObservePoll
  PROVE  /\ Advance.tracker.closed <= absent'
         /\ Advance.action = "Stop" => absent' >= EndGracePeriod
<1> DEFINE seen == annotate(processes, trackedSteamGames)
           found == \E p \in seen : processMatchesGame(p, RehydratedGame)
           at(n) == [tracker EXCEPT !.closed = n]
<1>1. /\ PollInterval \in Nat \ {0} /\ EndGracePeriod \in Nat \ {0}
      /\ tracker \in Tracker /\ tracker.closed \in Nat /\ tracker.closed <= absent
  BY BoundAssumption, GracePeriodAssumption DEF IInv, TypeOK, Tracker, AbsenceIsCounted
<1>2. running /\ RehydratedGame # NoGame
  BY DEF CanTrack
<1>3. Advance = advance(tracker, seen, PollInterval, RehydratedGame,
                        trackedSteamGames, trackedPathGames)
  BY DEF Advance
<1>4. ActiveGameRuns => found
  BY <1>2, RunningGameIsSeen
<1> HIDE DEF seen, found
<1>5. Advance = IF found
                THEN [tracker |-> at(0), action |-> "None", game |-> NoGame]
                ELSE IF tracker.closed + PollInterval < EndGracePeriod
                THEN [tracker |-> at(tracker.closed + PollInterval),
                      action |-> "None", game |-> NoGame]
                ELSE [tracker |-> at(0), action |-> "Stop", game |-> NoGame]
  <2>1. PollInterval \in Int /\ PollInterval > 0
    BY <1>1
  <2> QED BY <1>2, <1>3, <2>1, ActiveOutcome DEF found
<1>6. \A n \in Nat : at(n).closed = n
  BY <1>1 DEF Tracker
<1> HIDE DEF at
<1>7. /\ absent' \in Nat
      /\ ~ found => absent' = IF absent + PollInterval < EndGracePeriod
                              THEN absent + PollInterval ELSE EndGracePeriod
  BY <1>1, <1>4 DEF ObservePoll, Capped
<1>8. CASE found
  <2>1. Advance.tracker = at(0) /\ Advance.action = "None"
    BY <1>5, <1>8
  <2> QED BY <1>6, <1>7, <2>1
<1>9. CASE ~ found /\ tracker.closed + PollInterval < EndGracePeriod
  <2>1. Advance.tracker = at(tracker.closed + PollInterval) /\ Advance.action = "None"
    BY <1>5, <1>9
  <2>2. Advance.tracker.closed = tracker.closed + PollInterval
    BY <1>1, <1>6, <2>1
  <2> QED BY <1>1, <1>7, <1>9, <2>1, <2>2
<1>10. CASE ~ found /\ ~ (tracker.closed + PollInterval < EndGracePeriod)
  <2>1. Advance.tracker = at(0) /\ Advance.action = "Stop"
    BY <1>5, <1>10
  <2>2. absent' = EndGracePeriod
    BY <1>1, <1>7, <1>10
  <2> QED BY <1>1, <1>6, <2>1, <2>2
<1> QED BY <1>8, <1>9, <1>10

(* The game a poll starts a session of is a row of the games table.        *)
LEMMA StartedGameIsItsRow ==
  ASSUME IInv, GamesInv, CanTrack, Advance.action = "Start"
  PROVE  Advance.game = games[Advance.game.id]
<1> DEFINE seen == annotate(processes, trackedSteamGames)
           watched == IF activeSession = NoSession THEN NoGame ELSE RehydratedGame
<1>1. /\ tracker \in Tracker /\ PollInterval \in Int
      /\ trackedSteamGames \in SUBSET Game /\ trackedPathGames \in SUBSET Game
  BY BoundAssumption DEF IInv, TypeOK
<1>2. Advance = advance(tracker, seen, PollInterval, watched,
                        trackedSteamGames, trackedPathGames)
  BY DEF Advance
<1> HIDE DEF seen, watched
<1>3. Advance.game \in Candidates(seen, trackedSteamGames, trackedPathGames)
  BY <1>1, <1>2, AdvanceOutcome
<1>4. Advance.game \in trackedSteamGames \cup trackedPathGames
  BY <1>3 DEF Candidates, SteamCandidates, PathCandidates, SteamMatches, PathMatches
<1>5. PICK g \in GameId : Advance.game = games[g] /\ games[g] # NoGame
  BY <1>4 DEF GamesInv, IndexesHoldRows, GameRows
<1> QED BY <1>5 DEF IInv, GamesAreKeyed

LEMMA PollKeepsGraceInv ==
  ASSUME GraceInv, Poll, ObservePoll
  PROVE  GraceInv'
<1>1. /\ IInv /\ GamesInv /\ absent \in Nat /\ AbsenceIsCounted
      /\ CanTrack /\ running
      /\ faults'.query = 0 => faults.query = 0
  <2>1. \/ UNCHANGED faults
        \/ \E query, write \in BOOLEAN : Failing(query, write)
    BY DEF Poll, PollUndecided, PollStarts, PollFailsToStart, PollStops, PollFailsToStop,
           CanStartDetected, CanEndActiveSession, hasOtherActiveSession
  <2>2. CanTrack
    BY DEF Poll, PollUndecided, PollStarts, PollFailsToStart, PollStops, PollFailsToStop
  <2> QED BY <2>1, <2>2, FailuresCounted DEF GraceInv, IInv, CanTrack
<1>2. UNCHANGED <<games, indexes, running>>
  BY DEF Poll, PollUndecided, PollStarts, PollFailsToStart, PollStops, PollFailsToStop, tables
<1>3. activeGame' # NoGame => activeGame' = games[activeGame'.id]
  <2>1. CASE PollUndecided \/ PollFailsToStart \/ PollFailsToStop
    <3>1. activeGame' \in {activeGame, RehydratedGame}
      BY <2>1 DEF PollUndecided, PollFailsToStart, PollFailsToStop
    <3>2. RehydratedGame # NoGame => RehydratedGame = games[RehydratedGame.id]
      BY <1>1, WatchedGameIsItsRow DEF RehydratedGame, IInv, ActiveGameOfSession
    <3> QED BY <1>1, <3>1, <3>2 DEF GamesInv, CachedGameIsItsRow
  <2>2. CASE \E queryFails \in BOOLEAN : PollStarts(queryFails)
    <3>1. activeGame' = Advance.game /\ Advance.action = "Start"
      BY <2>2 DEF PollStarts, Associate
    <3> QED BY <1>1, <3>1, StartedGameIsItsRow
  <2>3. CASE PollStops
    BY <2>3 DEF PollStops, endActiveSession, Dissociate
  <2> QED BY <2>1, <2>2, <2>3 DEF Poll
<1>4. GamesInv'
  BY <1>1, <1>2, <1>3, UnchangedGamesKeepInv
<1>5. absent' \in Nat
  <2>1. PollInterval \in Nat /\ EndGracePeriod \in Nat
    BY BoundAssumption, GracePeriodAssumption
  <2> QED BY <1>1, <2>1 DEF ObservePoll, Capped
<1>6. ASSUME activeSession' # NoSession, faults'.query = 0
      PROVE  tracker'.closed <= absent'
  <2>1. tracker' = Advance.tracker
    BY <1>6
       DEF Poll, PollUndecided, PollStarts, PollFailsToStart, PollStops, PollFailsToStop,
           endActiveSession, Dissociate
  <2>2. CASE activeSession # NoSession
    BY <1>1, <1>6, <2>1, <2>2, PollCounts
  <2>3. CASE activeSession = NoSession
    <3>1. tracker'.closed = 0
      BY <1>1, <2>1, <2>3, PollDecision DEF IInv, NoInheritedAbsence
    <3> QED BY <1>5, <3>1
  <2> QED BY <2>2, <2>3
<1>7. IInv'
  BY <1>1, PollKeepsInv
<1> QED BY <1>4, <1>5, <1>6, <1>7 DEF GraceInv, AbsenceIsCounted

LEMMA CallKeepsGraceInv ==
  ASSUME GraceInv, NoGameIsEdited, CallOrEvent, ObserveOther
  PROVE  GraceInv'
<1>1. /\ IInv /\ GamesInv /\ absent \in Nat /\ AbsenceIsCounted
  BY DEF GraceInv
<1>2. CallEffect /\ IInv'
  BY <1>1, CallsKeepTheCount, CallsKeepInv
<1>3. absent' \in Nat
  BY <1>1 DEF ObserveOther
<1>4. AbsenceIsCounted'
  BY <1>1, <1>2, <1>3 DEF CallEffect, CountSurvives, ObserveOther, AbsenceIsCounted
<1> QED BY <1>2, <1>3, <1>4 DEF GraceInv, CallEffect

(* A poll ends a session only after its game, as the games table describes *)
(* it, has been missing from every poll of a full end grace period: no     *)
(* association, failed write, exit or restart in between makes the timer   *)
(* run ahead.  It takes three things.  No query fails (the property says   *)
(* so).  No game is edited and no active session moved to another game,    *)
(* which no window does: the cached copy would be out of date.  And no     *)
(* Steam game is untracked in a catalogue without a tracked one: there the *)
(* runtime reads no App IDs, and a session added by hand for such a game   *)
(* ends while it is played.                                                *)
THEOREM SessionsOutliveTheirGame ==
  ASSUME CataloguesAreRead, NoGameIsEdited
  PROVE  GraceSpec => SessionEndsAfterGrace
<1>1. GraceInit => GraceInv
  <2> SUFFICES ASSUME GraceInit PROVE GraceInv
    OBVIOUS
  <2>1. IInv
    BY InitEstablishesInv DEF GraceInit
  <2>2. AppsAreRead(games)
    BY DEF GraceInit, Init, CataloguesAreRead
  <2> QED BY <2>1, <2>2
          DEF GraceInit, Init, GraceInv, GamesInv, IndexesHoldRows, CachedGameIsItsRow,
              AbsenceIsCounted
<1>2. GraceInv /\ [GraceNext]_graceVars => GraceInv'
  <2> SUFFICES ASSUME GraceInv, [GraceNext]_graceVars PROVE GraceInv'
    OBVIOUS
  <2>1. CASE UNCHANGED graceVars
    <3>1. IInv'
      BY <2>1, StutteringKeepsInv DEF GraceInv, graceVars
    <3>2. GamesInv'
      BY <2>1
         DEF graceVars, vars, tables, indexes, service, GraceInv, GamesInv, AppsAreRead,
             IndexesHoldRows, CachedGameIsItsRow
    <3> QED BY <2>1, <3>1, <3>2
            DEF graceVars, vars, service, GraceInv, AbsenceIsCounted
  <2> QED BY <2>1, PollKeepsGraceInv, CallKeepsGraceInv DEF GraceNext
<1>3. GraceInv => [ /\ faults.query = 0 /\ activeSession' # activeSession
                    /\ ObservePoll /\ PollStops
                    => absent' >= EndGracePeriod ]_graceVars
  BY PollCounts DEF GraceInv, PollStops, CanEndActiveSession
<1> QED BY <1>1, <1>2, <1>3, PTL DEF GraceSpec, SessionEndsAfterGrace
=============================================================================
