--------------------------- MODULE SessionService ---------------------------
(***************************************************************************)
(* The core of GameLog: SessionService with its cached active session and  *)
(* its tracker, the sessions and games tables it shares with GameService   *)
(* through SessionRepository and GameRepository, and the part of           *)
(* GameLogRuntime that starts, polls and stops it.                         *)
(*                                                                         *)
(* Everything runs on one thread, so an action is a whole call: the reads, *)
(* the checks, the transaction and the assignments to the cache.  What can *)
(* come between two calls is any other call, a change of the system's      *)
(* processes or clock, and the death of the process, which keeps the       *)
(* tables and loses the rest.  A call that is refused, or whose write      *)
(* fails and changes nothing, is a stuttering step.  Failures that do have *)
(* an effect are actions and are counted in `faults': above all, a query   *)
(* that fails returns no rows, as an empty table would.                    *)
(*                                                                         *)
(* Titles, notes and durations are not modelled: no check in these calls   *)
(* reads them.                                                             *)
(***************************************************************************)
EXTENDS AutomaticSessionTracker, FiniteSets

CONSTANTS
  NoSession,        \* no row, or std::nullopt in an optional Session
  NoEnd,            \* std::nullopt in endTimestamp
  MaxSessions,      \* bound: primary keys of the sessions table
  MaxTime,          \* bound: readings of the clock
  MaxQueryFaults,   \* bound: steps in which a query fails, to some effect
  MaxWriteFaults,   \* bound: steps in which a write fails, to some effect
  GameForms,        \* the identities and tracking switches a client may enter
  Processes,        \* the processes that may run
  PollInterval,     \* updateInterval of main.cpp
  InitialTables,    \* what the database may hold when the model begins
  OneActiveIndex,   \* whether the unique index one_active_session exists
  ClientCalls       \* the calls, of the public ones no window makes today,
                    \* that clients make, and "clockStepsBack"

OptionalCalls == {"updateGame", "removeGame", "reassociate",
                  "resetAutomaticTracking", "clockStepsBack"}

ASSUME BoundAssumption == /\ MaxSessions \in Nat /\ MaxTime \in Nat
                          /\ MaxQueryFaults \in Nat /\ MaxWriteFaults \in Nat
                          /\ PollInterval \in Nat \ {0}

ASSUME ClientAssumption ==
  /\ OneActiveIndex \in BOOLEAN
  /\ ClientCalls \subseteq OptionalCalls
  /\ Processes \subseteq Process
  /\ GameForms \subseteq [app : App \cup {NoApp}, path : Path \cup {NoPath}, tracked : BOOLEAN]

SessionId == 1 .. MaxSessions
Time == 0 .. MaxTime
Status == {"active", "completed", "interrupted"}

\* A row of the sessions table without its key.
Row == [game : GameId, start : Time, end : Time \cup {NoEnd}, status : Status]

\* activeSession_: a copy of a row, with its key.
Session == [id : SessionId, row : Row]

ASSUME NoSessionAssumption == /\ NoSession \notin Row /\ NoSession \notin Session
                              /\ NoEnd \notin Nat

\* The database is empty when GameLog is installed; a run may begin later,
\* with any tables the schema admits.
Tables == [games : [GameId -> Game \cup {NoGame}], rows : [SessionId -> Row \cup {NoSession}]]

ActiveIdsOf(table) ==
  {i \in SessionId : table[i] # NoSession /\ table[i].status = "active"}

ASSUME TablesAssumption ==
  /\ InitialTables \subseteq Tables
  /\ \A t \in InitialTables :
       /\ \A g \in GameId : t.games[g] # NoGame => t.games[g].id = g
       /\ \A i \in ActiveIdsOf(t.rows) : t.rows[i].end = NoEnd
       /\ OneActiveIndex => \A i, j \in ActiveIdsOf(t.rows) : i = j

VARIABLES
  games,              \* the games table
  rows,               \* the sessions table
  trackedSteamGames,  \* GameService's index by App ID
  trackedPathGames,   \* GameService's index by path
  activeSession,      \* SessionService::activeSession_
  activeGame,         \* SessionService::activeGame_
  tracker,            \* SessionService::tracker_
  running,            \* GameLogRuntime::running_
  processes,          \* the processes of the system
  now,                \* the system's clock
  faults              \* effective failures so far

tables  == <<games, rows>>
indexes == <<trackedSteamGames, trackedPathGames>>
service == <<activeSession, activeGame, tracker>>
world   == <<processes, now>>

vars == <<tables, indexes, service, running, world, faults>>

-----------------------------------------------------------------------------
(* Reading and writing the tables.                                         *)

GameRows(table) == {table[g] : g \in GameId} \ {NoGame}

IsActive(i) == rows[i] # NoSession /\ rows[i].status = "active"

ActiveIds == ActiveIdsOf(rows)

(* GameService::findById                                                   *)
findById(g) == games[g]

(* SessionService::hasOtherActiveSession; a query that fails finds none.   *)
hasOtherActiveSession(excluded, queryFails) ==
  ~queryFails /\ ActiveIds \ {excluded} # {}

(* validateSession of SessionRepository.cpp                                *)
validateSession(r) == IF r.status = "active"
                      THEN r.end = NoEnd
                      ELSE r.end # NoEnd /\ r.start <= r.end

(* What SQLite accepts for the row with key i: the foreign key to games    *)
(* and the partial unique index.                                           *)
SatisfiesSchema(i, r) ==
  /\ games[r.game] # NoGame
  /\ OneActiveIndex /\ r.status = "active" => ActiveIds \subseteq {i}

Writable(i, r) == validateSession(r) /\ SatisfiesSchema(i, r)

(* INTEGER PRIMARY KEY without AUTOINCREMENT: the next key is one above    *)
(* the largest in use, so the largest key is used again once removed.      *)
IsNextKey(k, keys, used) ==
  /\ k \in keys
  /\ \A j \in used : j < k
  /\ k - 1 \in used \cup {0}

UsedSessionIds == {i \in SessionId : rows[i] # NoSession}

IsNextSessionId(i) == IsNextKey(i, SessionId, UsedSessionIds)

\* The failures with an effect that happen in this step.
Failing(query, write) ==
  /\ query => faults.query < MaxQueryFaults
  /\ write => faults.write < MaxWriteFaults
  /\ faults' = [query |-> faults.query + (IF query THEN 1 ELSE 0),
                write |-> faults.write + (IF write THEN 1 ELSE 0)]

-----------------------------------------------------------------------------
(* Reading and assigning the cache.                                        *)

IsCached(i) == activeSession # NoSession /\ activeSession.id = i

\* Faulty: the copy is cached before insert() has given it its key.
AssociateUnkeyed(i, r, game) == /\ activeSession' = [id |-> 0, row |-> r]
                                /\ activeGame' = game

Associate(i, r, game) == /\ activeSession' = [id |-> i, row |-> r]
                         /\ activeGame' = game

\* Faulty: the game, or the timers, of the session that ended are kept.
DissociateSessionOnly == /\ activeSession' = NoSession
                         /\ UNCHANGED activeGame
                         /\ tracker' = FreshTracker

DissociateKeepingTimers == /\ activeSession' = NoSession
                           /\ activeGame' = NoGame
                           /\ UNCHANGED tracker

Dissociate == /\ activeSession' = NoSession
              /\ activeGame' = NoGame
              /\ tracker' = FreshTracker

AutomaticRow(g) == [game |-> g, start |-> now, end |-> NoEnd, status |-> "active"]

Ended(r, t, status) == [r EXCEPT !.end = t, !.status = status]

(* The write of endActiveSession, and whether it is made: the clock has to *)
(* have reached the start, and UPDATE has to change one row.               *)
Completed == Ended(activeSession.row, now, "completed")

CanEndActiveSession == /\ activeSession # NoSession
                       /\ activeSession.row.start <= now
                       /\ rows[activeSession.id] # NoSession
                       /\ Writable(activeSession.id, Completed)

endActiveSession == /\ rows' = [rows EXCEPT ![activeSession.id] = Completed]
                    /\ Dissociate

-----------------------------------------------------------------------------
(* Calls of clients.  Windows and the runtime live only while it runs.     *)

(* SessionService::addSession                                              *)
AddSession(r, queryFails) ==
  /\ running
  /\ r.status = "active" => /\ activeSession = NoSession
                            /\ ~hasOtherActiveSession(0, queryFails)
                            /\ findById(r.game) # NoGame
  /\ \E i \in SessionId :
       /\ IsNextSessionId(i) /\ Writable(i, r)
       /\ rows' = [rows EXCEPT ![i] = r]
       /\ IF r.status = "active"
          THEN Associate(i, r, findById(r.game)) /\ tracker' = FreshTracker
          ELSE UNCHANGED service
  /\ Failing(queryFails, FALSE)
  /\ UNCHANGED <<games, indexes, running, world>>

\* Faulty: the cache keeps its old copy of an active session that is edited.
UpdateCacheOnChangeOnly(i, r) ==
  \/ /\ ~IsActive(i) /\ r.status = "active"
     /\ Associate(i, r, findById(r.game))
     /\ tracker' = FreshTracker
  \/ /\ IsActive(i) /\ r.status # "active"
     /\ IF IsCached(i) THEN Dissociate ELSE UNCHANGED service
  \/ /\ IsActive(i) <=> r.status = "active"
     /\ UNCHANGED service

\* Faulty: a session reopened by an edit is not noticed.
UpdateCacheOnStopOnly(i, r) ==
  \/ /\ IsActive(i) /\ r.status # "active"
     /\ IF IsCached(i) THEN Dissociate ELSE UNCHANGED service
  \/ /\ r.status = "active" \/ ~IsActive(i)
     /\ UNCHANGED service

(* What updateSession does to the cache once row i has been overwritten    *)
(* with r: the session starts, stops (only the cached one leaves the       *)
(* cache), or stays active under new data with its timers untouched.       *)
UpdateCache(i, r) ==
  \/ /\ ~IsActive(i) /\ r.status = "active"
     /\ Associate(i, r, findById(r.game))
     /\ tracker' = FreshTracker
  \/ /\ IsActive(i) /\ r.status # "active"
     /\ IF IsCached(i) THEN Dissociate ELSE UNCHANGED service
  \/ /\ IsActive(i) /\ r.status = "active"
     /\ Associate(i, r, findById(r.game))
     /\ UNCHANGED tracker
  \/ /\ ~IsActive(i) /\ r.status # "active"
     /\ UNCHANGED service

(* SessionService::updateSession                                           *)
UpdateSession(i, r, queryFails) ==
  /\ running
  /\ rows[i] # NoSession
  /\ IsActive(i) /\ r.status = "active" /\ r.game # rows[i].game
     => "reassociate" \in ClientCalls
  /\ r.status = "active" => /\ activeSession # NoSession => IsCached(i)
                            /\ ~hasOtherActiveSession(i, queryFails)
                            /\ findById(r.game) # NoGame
  /\ Writable(i, r)
  /\ rows' = [rows EXCEPT ![i] = r]
  /\ UpdateCache(i, r)
  /\ Failing(queryFails, FALSE)
  /\ UNCHANGED <<games, indexes, running, world>>

\* Faulty: removes active rows too.
RemoveAnySession(i) ==
  /\ running
  /\ rows[i] # NoSession
  /\ rows' = [rows EXCEPT ![i] = NoSession]
  /\ UNCHANGED <<games, indexes, service, running, world, faults>>

(* SessionService::removeSession                                           *)
RemoveSession(i) ==
  /\ running
  /\ rows[i] # NoSession /\ ~IsActive(i)
  /\ rows' = [rows EXCEPT ![i] = NoSession]
  /\ UNCHANGED <<games, indexes, service, running, world, faults>>

(* SessionService::startAutomaticSession(int) on behalf of a client.  The  *)
(* start timer of the tracker is left as it is.                            *)
StartAutomaticSession(g, queryFails) ==
  /\ running
  /\ findById(g) # NoGame /\ findById(g).tracked
  /\ activeSession = NoSession /\ ~hasOtherActiveSession(0, queryFails)
  /\ \E i \in SessionId :
       /\ IsNextSessionId(i) /\ Writable(i, AutomaticRow(g))
       /\ rows' = [rows EXCEPT ![i] = AutomaticRow(g)]
       /\ Associate(i, AutomaticRow(g), findById(g))
  /\ Failing(queryFails, FALSE)
  /\ UNCHANGED <<games, indexes, tracker, running, world>>

(* SessionService::endActiveSession on behalf of a client                  *)
EndActiveSession ==
  /\ running
  /\ CanEndActiveSession
  /\ endActiveSession
  /\ UNCHANGED <<games, indexes, running, world, faults>>

(* SessionService::resetAutomaticTracking on behalf of a client            *)
ResetAutomaticTracking ==
  /\ running
  /\ "resetAutomaticTracking" \in ClientCalls
  /\ tracker' = FreshTracker /\ activeGame' = NoGame
  /\ UNCHANGED <<tables, indexes, activeSession, running, world, faults>>

-----------------------------------------------------------------------------
(* GameService's calls on the games table.  Each ends by rebuilding both   *)
(* indexes; if the query of the rebuild fails they are left empty.         *)

SyncGamesWithDatabase(table, queryFails) ==
  IF queryFails
  THEN trackedSteamGames' = {} /\ trackedPathGames' = {}
  ELSE /\ trackedSteamGames' = TrackedSteamGames(GameRows(table))
       /\ trackedPathGames' \in SUBSET TrackedWithPath(GameRows(table))
       /\ IsPathIndex(trackedPathGames', GameRows(table))

GameOf(g, form) == [id |-> g, app |-> form.app, path |-> form.path, tracked |-> form.tracked]

\* games.steam_app_id is UNIQUE.
AppIsFree(g, form) ==
  \A h \in GameId \ {g} : games[h] # NoGame /\ form.app # NoApp => games[h].app # form.app

(* GameService::addGame                                                    *)
AddGame(g, form, queryFails) ==
  /\ running
  /\ IsNextKey(g, GameId, {h \in GameId : games[h] # NoGame})
  /\ AppIsFree(g, form)
  /\ games' = [games EXCEPT ![g] = GameOf(g, form)]
  /\ SyncGamesWithDatabase(games', queryFails)
  /\ Failing(queryFails, FALSE)
  /\ UNCHANGED <<rows, service, running, world>>

(* GameService::updateGame                                                 *)
UpdateGame(g, form, queryFails) ==
  /\ running
  /\ "updateGame" \in ClientCalls
  /\ games[g] # NoGame /\ AppIsFree(g, form)
  /\ games' = [games EXCEPT ![g] = GameOf(g, form)]
  /\ SyncGamesWithDatabase(games', queryFails)
  /\ Failing(queryFails, FALSE)
  /\ UNCHANGED <<rows, service, running, world>>

(* GameService::removeGame.  The foreign key cascades: the game's sessions *)
(* go with it, and SessionService is not told.                             *)
RemoveGame(g, queryFails) ==
  /\ running
  /\ "removeGame" \in ClientCalls
  /\ games[g] # NoGame
  /\ games' = [games EXCEPT ![g] = NoGame]
  /\ rows' = [i \in SessionId |->
                IF rows[i] # NoSession /\ rows[i].game = g THEN NoSession ELSE rows[i]]
  /\ SyncGamesWithDatabase(games', queryFails)
  /\ Failing(queryFails, FALSE)
  /\ UNCHANGED <<service, running, world>>
-----------------------------------------------------------------------------
(* GameLogRuntime                                                          *)

Interrupted(r) == Ended(r, IF now < r.start THEN r.start ELSE now, "interrupted")

\* The order in which restoreActiveSession takes the active rows.
Before(i, j) == \/ rows[i].start > rows[j].start
                \/ rows[i].start = rows[j].start /\ i > j

\* The active rows whose game findById finds; the query for one may fail.
Restorable(unread) == {i \in ActiveIds : findById(rows[i].game) # NoGame /\ i # unread}

\* The row that is kept: the first of them, or 0 when there is none.
IsKept(keep, unread) ==
  \/ Restorable(unread) = {} /\ keep = 0
  \/ /\ keep \in Restorable(unread)
     /\ \A i \in Restorable(unread) \ {keep} : Before(keep, i)

\* Faulty: the extra active rows are left as they are.
InterruptNoRows(ids) == UNCHANGED rows

InterruptRows(ids) ==
  rows' = [i \in SessionId |-> IF i \in ids THEN Interrupted(rows[i]) ELSE rows[i]]

(* start(): the indexes are rebuilt and restoreActiveSession keeps one     *)
(* active row in the cache and interrupts the others.                      *)
Start(syncFails, unread) ==
  /\ ~running /\ running' = TRUE
  /\ SyncGamesWithDatabase(games, syncFails)
  /\ \E keep \in SessionId \cup {0} :
       /\ IsKept(keep, unread)
       /\ InterruptRows(ActiveIds \ {keep})
       /\ IF keep = 0
          THEN Dissociate
          ELSE /\ Associate(keep, rows[keep], findById(rows[keep].game))
               /\ tracker' = FreshTracker
  /\ Failing(syncFails \/ unread # 0, FALSE)
  /\ UNCHANGED <<games, world>>

(* start() when the query for active rows fails: there seems to be nothing *)
(* to restore, which counts as success.                                    *)
StartUnrestored(syncFails) ==
  /\ ~running /\ running' = TRUE
  /\ SyncGamesWithDatabase(games, syncFails)
  /\ Dissociate
  /\ Failing(TRUE, FALSE)
  /\ UNCHANGED <<tables, world>>

(* start() when the write for one row to interrupt fails: the rows before  *)
(* it have been interrupted, and the runtime does not start.               *)
StartRefused(syncFails, unread) ==
  /\ ~running
  /\ SyncGamesWithDatabase(games, syncFails)
  /\ \E keep \in SessionId \cup {0} : \E failed \in ActiveIds \ {keep} :
       /\ IsKept(keep, unread)
       /\ InterruptRows({i \in ActiveIds \ {keep} : Before(i, failed)})
  /\ Dissociate
  /\ Failing(syncFails \/ unread # 0, TRUE)
  /\ UNCHANGED <<games, running, world>>

(* stop(), on aboutToQuit: the active row and its cached copy stay.        *)
Stop ==
  /\ running /\ running' = FALSE
  /\ tracker' = FreshTracker /\ activeGame' = NoGame
  /\ UNCHANGED <<tables, indexes, activeSession, world, faults>>

(* The process dies, or ends after stop(): only the tables survive.        *)
Exit ==
  /\ running' = FALSE
  /\ Dissociate
  /\ trackedSteamGames' = {} /\ trackedPathGames' = {}
  /\ UNCHANGED <<tables, world, faults>>

-----------------------------------------------------------------------------
(* update(): one poll of the timer, through updateAutomaticTracking.       *)

\* The active game the tracker is given: fetched again if it was dropped.
RehydratedGame == IF activeSession # NoSession /\ activeGame = NoGame
                  THEN findById(activeSession.row.game)
                  ELSE activeGame

Advance == advance(tracker, annotate(processes, trackedSteamGames), PollInterval,
                   IF activeSession = NoSession THEN NoGame ELSE RehydratedGame,
                   trackedSteamGames, trackedPathGames)

\* An active session whose game cannot be found is not tracked at all.
CanTrack == running /\ (activeSession # NoSession => RehydratedGame # NoGame)

PollUndecided ==
  /\ CanTrack
  /\ Advance.action = "None"
  /\ tracker' = Advance.tracker /\ activeGame' = RehydratedGame
  /\ UNCHANGED <<tables, indexes, activeSession, running, world, faults>>

\* startAutomaticSession(const Game&): refused while a row is active.
CanStartDetected(queryFails) ==
  ~hasOtherActiveSession(0, queryFails) /\ Advance.game.tracked

PollStarts(queryFails) ==
  /\ CanTrack
  /\ Advance.action = "Start"
  /\ CanStartDetected(queryFails)
  /\ LET r == AutomaticRow(Advance.game.id)
     IN \E i \in SessionId : /\ IsNextSessionId(i) /\ Writable(i, r)
                             /\ rows' = [rows EXCEPT ![i] = r]
                             /\ Associate(i, r, Advance.game)
  /\ tracker' = Advance.tracker
  /\ Failing(queryFails, FALSE)
  /\ UNCHANGED <<games, indexes, running, world>>

\* The decision is dropped: a row is active, or the write fails.
PollFailsToStart ==
  /\ CanTrack
  /\ Advance.action = "Start"
  /\ Failing(FALSE, CanStartDetected(FALSE))
  /\ tracker' = Advance.tracker
  /\ UNCHANGED <<tables, indexes, activeSession, activeGame, running, world>>

PollStops ==
  /\ CanTrack
  /\ Advance.action = "Stop"
  /\ CanEndActiveSession
  /\ endActiveSession
  /\ UNCHANGED <<games, indexes, running, world, faults>>

\* The session stays: the clock is before its start, or the write fails.
PollFailsToStop ==
  /\ CanTrack
  /\ Advance.action = "Stop"
  /\ Failing(FALSE, CanEndActiveSession)
  /\ tracker' = Advance.tracker /\ activeGame' = RehydratedGame
  /\ UNCHANGED <<tables, indexes, activeSession, running, world>>

Poll == \/ PollUndecided
        \/ \E queryFails \in BOOLEAN : PollStarts(queryFails)
        \/ PollFailsToStart
        \/ PollStops
        \/ PollFailsToStop

-----------------------------------------------------------------------------
(* The rest of the system.                                                 *)

ProcessesChange == /\ processes' \in SUBSET Processes
                   /\ UNCHANGED <<tables, indexes, service, running, now, faults>>

ClockTicks == /\ now < MaxTime /\ now' = now + 1
              /\ UNCHANGED <<tables, indexes, service, running, processes, faults>>

ClockStepsBack == /\ "clockStepsBack" \in ClientCalls
                  /\ now' \in 0 .. now - 1
                  /\ UNCHANGED <<tables, indexes, service, running, processes, faults>>

-----------------------------------------------------------------------------
Init == /\ \E t \in InitialTables : games = t.games /\ rows = t.rows
        /\ trackedSteamGames = {} /\ trackedPathGames = {}
        /\ activeSession = NoSession /\ activeGame = NoGame /\ tracker = FreshTracker
        /\ running = FALSE
        /\ processes = {} /\ now = 0 /\ faults = [query |-> 0, write |-> 0]

\* What a client may ask to be stored.
RowInputs == {r \in Row : validateSession(r)}

SessionCall ==
  \E queryFails \in BOOLEAN :
    \/ \E r \in RowInputs : \/ AddSession(r, queryFails)
                            \/ \E i \in SessionId : UpdateSession(i, r, queryFails)
    \/ \E g \in GameId : StartAutomaticSession(g, queryFails)

GameCall ==
  \E g \in GameId, queryFails \in BOOLEAN :
    \/ \E form \in GameForms : AddGame(g, form, queryFails) \/ UpdateGame(g, form, queryFails)
    \/ RemoveGame(g, queryFails)

Starting ==
  \E syncFails \in BOOLEAN :
    \/ \E unread \in ActiveIds \cup {0} : Start(syncFails, unread) \/ StartRefused(syncFails, unread)
    \/ StartUnrestored(syncFails)

\* Every step but a poll.
CallOrEvent == \/ SessionCall
               \/ \E i \in SessionId : RemoveSession(i)
               \/ EndActiveSession
               \/ ResetAutomaticTracking
               \/ GameCall
               \/ Starting
               \/ Stop
               \/ Exit
               \/ ProcessesChange \/ ClockTicks \/ ClockStepsBack

Next == CallOrEvent \/ Poll

Spec == Init /\ [][Next]_vars

(* The timer of main.cpp keeps polling while the event loop runs, and the  *)
(* clock goes on.  Nothing else is fair: clients and processes may do      *)
(* nothing, and a runtime that has ended need not be started again.        *)
FairSpec == Spec /\ WF_vars(Poll) /\ WF_vars(ClockTicks)

-----------------------------------------------------------------------------
(* Every reachable value is well formed.                                   *)
TypeOK ==
  /\ games \in [GameId -> Game \cup {NoGame}]
  /\ rows \in [SessionId -> Row \cup {NoSession}]
  /\ trackedSteamGames \in SUBSET Game /\ trackedPathGames \in SUBSET Game
  /\ activeSession \in Session \cup {NoSession}
  /\ activeGame \in Game \cup {NoGame}
  /\ tracker \in Tracker
  /\ running \in BOOLEAN
  /\ processes \in SUBSET Processes /\ now \in Time /\ faults \in [query : Nat, write : Nat]

(* The cached session is the active row, field for field: whatever         *)
(* interleaving of calls, polls, failures and restarts, ending the cache   *)
(* ends the row the database calls active, and no other.  Nothing in the   *)
(* code compares the two after they are assigned.  It holds as long as no  *)
(* game is removed.                                                        *)
CacheMatchesRow ==
  activeSession # NoSession =>
    /\ rows[activeSession.id] = activeSession.row
    /\ activeSession.row.status = "active"

(* The cached game is the game of the cached session, and there is none    *)
(* without a session: the tracker never watches a game for a session that  *)
(* is over or belongs to another game.                                     *)
ActiveGameOfSession ==
  activeGame # NoGame => /\ activeSession # NoSession
                         /\ activeGame.id = activeSession.row.game

(* Without an active session the closed timer is zero, however the last    *)
(* session ended: the next session never inherits an absence.              *)
NoInheritedAbsence == activeSession = NoSession => tracker.closed = 0

(* While the runtime runs, the row the database calls active is the cached *)
(* one: no active row is left that the service does not know and that      *)
(* would block every later start.  One failed query can leave one.         *)
ActiveRowIsCached ==
  running /\ faults.query = 0 => \A i \in ActiveIds : IsCached(i)

(* At most one row is active while the runtime runs, by the service's own  *)
(* checks and the repair of restoreActiveSession alone, that is even on a  *)
(* database that predates the unique index (the comment on                 *)
(* hasOtherActiveSession calls this defence in depth), as long as no query *)
(* fails.                                                                  *)
AtMostOneActive == running /\ faults.query = 0 => \A i, j \in ActiveIds : i = j

\* The cached session went from the database with its game: no write can end it.
IsOrphaned == /\ activeSession # NoSession
              /\ rows[activeSession.id] = NoSession \/ findById(activeSession.row.game) = NoGame

(* A session whose game is gone ends: if from some moment on the runtime   *)
(* runs and no process does, then whatever clients keep doing, and even if *)
(* queries or writes fail or the clock has yet to reach the start, the     *)
(* service does not hold on to an active session for ever.  The exception  *)
(* is a session whose game was removed from the catalogue, and which the   *)
(* foreign key removed with it: the service is not told, and as long as no *)
(* other row gets its key, every attempt to end it fails and no other      *)
(* session starts until GameLog is started again.                          *)
AbandonedSessionEnds ==
  <>[](running /\ processes = {}) => []<>(activeSession = NoSession \/ IsOrphaned)

\* No query has failed, g is tracked and indexed, the only process running is
\* g's, and the bound on keys leaves room for a row.
IsPlayedAlone(g) ==
  /\ running /\ faults.query = 0
  /\ findById(g) # NoGame /\ findById(g).tracked
  /\ findById(g) \in trackedSteamGames \cup trackedPathGames
  /\ processes # {} /\ \A p \in processes : processMatchesGame(p, findById(g))
  /\ activeSession = NoSession => \E i \in SessionId : IsNextSessionId(i)

\* The cached session is not active in the database.  CacheMatchesRow: only
\* the removal of its game can bring that about.
HoldsLostSession == activeSession # NoSession /\ ~IsActive(activeSession.id)

\* The active rows of games other than g.
OthersActive(g) == {i \in ActiveIds : rows[i].game # g}

(* A tracked game that keeps running alone gets an active session, one of  *)
(* its own in the database: no leftover of another game's session, of a    *)
(* restart or of a failed write blocks every start.  Clients may go on     *)
(* ending its sessions, but at some time stop beginning sessions of other  *)
(* games, or moving sessions to them.  Left out are behaviours in which    *)
(* the service goes on holding a session that was removed with its game,   *)
(* for it starts nothing else meanwhile.                                   *)
PlayedGameGetsSession ==
  \A g \in GameId :
    /\ <>[](IsPlayedAlone(g) /\ ~HoldsLostSession)
    /\ <>[][OthersActive(g)' \subseteq OthersActive(g)]_vars
    => []<>(\E i \in ActiveIds : rows[i].game = g)
=============================================================================
