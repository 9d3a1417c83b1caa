----------------------------- MODULE GameCatalog -----------------------------
(***************************************************************************)
(* The catalogue of games and its artwork: GameService over the games      *)
(* table, the import of the Steam library, GameArtworkService, the         *)
(* connections GameLogRuntime makes between them, and the card of the live *)
(* window that shows a cover.                                              *)
(*                                                                         *)
(* The three connections are direct, so an action is a call or a reply     *)
(* with every signal it sets off: adding a game asks for its artwork,      *)
(* which announces a cover or none, which has setHasArtwork rewrite the    *)
(* row and rebuild the indexes.  A call that is refused changes nothing.   *)
(* A query that fails returns no rows, and a write may fail; both are      *)
(* counted in `faults' where they have an effect.                          *)
(***************************************************************************)
EXTENDS GameArtwork, Functions

CONSTANTS GameForms,       \* what a client may enter
          Payloads,        \* replies of Steam, as sets of entries
          NoCard,          \* the empty card of a window without a session
          Placeholder,     \* the picture of a game without a cover
          MaxRecycled,     \* bound: keys whose game is removed
          MaxFaults        \* bound: failures of a kind; no step fails any
                           \* more once one kind has reached it

\* An entry of the owned games: its App ID if positive, and if it has a title.
Entry == [app : App \cup {NoApp}, titled : BOOLEAN]

ASSUME CatalogAssumption ==
  /\ GameForms \subseteq [app : App \cup {NoApp}, path : Path \cup {NoPath}, tracked : BOOLEAN]
  /\ Payloads \subseteq SUBSET Entry
  /\ Placeholder \notin App
  /\ MaxRecycled \in Nat /\ MaxFaults \in Nat

Failure == {"query", "write", "exit"}   \* "exit" in the middle of a write

Card == [game : GameId, shown : App \cup {Placeholder}]

ASSUME NoCardAssumption == NoCard \notin Card

VARIABLES
  games,              \* the games table, but for has_artwork
  hasArtwork,         \* the keys of the rows with has_artwork set
  trackedSteamGames,  \* GameService's index by App ID
  trackedPathGames,   \* GameService's index by path
  card,               \* LiveWindow's card
  faults,             \* effective failures so far
  recycled,           \* history: keys whose game was removed
  overlapped,         \* history: keys last asked about while a cover was loading
  torn                \* history: keys whose cover was being written at an exit

table   == <<games, hasArtwork>>
indexes == <<trackedSteamGames, trackedPathGames>>
artwork == <<covers, downloads>>
history == <<recycled, overlapped, torn>>

vars == <<table, indexes, artwork, card, faults, history>>

-----------------------------------------------------------------------------
Stored == {g \in GameId : games[g] # NoGame}

GameRows(t) == {t[g] : g \in GameId} \ {NoGame}

GameOf(g, form) == [id |-> g, app |-> form.app, path |-> form.path, tracked |-> form.tracked]

\* games.steam_app_id is UNIQUE.
AppIsFree(app) == app = NoApp \/ \A g \in Stored : games[g].app # app

\* The keys SQLite gives the next rows: the ones after the largest in use.
AreNextKeys(keys) == /\ \A k \in keys, g \in Stored : g < k
                     /\ \A k \in keys : k - 1 \in keys \cup Stored \cup {0}

\* The kinds of failure that have an effect in this step.
Failing(kinds) ==
  /\ kinds # {} => \A k \in Failure : faults[k] < MaxFaults
  /\ faults' = [k \in Failure |-> faults[k] + (IF k \in kinds THEN 1 ELSE 0)]

If(condition, kind) == IF condition THEN {kind} ELSE {}

\* Faulty: a failed query leaves the old copies.
SyncKeepsOnFailure(queryFails) ==
  IF queryFails
  THEN UNCHANGED indexes
  ELSE /\ trackedSteamGames' = TrackedSteamGames(GameRows(games'))
       /\ trackedPathGames' \in SUBSET TrackedWithPath(GameRows(games'))
       /\ IsPathIndex(trackedPathGames', GameRows(games'))

(* syncGamesWithDatabase, on the table the call has just written.          *)
SyncGamesWithDatabase(queryFails) ==
  IF queryFails
  THEN trackedSteamGames' = {} /\ trackedPathGames' = {}
  ELSE /\ trackedSteamGames' = TrackedSteamGames(GameRows(games'))
       /\ trackedPathGames' \in SUBSET TrackedWithPath(GameRows(games'))
       /\ IsPathIndex(trackedPathGames', GameRows(games'))

\* updateGame rebuilds the indexes, if the row differed and was written.
SyncIfWritten(queryFails) ==
  IF hasArtwork' # hasArtwork
  THEN SyncGamesWithDatabase(queryFails)
  ELSE ~queryFails /\ UNCHANGED indexes

(* setHasArtwork for the keys whose cover is announced as available or as  *)
(* unavailable.  It writes rows that exist and differ; `failed' are those  *)
(* whose query or write fails, which stay as they were.                    *)
Differing(available, unavailable) ==
  Stored' \cap ((available \ hasArtwork) \cup (unavailable \cap hasArtwork))

SetHasArtwork(available, unavailable, failed) ==
  LET written == Differing(available, unavailable) \ failed
  IN hasArtwork' = (hasArtwork \cup (available \cap written)) \ (unavailable \cap written)

(* Some of the writes of setHasArtwork may fail, beside other queries and  *)
(* writes of the same call.                                                *)
Announce(available, unavailable, syncFails, insertFails) ==
  \E failed \in SUBSET Differing(available, unavailable) :
    /\ SetHasArtwork(available, unavailable, failed)
    /\ Failing(If(syncFails, "query") \cup If(insertFails \/ failed # {}, "write"))

(* GameCard::refreshArtwork: the file if it decodes, else the placeholder. *)
CardOf(g, file) == [game |-> g, shown |-> IF isValidArtworkFile(file) THEN file ELSE Placeholder]

\* Faulty: a card drawn once and for all.
RedrawNever(available) == card' = card

\* The card listens for covers of its game.
Redraw(available) ==
  card' = IF card # NoCard /\ card.game \in available
          THEN CardOf(card.game, covers'[card.game])
          ELSE card

(* getGameArtwork for each of the games asked about.                       *)
AskForArtwork(asked, syncFails, insertFails) ==
  /\ Announce(Covered(asked), asked \ Covered(asked), syncFails, insertFails)
  /\ GetSteamArtwork(RequestedBy(asked, games'))
  /\ overlapped' = {g \in overlapped \cup asked : g \in asked => IsLoading(g)}
  /\ torn' = torn \ asked
  /\ UNCHANGED covers

-----------------------------------------------------------------------------
(* Calls of the windows.                                                   *)

(* GameService::addGame                                                    *)
AddGame(g, form, syncFails) ==
  /\ AreNextKeys({g}) /\ AppIsFree(form.app)
  /\ games' = [games EXCEPT ![g] = GameOf(g, form)]
  /\ AskForArtwork({g}, syncFails, FALSE)
  /\ SyncGamesWithDatabase(syncFails)
  /\ Redraw(Covered({g}))
  /\ UNCHANGED recycled

(* GameService::removeGame.  Files and replies of the game stay.           *)
RemoveGame(g, syncFails) ==
  /\ g \in Stored
  /\ games' = [games EXCEPT ![g] = NoGame]
  /\ hasArtwork' = hasArtwork \ {g}
  /\ SyncGamesWithDatabase(syncFails)
  /\ recycled' = recycled \cup {g} /\ Cardinality(recycled') <= MaxRecycled
  /\ Failing(If(syncFails, "query"))
  /\ overlapped' = overlapped \ {g} /\ torn' = torn \ {g}
  /\ UNCHANGED <<artwork, card>>

\* Faulty: entries are keyed by App ID, and a later blank one replaces the game.
MappedByApp(payload) ==
  {e.app : e \in payload} \ {e.app : e \in {x \in payload : x.app = NoApp \/ ~x.titled}}

(* gamesFromSteamOwnedGames, and what a new entry becomes.                 *)
MappedApps(payload) == {e.app : e \in {x \in payload : x.app # NoApp /\ x.titled}}

SteamGame(g, app) == [id |-> g, app |-> app, path |-> NoPath, tracked |-> TRUE]

KnownApps(queryFails) == IF queryFails THEN {} ELSE {games[g].app : g \in Stored}

(* GameService::onSteamGamesReceived.  An entry is inserted unless its App *)
(* ID is known or taken, or the insert fails; the others go on.  Keys      *)
(* follow the order of the payload, which is any.                          *)
OnSteamGamesReceived(payload, knownFails, syncFails) ==
  LET new == {a \in MappedApps(payload) \ KnownApps(knownFails) : AppIsFree(a)}
  IN \E inserted \in SUBSET new \ {{}} :
     /\ \E keys \in {k \in SUBSET GameId : AreNextKeys(k)} :
        \E appOf \in Bijection(keys, inserted) :
          /\ games' = [g \in GameId |->
                         IF g \in keys THEN SteamGame(g, appOf[g]) ELSE games[g]]
          /\ AskForArtwork(keys, syncFails, inserted # new)
          /\ Redraw(Covered(keys))
     /\ SyncGamesWithDatabase(syncFails)
     /\ UNCHANGED recycled

(* LiveWindow::onSessionStarted: the card of the game is drawn before its  *)
(* artwork is asked for.  A restored session starts no card.               *)
OnSessionStarted(g, syncFails) ==
  /\ g \in Stored
  /\ UNCHANGED games
  /\ AskForArtwork({g}, syncFails, FALSE)
  /\ card' = CardOf(g, covers[g])
  /\ SyncIfWritten(syncFails)
  /\ UNCHANGED recycled

(* LiveWindow::onSessionFinished.                                          *)
OnSessionFinished ==
  /\ card # NoCard
  /\ card' = NoCard
  /\ UNCHANGED <<table, indexes, artwork, faults, history>>

-----------------------------------------------------------------------------
(* onNetworkReplyFinished and parseSteamArtworkReply.                      *)

\* Faulty: any type of artwork decides the flag.
AnnouncedAnyType(d) == {d.game}

\* Only a cover's announcement concerns the row and the card.
Announced(d) == IF d.type = "Cover" THEN {d.game} ELSE {}

RecordReply(available, unavailable, syncFails) ==
  /\ UNCHANGED games
  /\ Announce(available, unavailable, syncFails, FALSE)
  /\ SyncIfWritten(syncFails)
  /\ Redraw(available)
  /\ UNCHANGED history

(* A network error, an empty reply, an image that does not decode, a       *)
(* directory or file that cannot be opened: what is on disk stays.         *)
ReplyUnusable(d, syncFails) ==
  /\ TakeReply(d)
  /\ UNCHANGED covers
  /\ RecordReply({}, Announced(d), syncFails)

\* Faulty: the half-written file is left, and announced.
ReplyHalfWritten(d, syncFails) ==
  /\ TakeReply(d)
  /\ FileCover(d, BadFile)
  /\ RecordReply(Announced(d), {}, syncFails)

(* The write fails after the file was truncated: the file is removed.      *)
ReplyNotWritten(d, syncFails) ==
  /\ TakeReply(d)
  /\ FileCover(d, NoFile)
  /\ RecordReply({}, Announced(d), syncFails)

ReplyStored(d, syncFails) ==
  /\ TakeReply(d)
  /\ FileCover(d, d.app)
  /\ RecordReply(Announced(d), {}, syncFails)

-----------------------------------------------------------------------------
(* The process ends and a new one starts: what is left is the table, whose *)
(* rows the start indexes again, and the files.                            *)
Restart(syncFails) ==
  /\ UNCHANGED <<table, covers>>
  /\ downloads' = NoDownloads /\ card' = NoCard
  /\ SyncGamesWithDatabase(syncFails)
  /\ Failing(If(syncFails, "query"))
  /\ UNCHANGED history

(* It ends while a reply is being written: the file was truncated, and     *)
(* holds part of the image or all of it, which nothing has recorded.       *)
ExitWhileWriting(d, file, syncFails) ==
  /\ downloads[d] > 0 /\ d.type = "Cover"
  /\ covers' = [covers EXCEPT ![d.game] = file]
  /\ UNCHANGED table
  /\ downloads' = NoDownloads /\ card' = NoCard
  /\ SyncGamesWithDatabase(syncFails)
  /\ Failing({"exit"} \cup If(syncFails, "query"))
  /\ torn' = torn \cup {d.game}
  /\ UNCHANGED <<recycled, overlapped>>

-----------------------------------------------------------------------------
Init == /\ games = [g \in GameId |-> NoGame] /\ hasArtwork = {}
        /\ trackedSteamGames = {} /\ trackedPathGames = {}
        /\ covers = [g \in GameId |-> NoFile] /\ downloads = NoDownloads
        /\ card = NoCard
        /\ faults = [k \in Failure |-> 0]
        /\ recycled = {} /\ overlapped = {} /\ torn = {}

ClientCall ==
  \E g \in GameId, syncFails \in BOOLEAN :
    \/ \E form \in GameForms : AddGame(g, form, syncFails)
    \/ RemoveGame(g, syncFails)
    \/ OnSessionStarted(g, syncFails)

SteamReply ==
  \E payload \in Payloads, knownFails, syncFails \in BOOLEAN :
    OnSteamGamesReceived(payload, knownFails, syncFails)

ArtworkReply ==
  \E d \in Download, syncFails \in BOOLEAN :
    \/ ReplyUnusable(d, syncFails)
    \/ ReplyNotWritten(d, syncFails)
    \/ ReplyStored(d, syncFails)

Exit ==
  \E syncFails \in BOOLEAN :
    \/ Restart(syncFails)
    \/ \E d \in Download : \E file \in {BadFile, d.app} : ExitWhileWriting(d, file, syncFails)

Next == ClientCall \/ OnSessionFinished \/ SteamReply \/ ArtworkReply \/ Exit

Spec == Init /\ [][Next]_vars

-----------------------------------------------------------------------------
(* Every reachable value is well formed.                                   *)
TypeOK ==
  /\ games \in [GameId -> Game \cup {NoGame}] /\ hasArtwork \in SUBSET GameId
  /\ trackedSteamGames \in SUBSET Game /\ trackedPathGames \in SUBSET Game
  /\ covers \in [GameId -> File] /\ downloads \in [Download -> Nat]
  /\ card \in Card \cup {NoCard}
  /\ faults \in [Failure -> Nat]
  /\ recycled \in SUBSET GameId /\ overlapped \in SUBSET GameId /\ torn \in SUBSET GameId

(* The indexes detection works with are those of the table, or, once a     *)
(* query has failed, empty: after whatever sequence of calls, imports,     *)
(* replies and failures, no index keeps a game that was removed, or holds  *)
(* a part of the catalogue.  A path that several tracked games share is    *)
(* always served by one of them.                                           *)
IndexesAreWhole ==
  \/ /\ trackedSteamGames = TrackedSteamGames(GameRows(games))
     /\ IsPathIndex(trackedPathGames, GameRows(games))
  \/ /\ faults["query"] > 0
     /\ trackedSteamGames = {} /\ trackedPathGames = {}

(* has_artwork is set only where a usable cover exists, as the comment in  *)
(* GameLogRuntime says, whatever replies come late, fail or find no space  *)
(* to be written; except that a write of the row may fail, and that an     *)
(* exit in the middle of a write may spoil the cover an earlier download   *)
(* left, until the game is asked about again.                              *)
FlagMeansCover ==
  faults["write"] = 0 =>
    \A g \in hasArtwork \ torn : g \in Stored /\ isValidArtworkFile(covers[g])

(* Conversely a usable cover is recorded, with one exception besides the   *)
(* exit: downloads of one game that overlap, when the one that ends last   *)
(* fails.  A removed game's downloads count, its key being given again.    *)
CoverIsFlagged ==
  faults["write"] = 0 =>
    \A g \in Stored \ (overlapped \cup torn) :
      isValidArtworkFile(covers[g]) => g \in hasArtwork

(* A cover is that of the game it is filed under, unless the key has had   *)
(* another game before: files and late replies go by the key alone.        *)
CoverIsOfGame ==
  \A g \in Stored \ recycled : isValidArtworkFile(covers[g]) => covers[g] = games[g].app

(* The live window shows the cover on disk as soon as there is one,        *)
(* whether it was there before the session, came with a reply during it,   *)
(* or replaced another.                                                    *)
CardShowsCover ==
  card # NoCard /\ isValidArtworkFile(covers[card.game]) => card.shown = covers[card.game]

(* A Steam reply brings in every game it names, even if the query for the  *)
(* known ones fails or other entries are blank, known or repeated, and     *)
(* leaves every game alone that is there, tracked or not.                  *)
ImportIsComplete ==
  [][ \A payload \in Payloads, knownFails \in BOOLEAN :
        /\ games' # games /\ faults'["write"] = faults["write"]
        /\ \E syncFails \in BOOLEAN : OnSteamGamesReceived(payload, knownFails, syncFails)
        => /\ \A e \in payload : e.app # NoApp /\ e.titled => \E g \in Stored' : games'[g].app = e.app
           /\ \A g \in Stored : games'[g] = games[g] ]_vars
=============================================================================
