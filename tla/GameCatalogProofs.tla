-------------------------- MODULE GameCatalogProofs --------------------------
(***************************************************************************)
(* Proofs about GameCatalog, for any catalogue, replies and failures: the  *)
(* indexes, the artwork flag, the files and the card.                      *)
(***************************************************************************)
EXTENDS GameCatalog, TLAPS

IsCover(d) == d.type = "Cover" /\ downloads[d] > 0

\* A row that is gone has no flag.
FlaggedIsStored == hasArtwork \subseteq Stored

\* Unless downloads of a game overlap, one cover at most is on its way, and
\* only while there is none.
LoadingIsAlone ==
  \A d, e \in Download :
    IsCover(d) /\ IsCover(e) /\ d.game = e.game /\ d.game \in Stored \ overlapped
    => d = e /\ downloads[d] = 1 /\ ~isValidArtworkFile(covers[d.game])

\* As long as a key has had one game, its downloads and files are that game's.
KeysHaveOneGame ==
  /\ \A d \in Download :
       downloads[d] > 0 /\ d.game \notin recycled
       => d.game \in Stored /\ d.app = games[d.game].app
  /\ \A g \in GameId \ recycled :
       isValidArtworkFile(covers[g]) => g \in Stored /\ covers[g] = games[g].app

IInv == /\ TypeOK
        /\ IndexesAreWhole
        /\ FlaggedIsStored
        /\ FlagMeansCover
        /\ CoverIsFlagged
        /\ LoadingIsAlone
        /\ KeysHaveOneGame
        /\ CardShowsCover

\* The part that is about files, flags and downloads.
ArtworkInv == FlaggedIsStored /\ FlagMeansCover /\ CoverIsFlagged /\ LoadingIsAlone /\ KeysHaveOneGame

ArtworkTypes == /\ games \in [GameId -> Game \cup {NoGame}] /\ hasArtwork \in SUBSET GameId
                /\ covers \in [GameId -> File] /\ downloads \in [Download -> Nat]
                /\ faults \in [Failure -> Nat]
                /\ recycled \in SUBSET GameId /\ overlapped \in SUBSET GameId
                /\ torn \in SUBSET GameId

IndexTypes == trackedSteamGames \in SUBSET Game /\ trackedPathGames \in SUBSET Game

CardType == card \in Card \cup {NoCard}

LEMMA TypeParts == TypeOK <=> ArtworkTypes /\ IndexTypes /\ CardType
  BY DEF TypeOK, ArtworkTypes, IndexTypes, CardType

-----------------------------------------------------------------------------
\* Failures are counted where they have an effect.
LEMMA FailuresCount ==
  ASSUME faults \in [Failure -> Nat], NEW kinds \in SUBSET Failure, Failing(kinds)
  PROVE  /\ faults' \in [Failure -> Nat]
         /\ \A k \in Failure : faults'[k] >= faults[k]
         /\ \A k \in kinds : faults'[k] > faults[k]
  BY DEF Failing

\* What is known of row and faults after an announcement.
Announcement(available, unavailable, syncFails, insertFails) ==
  /\ hasArtwork' \subseteq Stored'
  /\ faults' \in [Failure -> Nat]
  /\ \A k \in Failure : faults'[k] >= faults[k]
  /\ syncFails => faults'["query"] > 0
  /\ insertFails => faults'["write"] > faults["write"]
  /\ faults'["write"] = 0 =>
       hasArtwork' = (hasArtwork \cup (available \cap Stored')) \ unavailable

LEMMA AnnouncementWrites ==
  ASSUME ArtworkTypes, FlaggedIsStored,
         NEW available \in SUBSET GameId, NEW unavailable \in SUBSET GameId,
         available \cap unavailable = {},
         NEW syncFails \in BOOLEAN, NEW insertFails \in BOOLEAN,
         hasArtwork \subseteq Stored',
         Announce(available, unavailable, syncFails, insertFails)
  PROVE  Announcement(available, unavailable, syncFails, insertFails)
<1> DEFINE D == Differing(available, unavailable)
<1>1. PICK failed \in SUBSET D :
        /\ SetHasArtwork(available, unavailable, failed)
        /\ Failing(If(syncFails, "query") \cup If(insertFails \/ failed # {}, "write"))
  BY DEF Announce
<1> DEFINE kinds == If(syncFails, "query") \cup If(insertFails \/ failed # {}, "write")
<1>2. kinds \in SUBSET Failure
  BY DEF If, Failure
<1>3. /\ faults' \in [Failure -> Nat]
      /\ \A k \in Failure : faults'[k] >= faults[k]
      /\ \A k \in kinds : faults'[k] > faults[k]
  <2>1. Failing(kinds) /\ faults \in [Failure -> Nat]
    BY <1>1 DEF ArtworkTypes
  <2> HIDE DEF kinds
  <2> QED
    BY <1>2, <2>1, FailuresCount
<1>4. syncFails => "query" \in kinds
  BY DEF If
<1>5. insertFails \/ failed # {} => "write" \in kinds
  BY DEF If
<1>6. "query" \in Failure /\ "write" \in Failure
  BY DEF Failure
<1>7. hasArtwork' = (hasArtwork \cup (available \cap (D \ failed))) \ (unavailable \cap (D \ failed))
  BY <1>1 DEF SetHasArtwork, D
<1>8. D = Stored' \cap ((available \ hasArtwork) \cup (unavailable \cap hasArtwork))
  BY DEF Differing, D
<1>9. faults["query"] \in Nat /\ faults["write"] \in Nat
      /\ faults'["query"] \in Nat /\ faults'["write"] \in Nat
  BY <1>3, <1>6 DEF ArtworkTypes
<1> HIDE DEF D, kinds
<1>10. hasArtwork' \subseteq Stored'
  BY <1>7, <1>8
<1>11. faults'["write"] = 0 => failed = {}
  BY <1>3, <1>5, <1>9
<1>12. failed = {} => hasArtwork' = (hasArtwork \cup (available \cap Stored')) \ unavailable
  BY <1>7, <1>8
<1> QED
  BY <1>3, <1>4, <1>5, <1>9, <1>10, <1>11, <1>12 DEF Announcement

\* A rebuild leaves the indexes whole, or empty after a failed query.
LEMMA RebuildIsWhole ==
  ASSUME games' \in [GameId -> Game \cup {NoGame}],
         NEW queryFails \in BOOLEAN, queryFails => faults'["query"] > 0,
         SyncGamesWithDatabase(queryFails)
  PROVE  IndexTypes' /\ IndexesAreWhole'
<1>1. CASE queryFails
  BY <1>1 DEF SyncGamesWithDatabase, IndexTypes, IndexesAreWhole
<1>2. CASE ~queryFails
  <2>1. GameRows(games') \subseteq Game
    BY DEF GameRows
  <2>2. /\ trackedSteamGames' = TrackedSteamGames(GameRows(games'))
        /\ IsPathIndex(trackedPathGames', GameRows(games'))
    BY <1>2 DEF SyncGamesWithDatabase
  <2>3. trackedSteamGames' \subseteq Game
    BY <2>1, <2>2 DEF TrackedSteamGames
  <2>4. trackedPathGames' \subseteq Game
    BY <2>1, <2>2 DEF IsPathIndex, TrackedWithPath
  <2> QED
    BY <2>2, <2>3, <2>4 DEF IndexTypes, IndexesAreWhole
<1> QED
  BY <1>1, <1>2

LEMMA IndexesStay ==
  ASSUME IndexTypes, IndexesAreWhole, UNCHANGED <<games, indexes>>,
         faults["query"] > 0 => faults'["query"] > 0
  PROVE  IndexTypes' /\ IndexesAreWhole'
  BY DEF indexes, IndexTypes, IndexesAreWhole

LEMMA RebuildIfWritten ==
  ASSUME ArtworkTypes, IndexTypes, IndexesAreWhole, UNCHANGED games,
         NEW queryFails \in BOOLEAN, queryFails => faults'["query"] > 0,
         faults["query"] > 0 => faults'["query"] > 0,
         SyncIfWritten(queryFails)
  PROVE  IndexTypes' /\ IndexesAreWhole'
<1>1. CASE hasArtwork' # hasArtwork
  <2>1. games' \in [GameId -> Game \cup {NoGame}]
    BY DEF ArtworkTypes
  <2>2. SyncGamesWithDatabase(queryFails)
    BY <1>1 DEF SyncIfWritten
  <2> QED
    BY <2>1, <2>2, RebuildIsWhole
<1>2. CASE hasArtwork' = hasArtwork
  <2>1. UNCHANGED indexes
    BY <1>2 DEF SyncIfWritten
  <2> QED
    BY <2>1, IndexesStay
<1> QED
  BY <1>1, <1>2

LEMMA CardIsTyped ==
  ASSUME NEW g \in GameId, NEW file
  PROVE  /\ CardOf(g, file) \in Card /\ CardOf(g, file) # NoCard
         /\ CardOf(g, file).game = g
         /\ isValidArtworkFile(file) => CardOf(g, file).shown = file
  BY NoCardAssumption DEF CardOf, Card, isValidArtworkFile

\* The card follows the files if every file that changed into a cover is
\* announced.
LEMMA RedrawnCardIsRight ==
  ASSUME CardType, CardShowsCover, NEW available \in SUBSET GameId, Redraw(available),
         \A g \in GameId \ available :
           isValidArtworkFile(covers'[g]) => covers'[g] = covers[g]
  PROVE  CardType' /\ CardShowsCover'
<1>1. CASE card # NoCard /\ card.game \in available
  <2>1. card' = CardOf(card.game, covers'[card.game])
    BY <1>1 DEF Redraw
  <2>2. card.game \in GameId
    BY <1>1
  <2> HIDE DEF CardOf
  <2> QED
    BY <2>1, <2>2, CardIsTyped DEF CardType, CardShowsCover
<1>2. CASE ~(card # NoCard /\ card.game \in available)
  <2>1. card' = card
    BY <1>2 DEF Redraw
  <2>2. card # NoCard => card.game \in GameId
    BY DEF CardType, Card
  <2> QED
    BY <1>2, <2>1, <2>2 DEF CardType, CardShowsCover, isValidArtworkFile
<1> QED
  BY <1>1, <1>2

-----------------------------------------------------------------------------
\* Asking for artwork, of games that are new or stay as they are.
AskingStep(asked) ==
  /\ games' \in [GameId -> Game \cup {NoGame}]
  /\ asked \subseteq Stored'
  /\ \A g \in Stored : games'[g] = games[g]
  /\ \A g \in Stored' : g \in asked \/ g \in Stored
  /\ UNCHANGED recycled

LEMMA RequestsAreOfGames ==
  ASSUME ArtworkTypes, NEW asked \in SUBSET GameId,
         GetSteamArtwork(RequestedBy(asked, games'))
  PROVE  /\ downloads' \in [Download -> Nat]
         /\ \A d \in Download :
              \/ downloads'[d] = downloads[d]
              \/ /\ d.game \in asked /\ ~isValidArtworkFile(covers[d.game])
                 /\ d.app = games'[d.game].app
                 /\ downloads'[d] = downloads[d] + 1
<1>1. \A d \in RequestedBy(asked, games') :
        d.game \in asked /\ ~isValidArtworkFile(covers[d.game]) /\ d.app = games'[d.game].app
  BY DEF RequestedBy, Covered, Download
<1>2. downloads' = [d \in Download |->
                      downloads[d] + (IF d \in RequestedBy(asked, games') THEN 1 ELSE 0)]
  BY DEF GetSteamArtwork
<1> HIDE DEF RequestedBy
<1> QED
  BY <1>1, <1>2 DEF ArtworkTypes

LEMMA AskingKeepsArtwork ==
  ASSUME ArtworkTypes, ArtworkInv, NEW asked \in SUBSET GameId, AskingStep(asked),
         NEW syncFails \in BOOLEAN, NEW insertFails \in BOOLEAN,
         AskForArtwork(asked, syncFails, insertFails)
  PROVE  /\ ArtworkTypes' /\ ArtworkInv'
         /\ UNCHANGED covers
         /\ syncFails => faults'["query"] > 0
         /\ faults["query"] > 0 => faults'["query"] > 0
         /\ insertFails => faults'["write"] > faults["write"]
<1> DEFINE none == asked \ Covered(asked)
<1>0. /\ Announce(Covered(asked), none, syncFails, insertFails)
      /\ GetSteamArtwork(RequestedBy(asked, games'))
      /\ overlapped' = {g \in overlapped \cup asked : g \in asked => IsLoading(g)}
      /\ torn' = torn \ asked
      /\ covers' = covers /\ recycled' = recycled
  BY DEF AskForArtwork, AskingStep
<1>1. Stored \subseteq Stored' /\ Stored' \subseteq GameId
  <2>1. \A g \in Stored : games'[g] # NoGame
    BY DEF AskingStep, Stored
  <2> QED
    BY <2>1 DEF Stored
<1>2. hasArtwork \subseteq Stored'
  BY <1>1 DEF ArtworkInv, FlaggedIsStored
<1>3. Covered(asked) = {g \in asked : isValidArtworkFile(covers[g])}
      /\ Covered(asked) \cap none = {} /\ none = {g \in asked : ~isValidArtworkFile(covers[g])}
  BY DEF Covered
<1>4. /\ hasArtwork' \subseteq Stored'
      /\ faults' \in [Failure -> Nat]
      /\ \A k \in Failure : faults'[k] >= faults[k]
      /\ syncFails => faults'["query"] > 0
      /\ insertFails => faults'["write"] > faults["write"]
      /\ faults'["write"] = 0 =>
           hasArtwork' = (hasArtwork \cup (Covered(asked) \cap Stored')) \ none
  <2>1. PICK available \in SUBSET GameId : available = Covered(asked)
    BY <1>3
  <2>2. PICK unavailable \in SUBSET GameId : unavailable = none
    BY <1>3
  <2>3. FlaggedIsStored
    BY DEF ArtworkInv
  <2>4. available \cap unavailable = {} /\ Announce(available, unavailable, syncFails, insertFails)
    BY <1>0, <1>3, <2>1, <2>2
  <2> HIDE DEF none
  <2>5. Announcement(available, unavailable, syncFails, insertFails)
    BY <1>2, <2>3, <2>4, AnnouncementWrites
  <2> QED
    BY <2>1, <2>2, <2>5 DEF Announcement
<1>5. /\ downloads' \in [Download -> Nat]
      /\ \A d \in Download :
           \/ downloads'[d] = downloads[d]
           \/ /\ d.game \in asked /\ ~isValidArtworkFile(covers[d.game])
              /\ d.app = games'[d.game].app
              /\ downloads'[d] = downloads[d] + 1
  BY <1>0, RequestsAreOfGames
<1>6. /\ faults["query"] > 0 => faults'["query"] > 0
      /\ faults'["write"] = 0 => faults["write"] = 0
  <2>1. "query" \in Failure /\ "write" \in Failure
    BY DEF Failure
  <2>2. /\ faults["query"] \in Nat /\ faults["write"] \in Nat
        /\ faults'["query"] \in Nat /\ faults'["write"] \in Nat
    BY <1>4, <2>1 DEF ArtworkTypes
  <2> QED
    BY <1>4, <2>1, <2>2
<1> HIDE DEF none
<1>7. ArtworkTypes'
  <2>1. hasArtwork' \subseteq GameId /\ overlapped' \subseteq GameId /\ torn' \subseteq GameId
    BY <1>0, <1>1, <1>4 DEF ArtworkTypes
  <2> QED
    BY <1>0, <1>4, <1>5, <2>1 DEF ArtworkTypes, AskingStep
<1>8. FlagMeansCover'
  <2> SUFFICES ASSUME faults'["write"] = 0, NEW g \in hasArtwork' \ torn'
               PROVE  g \in Stored' /\ isValidArtworkFile(covers[g])
    BY <1>0 DEF FlagMeansCover
  <2>1. CASE g \in asked
    BY <1>1, <1>3, <1>4, <2>1
  <2>2. CASE g \notin asked
    <3>1. g \in hasArtwork \ torn
      BY <1>0, <1>3, <1>4, <2>2
    <3> QED
      BY <1>1, <1>6, <3>1 DEF ArtworkInv, FlagMeansCover
  <2> QED
    BY <2>1, <2>2
<1>9. CoverIsFlagged'
  <2> SUFFICES ASSUME faults'["write"] = 0, NEW g \in Stored', g \notin overlapped', g \notin torn',
                      isValidArtworkFile(covers[g])
               PROVE  g \in hasArtwork'
    BY <1>0 DEF CoverIsFlagged
  <2>1. CASE g \in asked
    BY <1>3, <1>4, <2>1
  <2>2. CASE g \notin asked
    <3>1. g \in Stored \ (overlapped \cup torn)
      BY <1>0, <2>2 DEF AskingStep
    <3>2. g \in hasArtwork
      BY <1>6, <3>1 DEF ArtworkInv, CoverIsFlagged
    <3> QED
      BY <1>3, <1>4, <2>2, <3>2
  <2> QED
    BY <2>1, <2>2
<1>10. LoadingIsAlone'
  <2> SUFFICES ASSUME NEW d \in Download, NEW e \in Download, d.type = "Cover", e.type = "Cover",
                      downloads'[d] > 0, downloads'[e] > 0, d.game = e.game,
                      d.game \in Stored', d.game \notin overlapped'
               PROVE  d = e /\ downloads'[d] = 1 /\ ~isValidArtworkFile(covers[d.game])
    BY <1>0 DEF LoadingIsAlone, IsCover
  <2>0. downloads[d] \in Nat /\ downloads[e] \in Nat
    BY DEF ArtworkTypes
  <2>1. CASE d.game \in asked
    <3>1. ~IsLoading(d.game)
      BY <1>0, <2>1
    <3>2. downloads[d] = 0 /\ downloads[e] = 0
      BY <2>0, <3>1 DEF IsLoading
    <3>3. /\ d.app = games'[d.game].app /\ downloads'[d] = 1
          /\ e.app = games'[d.game].app
          /\ ~isValidArtworkFile(covers[d.game])
      BY <1>5, <3>2
    <3>4. d = [game |-> d.game, app |-> d.app, type |-> d.type]
          /\ e = [game |-> e.game, app |-> e.app, type |-> e.type]
      BY DEF Download
    <3> QED
      BY <3>3, <3>4
  <2>2. CASE d.game \notin asked
    <3>1. d.game \in Stored \ overlapped
      BY <1>0, <2>2 DEF AskingStep
    <3>2. downloads'[d] = downloads[d] /\ downloads'[e] = downloads[e]
      BY <1>5, <2>2
    <3> QED
      BY <3>1, <3>2 DEF ArtworkInv, LoadingIsAlone, IsCover
  <2> QED
    BY <2>1, <2>2
<1>11. KeysHaveOneGame'
  <2>1. ASSUME NEW d \in Download, downloads'[d] > 0, d.game \notin recycled
        PROVE  d.game \in Stored' /\ d.app = games'[d.game].app
    <3>1. CASE downloads'[d] = downloads[d]
      <4>1. d.game \in Stored /\ d.app = games[d.game].app
        BY <2>1, <3>1 DEF ArtworkInv, KeysHaveOneGame
      <4> QED
        BY <1>1, <4>1 DEF AskingStep
    <3>2. CASE d.game \in asked /\ d.app = games'[d.game].app
      BY <3>2 DEF AskingStep
    <3> QED
      BY <1>5, <3>1, <3>2
  <2>2. ASSUME NEW g \in GameId, g \notin recycled, isValidArtworkFile(covers[g])
        PROVE  g \in Stored' /\ covers[g] = games'[g].app
    <3>1. g \in Stored /\ covers[g] = games[g].app
      BY <2>2 DEF ArtworkInv, KeysHaveOneGame
    <3> QED
      BY <1>1, <3>1 DEF AskingStep
  <2> QED
    BY <1>0, <2>1, <2>2 DEF KeysHaveOneGame
<1> QED
  BY <1>0, <1>4, <1>6, <1>7, <1>8, <1>9, <1>10, <1>11 DEF ArtworkInv, FlaggedIsStored

-----------------------------------------------------------------------------
\* What an announcement means for the faults, in the form the steps need.
LEMMA FaultsGrow ==
  ASSUME faults \in [Failure -> Nat], faults' \in [Failure -> Nat],
         \A k \in Failure : faults'[k] >= faults[k]
  PROVE  /\ faults["query"] > 0 => faults'["query"] > 0
         /\ faults'["write"] = 0 => faults["write"] = 0
<1>1. "query" \in Failure /\ "write" \in Failure
  BY DEF Failure
<1>2. /\ faults["query"] \in Nat /\ faults["write"] \in Nat
      /\ faults'["query"] \in Nat /\ faults'["write"] \in Nat
  BY <1>1
<1> QED
  BY <1>1, <1>2

\* A reply that is recorded, with the covers it announces.
LEMMA RecordedReply ==
  ASSUME TypeOK, IndexesAreWhole, FlaggedIsStored,
         NEW available \in SUBSET GameId, NEW unavailable \in SUBSET GameId,
         available \cap unavailable = {}, NEW syncFails \in BOOLEAN,
         RecordReply(available, unavailable, syncFails)
  PROVE  /\ Announcement(available, unavailable, syncFails, FALSE)
         /\ UNCHANGED <<games, history>> /\ Redraw(available)
         /\ IndexTypes' /\ IndexesAreWhole'
         /\ faults'["write"] = 0 => faults["write"] = 0
<1>0. ArtworkTypes /\ IndexTypes
  BY TypeParts
<1>1. /\ Announce(available, unavailable, syncFails, FALSE)
      /\ UNCHANGED <<games, history>> /\ Redraw(available)
      /\ SyncIfWritten(syncFails)
  BY DEF RecordReply
<1>2. hasArtwork \subseteq Stored'
  BY <1>1 DEF FlaggedIsStored, Stored
<1>3. Announcement(available, unavailable, syncFails, FALSE)
  BY <1>0, <1>1, <1>2, AnnouncementWrites
<1>4. /\ syncFails => faults'["query"] > 0
      /\ faults["query"] > 0 => faults'["query"] > 0
      /\ faults'["write"] = 0 => faults["write"] = 0
  BY <1>0, <1>3, FaultsGrow DEF Announcement, ArtworkTypes
<1>5. IndexTypes' /\ IndexesAreWhole'
  <2>1. UNCHANGED games
    BY <1>1
  <2> QED
    BY <1>0, <1>1, <1>4, <2>1, RebuildIfWritten
<1> QED
  BY <1>1, <1>3, <1>4, <1>5

LEMMA ReplyIsTaken ==
  ASSUME ArtworkTypes, NEW d \in Download, TakeReply(d)
  PROVE  /\ downloads' \in [Download -> Nat]
         /\ downloads[d] > 0 /\ downloads'[d] = downloads[d] - 1
         /\ \A e \in Download \ {d} : downloads'[e] = downloads[e]
  BY DEF ArtworkTypes, TakeReply

\* The outcome of a cover's download: `file' is filed, and announced as a
\* cover or as none.
CoverReplied(d, file, good) ==
  /\ TakeReply(d) /\ d.type = "Cover"
  /\ covers' = [covers EXCEPT ![d.game] = file]
  /\ IF good THEN file = d.app ELSE file \in {NoFile, covers[d.game]}
  /\ IF good THEN Announcement({d.game}, {}, FALSE, FALSE)
             ELSE Announcement({}, {d.game}, FALSE, FALSE)

LEMMA CoverReplyKeepsArtwork ==
  ASSUME ArtworkTypes, ArtworkInv, NEW d \in Download, NEW file \in File,
         NEW good \in BOOLEAN, CoverReplied(d, file, good),
         UNCHANGED <<games, history>>
  PROVE  ArtworkTypes' /\ ArtworkInv'
<1>0. d.game \in GameId /\ d.app \in App /\ NoFile \notin App /\ d.type = "Cover"
  BY ArtworkAssumption DEF Download, CoverReplied
<1>1. /\ downloads' \in [Download -> Nat]
      /\ downloads[d] > 0 /\ downloads'[d] = downloads[d] - 1
      /\ \A e \in Download \ {d} : downloads'[e] = downloads[e]
  BY ReplyIsTaken DEF CoverReplied
<1>2. Stored' = Stored /\ recycled' = recycled /\ overlapped' = overlapped /\ torn' = torn
  BY DEF Stored, history
<1>3. /\ hasArtwork' \subseteq Stored /\ faults' \in [Failure -> Nat]
      /\ faults'["write"] = 0 => faults["write"] = 0
  BY <1>2, FaultsGrow DEF CoverReplied, Announcement, ArtworkTypes
<1>4. /\ covers'[d.game] = file
      /\ \A g \in GameId \ {d.game} : covers'[g] = covers[g]
      /\ covers' \in [GameId -> File]
  BY <1>0 DEF CoverReplied, ArtworkTypes
<1>5. good => /\ isValidArtworkFile(covers'[d.game]) /\ covers'[d.game] = d.app
              /\ faults'["write"] = 0 => hasArtwork' = hasArtwork \cup ({d.game} \cap Stored)
  BY <1>0, <1>2, <1>4 DEF CoverReplied, Announcement, isValidArtworkFile
<1>6. ~good => /\ covers'[d.game] = covers[d.game] \/ ~isValidArtworkFile(covers'[d.game])
               /\ faults'["write"] = 0 => hasArtwork' = hasArtwork \ {d.game}
  BY <1>0, <1>2, <1>4 DEF CoverReplied, Announcement, isValidArtworkFile
<1>7. /\ hasArtwork \subseteq Stored
      /\ downloads[d] \in Nat
      /\ d.game \in Stored \ overlapped => downloads[d] = 1 /\ ~isValidArtworkFile(covers[d.game])
      /\ d.game \notin recycled => d.game \in Stored /\ d.app = games[d.game].app
  BY <1>0, <1>1 DEF ArtworkInv, FlaggedIsStored, LoadingIsAlone, KeysHaveOneGame, IsCover, ArtworkTypes
<1>8. ArtworkTypes'
  BY <1>1, <1>2, <1>3, <1>4 DEF ArtworkTypes, Stored, history
<1>9. FlagMeansCover'
  <2> SUFFICES ASSUME faults'["write"] = 0, NEW g \in hasArtwork' \ torn
               PROVE  g \in Stored /\ isValidArtworkFile(covers'[g])
    BY <1>2 DEF FlagMeansCover
  <2>1. CASE g = d.game
    BY <1>3, <1>5, <1>6, <2>1
  <2>2. CASE g # d.game
    <3>1. g \in hasArtwork \ torn
      BY <1>5, <1>6, <2>2
    <3>2. covers'[g] = covers[g]
      BY <1>4, <1>7, <2>2, <3>1 DEF Stored
    <3> QED
      BY <1>3, <3>1, <3>2 DEF ArtworkInv, FlagMeansCover
  <2> QED
    BY <2>1, <2>2
<1>10. CoverIsFlagged'
  <2> SUFFICES ASSUME faults'["write"] = 0, NEW g \in Stored \ (overlapped \cup torn),
                      isValidArtworkFile(covers'[g])
               PROVE  g \in hasArtwork'
    BY <1>2 DEF CoverIsFlagged
  <2>1. CASE g = d.game
    BY <1>5, <1>6, <1>7, <2>1
  <2>2. CASE g # d.game
    <3>1. covers'[g] = covers[g]
      BY <1>4, <2>2 DEF Stored
    <3>2. g \in hasArtwork
      BY <1>3, <3>1 DEF ArtworkInv, CoverIsFlagged
    <3> QED
      BY <1>5, <1>6, <2>2, <3>2
  <2> QED
    BY <2>1, <2>2
<1>11. LoadingIsAlone'
  <2> SUFFICES ASSUME NEW x \in Download, NEW y \in Download, x.type = "Cover", y.type = "Cover",
                      downloads'[x] > 0, downloads'[y] > 0, x.game = y.game,
                      x.game \in Stored \ overlapped
               PROVE  x = y /\ downloads'[x] = 1 /\ ~isValidArtworkFile(covers'[x.game])
    BY <1>2 DEF LoadingIsAlone, IsCover
  <2>1. x # d /\ y # d
    BY <1>1, <1>7
  <2>2. downloads'[x] = downloads[x] /\ downloads'[y] = downloads[y]
    BY <1>1, <2>1
  <2>3. x = y /\ downloads[x] = 1 /\ ~isValidArtworkFile(covers[x.game])
    BY <2>2 DEF ArtworkInv, LoadingIsAlone, IsCover
  <2>4. x.game # d.game
    BY <1>0, <1>1, <2>1, <2>2 DEF ArtworkInv, LoadingIsAlone, IsCover
  <2> QED
    BY <1>4, <2>2, <2>3, <2>4 DEF Download
<1>12. KeysHaveOneGame'
  <2>1. \A e \in Download : downloads'[e] > 0 => downloads[e] > 0
    BY <1>1
  <2>2. ASSUME NEW g \in GameId, g \notin recycled, isValidArtworkFile(covers'[g])
        PROVE  g \in Stored /\ covers'[g] = games[g].app
    <3>1. CASE covers'[g] = covers[g]
      BY <2>2, <3>1 DEF ArtworkInv, KeysHaveOneGame
    <3>2. CASE g = d.game /\ good
      BY <1>5, <1>7, <2>2, <3>2
    <3> QED
      BY <1>4, <1>6, <2>2, <3>1, <3>2
  <2> QED
    BY <1>2, <2>1, <2>2 DEF ArtworkInv, KeysHaveOneGame
<1> QED
  BY <1>2, <1>3, <1>8, <1>9, <1>10, <1>11, <1>12 DEF ArtworkInv, FlaggedIsStored

LEMMA OtherReplyKeepsArtwork ==
  ASSUME ArtworkTypes, ArtworkInv, NEW d \in Download, TakeReply(d), d.type # "Cover",
         UNCHANGED <<covers, games, history>>, Announcement({}, {}, FALSE, FALSE)
  PROVE  ArtworkTypes' /\ ArtworkInv'
<1>1. /\ downloads' \in [Download -> Nat]
      /\ downloads[d] > 0 /\ downloads'[d] = downloads[d] - 1
      /\ \A e \in Download \ {d} : downloads'[e] = downloads[e]
  BY ReplyIsTaken
<1>2. Stored' = Stored /\ recycled' = recycled /\ overlapped' = overlapped /\ torn' = torn
  BY DEF Stored, history
<1>3. /\ hasArtwork' \subseteq Stored /\ faults' \in [Failure -> Nat]
      /\ faults'["write"] = 0 => faults["write"] = 0 /\ hasArtwork' = hasArtwork
  BY <1>2, FaultsGrow DEF Announcement, ArtworkTypes
<1>4. /\ \A e \in Download : e.type = "Cover" => downloads'[e] = downloads[e]
      /\ \A e \in Download : downloads'[e] > 0 => downloads[e] > 0
  BY <1>1
<1>5. ArtworkTypes'
  BY <1>1, <1>2, <1>3 DEF ArtworkTypes, Stored
<1>6. FlagMeansCover' /\ CoverIsFlagged'
  BY <1>2, <1>3 DEF ArtworkInv, FlagMeansCover, CoverIsFlagged
<1>7. LoadingIsAlone'
  BY <1>2, <1>4 DEF ArtworkInv, LoadingIsAlone, IsCover
<1>8. KeysHaveOneGame'
  BY <1>2, <1>4 DEF ArtworkInv, KeysHaveOneGame
<1> QED
  BY <1>2, <1>3, <1>5, <1>6, <1>7, <1>8 DEF ArtworkInv, FlaggedIsStored

-----------------------------------------------------------------------------
(* Every action keeps the invariant.                                       *)

LEMMA AskingKeepsAll ==
  ASSUME IInv, NEW asked \in SUBSET GameId, AskingStep(asked),
         NEW syncFails \in BOOLEAN, NEW insertFails \in BOOLEAN,
         AskForArtwork(asked, syncFails, insertFails),
         \/ SyncGamesWithDatabase(syncFails)
         \/ UNCHANGED games /\ SyncIfWritten(syncFails),
         CardType' /\ CardShowsCover'
  PROVE  IInv'
<1>1. ArtworkTypes /\ IndexTypes /\ ArtworkInv /\ IndexesAreWhole
  BY TypeParts DEF IInv, ArtworkInv
<1>2. /\ ArtworkTypes' /\ ArtworkInv'
      /\ syncFails => faults'["query"] > 0
      /\ faults["query"] > 0 => faults'["query"] > 0
  BY <1>1, AskingKeepsArtwork
<1>3. games' \in [GameId -> Game \cup {NoGame}]
  BY DEF AskingStep
<1>4. IndexTypes' /\ IndexesAreWhole'
  <2>1. CASE SyncGamesWithDatabase(syncFails)
    BY <1>2, <1>3, <2>1, RebuildIsWhole
  <2>2. CASE UNCHANGED games /\ SyncIfWritten(syncFails)
    BY <1>1, <1>2, <2>2, RebuildIfWritten
  <2> QED
    BY <2>1, <2>2
<1>5. TypeOK'
  BY <1>2, <1>4, TypeParts DEF TypeOK, ArtworkTypes, IndexTypes, CardType
<1> QED
  BY <1>2, <1>4, <1>5 DEF IInv, ArtworkInv

\* A card drawn again from files that did not change.
LEMMA CardWithoutReply ==
  ASSUME CardType, CardShowsCover, UNCHANGED covers, NEW asked \in SUBSET GameId,
         Redraw(Covered(asked))
  PROVE  CardType' /\ CardShowsCover'
<1>1. PICK available \in SUBSET GameId : available = Covered(asked)
  BY DEF Covered
<1>2. Redraw(available) /\ \A g \in GameId \ available : covers'[g] = covers[g]
  BY <1>1
<1> QED
  BY <1>2, RedrawnCardIsRight

LEMMA AddGameKeeps ==
  ASSUME IInv, NEW g \in GameId, NEW form \in GameForms, NEW syncFails \in BOOLEAN,
         AddGame(g, form, syncFails)
  PROVE  IInv'
<1>1. /\ AreNextKeys({g}) /\ games' = [games EXCEPT ![g] = GameOf(g, form)]
      /\ AskForArtwork({g}, syncFails, FALSE) /\ SyncGamesWithDatabase(syncFails)
      /\ Redraw(Covered({g})) /\ recycled' = recycled
  BY DEF AddGame
<1>2. GameOf(g, form) \in Game /\ GameOf(g, form) # NoGame
  BY CatalogAssumption, NoGameAssumption DEF GameOf, Game
<1>3. games \in [GameId -> Game \cup {NoGame}] /\ CardType /\ CardShowsCover
  BY TypeParts DEF IInv, ArtworkTypes
<1>4. g \notin Stored
  BY <1>1, GameIdAssumption DEF AreNextKeys, Stored
<1>5. AskingStep({g})
  BY <1>1, <1>2, <1>3, <1>4 DEF AskingStep, Stored
<1>6. CardType' /\ CardShowsCover'
  <2>1. UNCHANGED covers
    BY <1>1 DEF AskForArtwork
  <2> QED
    BY <1>1, <1>3, <2>1, CardWithoutReply
<1> QED
  BY <1>1, <1>5, <1>6, AskingKeepsAll

LEMMA NewKeysAreFree ==
  ASSUME NEW keys \in SUBSET GameId, AreNextKeys(keys) PROVE keys \cap Stored = {}
<1> SUFFICES ASSUME NEW k \in keys, k \in Stored PROVE FALSE
  OBVIOUS
<1>1. k < k /\ k \in Nat
  BY GameIdAssumption DEF AreNextKeys
<1> QED
  BY <1>1

LEMMA SteamGameIsGame ==
  ASSUME NEW g \in GameId, NEW app \in App
  PROVE  SteamGame(g, app) \in Game /\ SteamGame(g, app) # NoGame
         /\ SteamGame(g, app).app = app
<1>1. SteamGame(g, app) \in Game /\ SteamGame(g, app).app = app
  BY DEF SteamGame, Game
<1> QED
  BY <1>1, NoGameAssumption

LEMMA MappedAppsAreApps ==
  ASSUME NEW payload \in Payloads PROVE MappedApps(payload) \subseteq App
<1>1. payload \subseteq Entry
  BY CatalogAssumption
<1> QED
  BY <1>1 DEF MappedApps, Entry

\* The table after an import.
LEMMA ImportedGames ==
  ASSUME games \in [GameId -> Game \cup {NoGame}],
         NEW keys \in SUBSET GameId, AreNextKeys(keys), NEW apps \in SUBSET App,
         NEW appOf \in Bijection(keys, apps),
         games' = [g \in GameId |-> IF g \in keys THEN SteamGame(g, appOf[g]) ELSE games[g]]
  PROVE  /\ games' \in [GameId -> Game \cup {NoGame}]
         /\ keys \subseteq Stored' /\ Stored' \subseteq keys \cup Stored
         /\ \A g \in Stored : games'[g] = games[g]
         /\ \A a \in apps : \E g \in Stored' : games'[g].app = a
<1>1. appOf \in [keys -> apps] /\ \A a \in apps : \E g \in keys : appOf[g] = a
  BY DEF Bijection, Injection, Surjection
<1>2. \A g \in keys : /\ games'[g] \in Game /\ games'[g] # NoGame
                      /\ games'[g].app = appOf[g]
  BY <1>1, SteamGameIsGame
<1>3. \A g \in GameId \ keys : games'[g] = games[g]
  OBVIOUS
<1>4. keys \cap Stored = {}
  BY NewKeysAreFree
<1>5. games' \in [GameId -> Game \cup {NoGame}]
  <2>1. \A g \in GameId : games'[g] \in Game \cup {NoGame}
    BY <1>2, <1>3
  <2> QED
    BY <2>1
<1>6. keys \subseteq Stored' /\ Stored' \subseteq keys \cup Stored
  BY <1>2, <1>3 DEF Stored
<1> QED
  BY <1>1, <1>2, <1>3, <1>4, <1>5, <1>6 DEF Stored

LEMMA ImportKeeps ==
  ASSUME IInv, NEW payload \in Payloads, NEW knownFails \in BOOLEAN,
         NEW syncFails \in BOOLEAN, OnSteamGamesReceived(payload, knownFails, syncFails)
  PROVE  IInv'
<1> DEFINE new == {a \in MappedApps(payload) \ KnownApps(knownFails) : AppIsFree(a)}
<1>1. PICK apps \in SUBSET new, keys \in SUBSET GameId :
        /\ AreNextKeys(keys)
        /\ \E appOf \in Bijection(keys, apps) :
             games' = [g \in GameId |->
                         IF g \in keys THEN SteamGame(g, appOf[g]) ELSE games[g]]
        /\ AskForArtwork(keys, syncFails, apps # new)
        /\ Redraw(Covered(keys))
        /\ SyncGamesWithDatabase(syncFails) /\ recycled' = recycled
  BY DEF OnSteamGamesReceived
<1>2. apps \in SUBSET App
  BY MappedAppsAreApps
<1>3. games \in [GameId -> Game \cup {NoGame}] /\ CardType /\ CardShowsCover
  BY TypeParts DEF IInv, ArtworkTypes
<1>4. /\ games' \in [GameId -> Game \cup {NoGame}]
      /\ keys \subseteq Stored' /\ Stored' \subseteq keys \cup Stored
      /\ \A g \in Stored : games'[g] = games[g]
  BY <1>1, <1>2, <1>3, ImportedGames
<1>5. AskingStep(keys)
  BY <1>1, <1>4 DEF AskingStep
<1>6. CardType' /\ CardShowsCover'
  <2>1. UNCHANGED covers
    BY <1>1 DEF AskForArtwork
  <2> QED
    BY <1>1, <1>3, <2>1, CardWithoutReply
<1>7. PICK insertFails \in BOOLEAN : AskForArtwork(keys, syncFails, insertFails)
  <2>1. (apps # new) \in BOOLEAN
    OBVIOUS
  <2> QED
    BY <1>1, <2>1
<1> QED
  BY <1>1, <1>5, <1>6, <1>7, AskingKeepsAll

LEMMA SessionStartedKeeps ==
  ASSUME IInv, NEW g \in GameId, NEW syncFails \in BOOLEAN, OnSessionStarted(g, syncFails)
  PROVE  IInv'
<1>1. /\ g \in Stored /\ UNCHANGED games /\ recycled' = recycled
      /\ AskForArtwork({g}, syncFails, FALSE)
      /\ card' = CardOf(g, covers[g]) /\ SyncIfWritten(syncFails)
  BY DEF OnSessionStarted
<1>2. AskingStep({g})
  BY <1>1, TypeParts DEF IInv, ArtworkTypes, AskingStep, Stored
<1>3. CardType' /\ CardShowsCover'
  <2>1. UNCHANGED covers
    BY <1>1 DEF AskForArtwork
  <2> QED
    BY <1>1, <2>1, CardIsTyped DEF CardType, CardShowsCover
<1> QED
  BY <1>1, <1>2, <1>3, AskingKeepsAll

\* A call that may only fail in a query, and rebuilds the indexes.
LEMMA OneQuery ==
  ASSUME TypeOK, IndexesAreWhole, games' \in [GameId -> Game \cup {NoGame}],
         NEW syncFails \in BOOLEAN, NEW others \in SUBSET {"exit"},
         Failing(others \cup If(syncFails, "query")), SyncGamesWithDatabase(syncFails)
  PROVE  /\ IndexTypes' /\ IndexesAreWhole'
         /\ faults' \in [Failure -> Nat] /\ faults'["write"] = faults["write"]
<1> DEFINE kinds == others \cup If(syncFails, "query")
<1>1. faults \in [Failure -> Nat]
  BY TypeParts DEF ArtworkTypes
<1>2. kinds \in SUBSET Failure
  BY DEF Failure, If
<1>3. faults' \in [Failure -> Nat] /\ \A k \in kinds : faults'[k] > faults[k]
  <2> HIDE DEF kinds
  <2>1. Failing(kinds)
    BY DEF kinds
  <2> QED
    BY <1>1, <1>2, <2>1, FailuresCount
<1>4. syncFails => faults'["query"] > 0
  <2>1. syncFails => "query" \in kinds
    BY DEF If
  <2>2. "query" \in Failure
    BY DEF Failure
  <2>3. faults["query"] \in Nat /\ faults'["query"] \in Nat
    BY <1>1, <1>3, <2>2
  <2> HIDE DEF kinds
  <2> QED
    BY <1>3, <2>1, <2>3
<1>5. faults'["write"] = faults["write"]
  <2>1. "write" \notin kinds /\ "write" \in Failure
    BY DEF If, Failure
  <2>2. faults["write"] \in Nat
    BY <1>1, <2>1
  <2> HIDE DEF kinds
  <2>3. faults' = [k \in Failure |-> faults[k] + (IF k \in kinds THEN 1 ELSE 0)]
    BY DEF Failing, kinds
  <2> QED
    BY <2>1, <2>2, <2>3
<1> QED
  BY <1>3, <1>4, <1>5, RebuildIsWhole

LEMMA RemoveGameKeeps ==
  ASSUME IInv, NEW g \in GameId, NEW syncFails \in BOOLEAN, RemoveGame(g, syncFails)
  PROVE  IInv'
<1>1. /\ games' = [games EXCEPT ![g] = NoGame] /\ hasArtwork' = hasArtwork \ {g}
      /\ SyncGamesWithDatabase(syncFails) /\ recycled' = recycled \cup {g}
      /\ Failing({} \cup If(syncFails, "query"))
      /\ overlapped' = overlapped \ {g} /\ torn' = torn \ {g}
      /\ UNCHANGED <<covers, downloads, card>>
  BY DEF RemoveGame, artwork
<1>2. ArtworkTypes /\ IndexTypes /\ CardType /\ CardShowsCover
  BY TypeParts DEF IInv
<1>3. games' \in [GameId -> Game \cup {NoGame}]
  BY <1>1, <1>2 DEF ArtworkTypes
<1>4. /\ IndexTypes' /\ IndexesAreWhole'
      /\ faults' \in [Failure -> Nat] /\ faults'["write"] = faults["write"]
  <2>1. TypeOK /\ IndexesAreWhole /\ {} \in SUBSET {"exit"}
    BY DEF IInv
  <2> QED
    BY <1>1, <1>3, <2>1, OneQuery
<1>5. Stored' = Stored \ {g}
  BY <1>1, <1>2 DEF Stored, ArtworkTypes
<1>6. \A h \in GameId \ {g} : games'[h] = games[h]
  BY <1>1, <1>2 DEF ArtworkTypes
<1>7. ArtworkTypes' /\ CardType'
  BY <1>1, <1>2, <1>3, <1>4 DEF ArtworkTypes, CardType
<1>8. FlaggedIsStored' /\ FlagMeansCover' /\ CoverIsFlagged'
  BY <1>1, <1>4, <1>5 DEF IInv, FlaggedIsStored, FlagMeansCover, CoverIsFlagged
<1>9. LoadingIsAlone'
  BY <1>1, <1>5 DEF IInv, LoadingIsAlone, IsCover
<1>10. KeysHaveOneGame'
  <2>1. ASSUME NEW d \in Download, downloads[d] > 0, d.game \notin recycled'
        PROVE  d.game \in Stored' /\ d.app = games'[d.game].app
    BY <1>1, <1>5, <1>6, <2>1 DEF IInv, KeysHaveOneGame, Download
  <2>2. ASSUME NEW h \in GameId \ recycled', isValidArtworkFile(covers[h])
        PROVE  h \in Stored' /\ covers[h] = games'[h].app
    BY <1>1, <1>5, <1>6, <2>2 DEF IInv, KeysHaveOneGame
  <2> QED
    BY <1>1, <2>1, <2>2 DEF KeysHaveOneGame
<1>11. CardShowsCover'
  BY <1>1, <1>2 DEF CardShowsCover
<1>12. TypeOK'
  BY <1>4, <1>7 DEF TypeOK, ArtworkTypes, IndexTypes, CardType
<1> QED
  BY <1>4, <1>8, <1>9, <1>10, <1>11, <1>12 DEF IInv

LEMMA SessionFinishedKeeps == ASSUME IInv, OnSessionFinished PROVE IInv'
<1>1. card' = NoCard /\ UNCHANGED <<games, hasArtwork, trackedSteamGames, trackedPathGames,
                                    covers, downloads, faults, recycled, overlapped, torn>>
  BY DEF OnSessionFinished, table, indexes, artwork, history
<1> QED
  BY <1>1 DEF IInv, TypeOK, IndexesAreWhole, FlaggedIsStored, FlagMeansCover, CoverIsFlagged,
              LoadingIsAlone, KeysHaveOneGame, CardShowsCover, Stored, IsCover

\* An exit: nothing is left on its way, and the files are as they were but
\* for those that are torn.
LEMMA ExitKeeps ==
  ASSUME IInv, UNCHANGED <<games, hasArtwork, recycled, overlapped>>,
         downloads' = NoDownloads, card' = NoCard,
         NEW syncFails \in BOOLEAN, NEW others \in SUBSET {"exit"},
         Failing(others \cup If(syncFails, "query")), SyncGamesWithDatabase(syncFails),
         covers' \in [GameId -> File], torn' \in SUBSET GameId, torn \subseteq torn',
         \A g \in GameId : \/ covers'[g] = covers[g]
                           \/ /\ g \in torn'
                              /\ isValidArtworkFile(covers'[g]) /\ g \notin recycled
                                 => g \in Stored /\ covers'[g] = games[g].app
  PROVE  IInv'
<1>1. ArtworkTypes
  BY TypeParts DEF IInv
<1>2. games' \in [GameId -> Game \cup {NoGame}]
  BY <1>1 DEF ArtworkTypes
<1>3. /\ IndexTypes' /\ IndexesAreWhole'
      /\ faults' \in [Failure -> Nat] /\ faults'["write"] = faults["write"]
  BY <1>2, OneQuery DEF IInv
<1>4. Stored' = Stored /\ Stored \subseteq GameId
  BY DEF Stored
<1>5. \A d \in Download : downloads'[d] = 0
  BY DEF NoDownloads
<1>6. ArtworkTypes'
  BY <1>1, <1>2, <1>3, <1>5 DEF ArtworkTypes, NoDownloads
<1>7. FlaggedIsStored' /\ FlagMeansCover'
  <2>1. \A g \in hasArtwork \ torn' : g \in GameId /\ covers'[g] = covers[g]
    BY <1>1 DEF ArtworkTypes
  <2> QED
    BY <1>3, <1>4, <2>1 DEF IInv, FlaggedIsStored, FlagMeansCover
<1>8. CoverIsFlagged'
  <2>1. \A g \in Stored \ torn' : covers'[g] = covers[g]
    BY <1>4
  <2> QED
    BY <1>3, <1>4, <2>1 DEF IInv, CoverIsFlagged
<1>9. LoadingIsAlone'
  BY <1>5 DEF LoadingIsAlone, IsCover
<1>10. KeysHaveOneGame'
  BY <1>4, <1>5 DEF IInv, KeysHaveOneGame
<1>11. CardType' /\ CardShowsCover'
  BY DEF CardType, CardShowsCover
<1>12. TypeOK'
  BY <1>3, <1>6, <1>11 DEF TypeOK, ArtworkTypes, IndexTypes, CardType
<1> QED
  BY <1>3, <1>7, <1>8, <1>9, <1>10, <1>11, <1>12 DEF IInv

LEMMA RestartKeeps ==
  ASSUME IInv, NEW syncFails \in BOOLEAN, Restart(syncFails) PROVE IInv'
<1>1. /\ UNCHANGED <<games, hasArtwork, covers, recycled, overlapped, torn>>
      /\ downloads' = NoDownloads /\ card' = NoCard
      /\ Failing({} \cup If(syncFails, "query")) /\ SyncGamesWithDatabase(syncFails)
  BY DEF Restart, table, history
<1>2. covers' \in [GameId -> File] /\ torn' \in SUBSET GameId /\ torn \subseteq torn'
  BY <1>1, TypeParts DEF IInv, ArtworkTypes
<1>3. \A g \in GameId : covers'[g] = covers[g]
  BY <1>1
<1>4. {} \in SUBSET {"exit"}
  OBVIOUS
<1> QED
  BY <1>1, <1>2, <1>3, <1>4, ExitKeeps

LEMMA ExitWhileWritingKeeps ==
  ASSUME IInv, NEW d \in Download, NEW file \in {BadFile, d.app}, NEW syncFails \in BOOLEAN,
         ExitWhileWriting(d, file, syncFails)
  PROVE  IInv'
<1>0. ArtworkTypes /\ d.game \in GameId /\ d.app \in App /\ BadFile \notin App
  BY TypeParts, ArtworkAssumption DEF IInv, Download
<1>1. /\ UNCHANGED <<games, hasArtwork, recycled, overlapped>>
      /\ covers' = [covers EXCEPT ![d.game] = file] /\ torn' = torn \cup {d.game}
      /\ downloads' = NoDownloads /\ card' = NoCard /\ downloads[d] > 0
      /\ Failing({"exit"} \cup If(syncFails, "query")) /\ SyncGamesWithDatabase(syncFails)
  BY DEF ExitWhileWriting, table
<1>2. covers' \in [GameId -> File] /\ torn' \in SUBSET GameId /\ torn \subseteq torn'
  BY <1>0, <1>1 DEF ArtworkTypes, File
<1>3. ASSUME NEW g \in GameId, covers'[g] # covers[g],
             isValidArtworkFile(covers'[g]), g \notin recycled
      PROVE  g \in Stored /\ covers'[g] = games[g].app
  <2>1. g = d.game /\ covers'[g] = file
    BY <1>0, <1>1, <1>3 DEF ArtworkTypes
  <2>2. file = d.app
    BY <1>0, <1>3, <2>1 DEF isValidArtworkFile
  <2> QED
    BY <1>1, <1>3, <2>1, <2>2 DEF IInv, KeysHaveOneGame
<1>4. \A g \in GameId : g \in torn' \/ covers'[g] = covers[g]
  BY <1>0, <1>1 DEF ArtworkTypes
<1>5. {"exit"} \in SUBSET {"exit"}
  OBVIOUS
<1> QED
  BY <1>1, <1>2, <1>3, <1>4, <1>5, ExitKeeps

\* A reply about a cover, whatever became of it.
LEMMA CoverReplyKeeps ==
  ASSUME IInv, NEW d \in Download, NEW file \in File, NEW good \in BOOLEAN,
         CoverReplied(d, file, good), UNCHANGED <<games, history>>,
         IF good THEN Redraw({d.game}) ELSE Redraw({}),
         IndexTypes' /\ IndexesAreWhole'
  PROVE  IInv'
<1>1. ArtworkTypes /\ ArtworkInv /\ CardType /\ CardShowsCover /\ d.game \in GameId
  BY TypeParts DEF IInv, ArtworkInv, Download
<1>2. ArtworkTypes' /\ ArtworkInv'
  BY <1>1, CoverReplyKeepsArtwork
<1>3. covers' = [covers EXCEPT ![d.game] = file]
      /\ (~good => file \in {NoFile, covers[d.game]})
  BY DEF CoverReplied
<1>4. CardType' /\ CardShowsCover'
  <2>1. CASE good
    <3>1. \A g \in GameId \ {d.game} : covers'[g] = covers[g]
      BY <1>1, <1>3 DEF ArtworkTypes
    <3>2. Redraw({d.game}) /\ {d.game} \in SUBSET GameId
      BY <1>1, <2>1
    <3> QED
      BY <1>1, <3>1, <3>2, RedrawnCardIsRight
  <2>2. CASE ~good
    <3>1. \A g \in GameId : isValidArtworkFile(covers'[g]) => covers'[g] = covers[g]
      BY <1>1, <1>3, <2>2, ArtworkAssumption DEF ArtworkTypes, isValidArtworkFile
    <3>2. Redraw({}) /\ {} \in SUBSET GameId
      BY <2>2
    <3> QED
      BY <1>1, <3>1, <3>2, RedrawnCardIsRight
  <2> QED
    BY <2>1, <2>2
<1>5. TypeOK'
  BY <1>2, <1>4 DEF TypeOK, ArtworkTypes, IndexTypes, CardType
<1> QED
  BY <1>2, <1>4, <1>5 DEF IInv, ArtworkInv

\* Headers and logos concern nobody.
LEMMA OtherReplyKeeps ==
  ASSUME IInv, NEW d \in Download, TakeReply(d), d.type # "Cover", UNCHANGED covers,
         NEW syncFails \in BOOLEAN, RecordReply({}, {}, syncFails)
  PROVE  IInv'
<1>1. TypeOK /\ IndexesAreWhole /\ FlaggedIsStored /\ {} \in SUBSET GameId /\ {} \cap {} = {}
  BY DEF IInv
<1>2. /\ Announcement({}, {}, syncFails, FALSE)
      /\ UNCHANGED <<games, history>> /\ Redraw({})
      /\ IndexTypes' /\ IndexesAreWhole'
  BY <1>1, RecordedReply
<1>3. ArtworkTypes /\ ArtworkInv /\ CardType /\ CardShowsCover
  BY TypeParts DEF IInv, ArtworkInv
<1>4. Announcement({}, {}, FALSE, FALSE)
  BY <1>2 DEF Announcement
<1>5. ArtworkTypes' /\ ArtworkInv'
  BY <1>2, <1>3, <1>4, OtherReplyKeepsArtwork
<1>6. CardType' /\ CardShowsCover'
  BY <1>1, <1>2, <1>3, RedrawnCardIsRight
<1>7. TypeOK'
  BY <1>2, <1>5, <1>6 DEF TypeOK, ArtworkTypes, IndexTypes, CardType
<1> QED
  BY <1>2, <1>5, <1>6, <1>7 DEF IInv, ArtworkInv

LEMMA UselessReplyKeeps ==
  ASSUME IInv, NEW d \in Download, NEW syncFails \in BOOLEAN,
         ReplyUnusable(d, syncFails) \/ ReplyNotWritten(d, syncFails)
  PROVE  IInv'
<1>1. PICK file \in {NoFile, covers[d.game]} :
        /\ TakeReply(d) /\ RecordReply({}, Announced(d), syncFails)
        /\ covers' = IF d.type = "Cover" THEN [covers EXCEPT ![d.game] = file] ELSE covers
  <2>1. d.game \in GameId /\ covers \in [GameId -> File]
    BY TypeParts DEF IInv, ArtworkTypes, Download
  <2>2. CASE ReplyUnusable(d, syncFails)
    <3>1. covers = [covers EXCEPT ![d.game] = covers[d.game]]
      BY <2>1
    <3> QED
      BY <2>2, <3>1 DEF ReplyUnusable
  <2>3. CASE ReplyNotWritten(d, syncFails)
    BY <2>3 DEF ReplyNotWritten, FileCover
  <2> QED
    BY <2>2, <2>3
<1>2. CASE d.type = "Cover"
  <2>1. d.game \in GameId /\ file \in File /\ Announced(d) = {d.game}
        /\ {d.game} \in SUBSET GameId
    BY <1>2, TypeParts DEF IInv, ArtworkTypes, Download, File, Announced
  <2>2. TypeOK /\ IndexesAreWhole /\ FlaggedIsStored /\ {} \in SUBSET GameId
        /\ {} \cap {d.game} = {}
    BY DEF IInv
  <2>3. /\ Announcement({}, {d.game}, syncFails, FALSE)
        /\ UNCHANGED <<games, history>> /\ Redraw({})
        /\ IndexTypes' /\ IndexesAreWhole'
    BY <1>1, <2>1, <2>2, RecordedReply
  <2>4. CoverReplied(d, file, FALSE)
    BY <1>1, <1>2, <2>3 DEF CoverReplied, Announcement
  <2> QED
    BY <2>1, <2>3, <2>4, CoverReplyKeeps
<1>3. CASE d.type # "Cover"
  <2>1. RecordReply({}, {}, syncFails) /\ UNCHANGED covers
    BY <1>1, <1>3 DEF Announced
  <2> QED
    BY <1>1, <1>3, <2>1, OtherReplyKeeps
<1> QED
  BY <1>2, <1>3

LEMMA StoredReplyKeeps ==
  ASSUME IInv, NEW d \in Download, NEW syncFails \in BOOLEAN, ReplyStored(d, syncFails)
  PROVE  IInv'
<1>1. /\ TakeReply(d) /\ RecordReply(Announced(d), {}, syncFails)
      /\ covers' = IF d.type = "Cover" THEN [covers EXCEPT ![d.game] = d.app] ELSE covers
  BY DEF ReplyStored, FileCover
<1>2. CASE d.type = "Cover"
  <2>1. d.app \in File /\ Announced(d) = {d.game} /\ {d.game} \in SUBSET GameId
    BY <1>2 DEF Download, File, Announced
  <2>2. TypeOK /\ IndexesAreWhole /\ FlaggedIsStored /\ {} \in SUBSET GameId
        /\ {d.game} \cap {} = {}
    BY DEF IInv
  <2>3. /\ Announcement({d.game}, {}, syncFails, FALSE)
        /\ UNCHANGED <<games, history>> /\ Redraw({d.game})
        /\ IndexTypes' /\ IndexesAreWhole'
    BY <1>1, <2>1, <2>2, RecordedReply
  <2>4. CoverReplied(d, d.app, TRUE)
    BY <1>1, <1>2, <2>3 DEF CoverReplied, Announcement
  <2> QED
    BY <2>1, <2>3, <2>4, CoverReplyKeeps
<1>3. CASE d.type # "Cover"
  <2>1. RecordReply({}, {}, syncFails) /\ UNCHANGED covers
    BY <1>1, <1>3 DEF Announced
  <2> QED
    BY <1>1, <1>3, <2>1, OtherReplyKeeps
<1> QED
  BY <1>2, <1>3

-----------------------------------------------------------------------------
LEMMA InitIsGood == Init => IInv
<1> SUFFICES ASSUME Init PROVE IInv
  OBVIOUS
<1> USE DEF Init
<1>1. Stored = {}
  BY DEF Stored
<1>2. NoFile \notin App /\ \A d \in Download : downloads[d] = 0
  BY ArtworkAssumption DEF NoDownloads
<1>3. TypeOK
  BY <1>2 DEF TypeOK, File, NoDownloads
<1>4. IndexesAreWhole
  <2>1. GameRows(games) = {}
    BY DEF GameRows
  <2> QED
    BY <2>1 DEF IndexesAreWhole, TrackedSteamGames, IsPathIndex, TrackedWithPath
<1>5. FlaggedIsStored /\ FlagMeansCover /\ CoverIsFlagged /\ LoadingIsAlone /\ KeysHaveOneGame
  BY <1>1, <1>2 DEF FlaggedIsStored, FlagMeansCover, CoverIsFlagged, LoadingIsAlone, IsCover,
                    KeysHaveOneGame, isValidArtworkFile
<1> QED
  BY <1>3, <1>4, <1>5 DEF IInv, CardShowsCover

LEMMA NextKeepsAll == IInv /\ [Next]_vars => IInv'
<1> SUFFICES ASSUME IInv, [Next]_vars PROVE IInv'
  OBVIOUS
<1>1. CASE ClientCall
  BY <1>1, AddGameKeeps, RemoveGameKeeps, SessionStartedKeeps DEF ClientCall
<1>2. CASE OnSessionFinished
  BY <1>2, SessionFinishedKeeps
<1>3. CASE SteamReply
  BY <1>3, ImportKeeps DEF SteamReply
<1>4. CASE ArtworkReply
  BY <1>4, UselessReplyKeeps, StoredReplyKeeps DEF ArtworkReply
<1>5. CASE Exit
  BY <1>5, RestartKeeps, ExitWhileWritingKeeps DEF Exit
<1>6. CASE UNCHANGED vars
  BY <1>6 DEF vars, table, indexes, artwork, history, IInv, TypeOK, IndexesAreWhole,
              FlaggedIsStored, FlagMeansCover, CoverIsFlagged, LoadingIsAlone,
              KeysHaveOneGame, CardShowsCover, Stored, IsCover
<1> QED
  BY <1>1, <1>2, <1>3, <1>4, <1>5, <1>6 DEF Next

LEMMA Invariant == Spec => []IInv
  BY InitIsGood, NextKeepsAll, PTL DEF Spec

(* Every value keeps its type, whatever is added, imported, removed,       *)
(* downloaded or cut off.                                                  *)
THEOREM TypeCorrect == Spec => []TypeOK
<1>1. IInv => TypeOK
  BY DEF IInv
<1> QED
  BY <1>1, Invariant, PTL

(* The indexes of GameService are those of the games table, or empty after *)
(* a query that failed.                                                    *)
THEOREM DetectionUsesTheTable == Spec => []IndexesAreWhole
<1>1. IInv => IndexesAreWhole
  BY DEF IInv
<1> QED
  BY <1>1, Invariant, PTL

(* has_artwork is set only over a usable cover of a game that exists.      *)
THEOREM AFlagIsTrue == Spec => []FlagMeansCover
<1>1. IInv => FlagMeansCover
  BY DEF IInv
<1> QED
  BY <1>1, Invariant, PTL

(* A usable cover of a game has its flag, but after overlapping downloads. *)
THEOREM ACoverIsKnown == Spec => []CoverIsFlagged
<1>1. IInv => CoverIsFlagged
  BY DEF IInv
<1> QED
  BY <1>1, Invariant, PTL

(* A key that has had one game has that game's cover or none.              *)
THEOREM NoForeignCover == Spec => []CoverIsOfGame
<1>1. IInv => CoverIsOfGame
  BY DEF IInv, KeysHaveOneGame, CoverIsOfGame, Stored
<1> QED
  BY <1>1, Invariant, PTL

(* The card of the running session shows the cover on disk.                *)
THEOREM TheCardIsCurrent == Spec => []CardShowsCover
<1>1. IInv => CardShowsCover
  BY DEF IInv
<1> QED
  BY <1>1, Invariant, PTL

\* An import without a failed write has every game the reply names.
LEMMA ImportBringsAll ==
  ASSUME TypeOK, NEW payload \in Payloads, NEW knownFails \in BOOLEAN,
         NEW syncFails \in BOOLEAN, OnSteamGamesReceived(payload, knownFails, syncFails),
         faults'["write"] = faults["write"]
  PROVE  /\ \A e \in payload : e.app # NoApp /\ e.titled => \E g \in Stored' : games'[g].app = e.app
         /\ \A g \in Stored : games'[g] = games[g]
<1> DEFINE new == {a \in MappedApps(payload) \ KnownApps(knownFails) : AppIsFree(a)}
<1>1. PICK apps \in SUBSET new, keys \in SUBSET GameId :
        /\ AreNextKeys(keys)
        /\ \E appOf \in Bijection(keys, apps) :
             games' = [g \in GameId |->
                         IF g \in keys THEN SteamGame(g, appOf[g]) ELSE games[g]]
        /\ AskForArtwork(keys, syncFails, apps # new)
  BY DEF OnSteamGamesReceived
<1>2. apps \in SUBSET App
  BY MappedAppsAreApps
<1>3. games \in [GameId -> Game \cup {NoGame}] /\ ArtworkTypes
  BY TypeParts DEF ArtworkTypes
<1>4. /\ keys \subseteq Stored' /\ Stored' \subseteq keys \cup Stored
      /\ \A g \in Stored : games'[g] = games[g]
      /\ \A a \in apps : \E g \in Stored' : games'[g].app = a
  BY <1>1, <1>2, <1>3, ImportedGames
<1>5. Stored \subseteq Stored'
  BY <1>4 DEF Stored
<1>6. apps = new
  <2>1. PICK failed \in SUBSET Differing(Covered(keys), keys \ Covered(keys)) :
          Failing(If(syncFails, "query") \cup If(apps # new \/ failed # {}, "write"))
    BY <1>1 DEF AskForArtwork, Announce
  <2> DEFINE kinds == If(syncFails, "query") \cup If(apps # new \/ failed # {}, "write")
  <2>2. faults' = [k \in Failure |-> faults[k] + (IF k \in kinds THEN 1 ELSE 0)]
    BY <2>1 DEF Failing
  <2>3. "write" \in Failure /\ faults["write"] \in Nat
    BY <1>3 DEF Failure, ArtworkTypes
  <2>4. apps # new => "write" \in kinds
    BY DEF If
  <2> HIDE DEF kinds
  <2> QED
    BY <2>2, <2>3, <2>4
<1>7. ASSUME NEW e \in payload, e.app # NoApp, e.titled
      PROVE  \E g \in Stored' : games'[g].app = e.app
  <2>1. e.app \in MappedApps(payload)
    BY <1>7 DEF MappedApps
  <2>2. CASE e.app \in apps
    BY <1>4, <2>2
  <2>3. CASE e.app \notin apps
    <3>1. e.app \in KnownApps(knownFails) \/ ~AppIsFree(e.app)
      BY <1>6, <2>1, <2>3
    <3>2. PICK g \in Stored : games[g].app = e.app
      BY <3>1 DEF KnownApps, AppIsFree
    <3> QED
      BY <1>4, <1>5, <3>2
  <2> QED
    BY <2>2, <2>3
<1> QED
  BY <1>4, <1>7

(* A Steam reply brings in every game it names and touches none that is    *)
(* there, unless a write fails.                                            *)
THEOREM ImportsAreComplete == Spec => ImportIsComplete
<1> DEFINE P == \A payload \in Payloads, knownFails \in BOOLEAN :
        /\ games' # games /\ faults'["write"] = faults["write"]
        /\ \E syncFails \in BOOLEAN : OnSteamGamesReceived(payload, knownFails, syncFails)
        => /\ \A e \in payload : e.app # NoApp /\ e.titled => \E g \in Stored' : games'[g].app = e.app
           /\ \A g \in Stored : games'[g] = games[g]
<1>1. IInv => P
  <2> SUFFICES ASSUME IInv, NEW payload \in Payloads, NEW knownFails \in BOOLEAN,
                      NEW syncFails \in BOOLEAN,
                      OnSteamGamesReceived(payload, knownFails, syncFails),
                      faults'["write"] = faults["write"]
               PROVE  /\ \A e \in payload :
                            e.app # NoApp /\ e.titled => \E g \in Stored' : games'[g].app = e.app
                      /\ \A g \in Stored : games'[g] = games[g]
    OBVIOUS
  <2> QED
    BY ImportBringsAll DEF IInv
<1>2. IInv => [P]_vars
  BY <1>1
<1> QED
  BY <1>2, Invariant, PTL DEF ImportIsComplete
=============================================================================
