----------------------------- MODULE GameArtwork -----------------------------
(***************************************************************************)
(* GameArtworkService (application/services/web): the cover files, one     *)
(* directory per game key, and the downloads from Steam's CDN on their     *)
(* way.  Operators on two variables; GameCatalog composes them with the    *)
(* catalogue and the window that listens.                                  *)
(*                                                                         *)
(* A file is what a look at it can tell: the App ID whose cover it holds,  *)
(* nothing, or bytes that do not decode.  A download knows the key it was  *)
(* made for, and its reply is filed there; the App ID is only in its URL.  *)
(* Nothing calls a download off or joins two equal ones.  Only covers are  *)
(* read back, so header and logo have downloads but no file here.          *)
(***************************************************************************)
EXTENDS ProcessMatching, FiniteSets

CONSTANTS ArtworkType,    \* "Cover" and the others of kAllArtworkTypes
          NoFile,         \* no cover.jpg
          BadFile,        \* a cover.jpg that does not decode
          MaxKinds,       \* bounds: kinds of replies on their way,
          MaxEqual        \* and replies of one kind

ASSUME ArtworkAssumption == /\ "Cover" \in ArtworkType
                            /\ NoFile \notin App /\ BadFile \notin App
                            /\ MaxKinds \in Nat /\ MaxEqual \in Nat

VARIABLES covers,       \* artwork/<key>/cover.jpg
          downloads     \* how many replies of each kind are on their way

File == App \cup {NoFile, BadFile}

Download == [game : GameId, app : App, type : ArtworkType]

NoDownloads == [d \in Download |-> 0]

isValidArtworkFile(file) == file \in App

Covered(keys) == {g \in keys : isValidArtworkFile(covers[g])}

IsLoading(g) == \E d \in Download : d.game = g /\ d.type = "Cover" /\ downloads[d] > 0

-----------------------------------------------------------------------------
(* getGameArtwork for each of the games with keys `asked' in `table': a    *)
(* valid cover is announced, any other game is announced as having none    *)
(* and, with an App ID, has all its artwork requested once more.           *)
RequestedBy(asked, table) ==
  {d \in Download : d.game \in asked \ Covered(asked) /\ d.app = table[d.game].app}

GetSteamArtwork(requested) ==
  /\ \A d \in requested : downloads[d] < MaxEqual
  /\ Cardinality(requested \cup {d \in Download : downloads[d] > 0}) <= MaxKinds
  /\ downloads' = [d \in Download |-> downloads[d] + (IF d \in requested THEN 1 ELSE 0)]

\* Faulty: a reply of somebody else's request is taken too.
TakeAnyReply(d) == downloads' = [downloads EXCEPT ![d] = @ - 1]

(* A reply is handled once; what becomes of the cover depends on how far   *)
(* parseSteamArtworkReply gets.                                            *)
TakeReply(d) == /\ downloads[d] > 0
                /\ downloads' = [downloads EXCEPT ![d] = @ - 1]

\* Faulty: the reply is taken for whatever cover is awaited.
FileForAllLoading(d, file) ==
  covers' = [g \in GameId |-> IF d.type = "Cover" /\ IsLoading(g) THEN file ELSE covers[g]]

FileCover(d, file) == covers' = IF d.type = "Cover"
                                THEN [covers EXCEPT ![d.game] = file]
                                ELSE covers
=============================================================================
