-------------------------- MODULE MCRuntimeHandoff --------------------------
(* RuntimeHandoff on three builds: the released one, the one before its last *)
(* migration, and one of another line of development, which gave version 4   *)
(* another name and has a fifth migration.                                   *)
EXTENDS RuntimeHandoff

OlderBuild == SubSeq(knownMigrations, 1, 3)

OtherBuild ==
    OlderBuild \o
    << [ArtworkPathToHasArtwork EXCEPT !.name = "artwork_flag"],
       [version |-> 5, name |-> "game_genre",
        script |-> << AddColumn("games", "genre", "notes") >>] >>

MCBuilds == {OlderBuild, knownMigrations, OtherBuild}

MCProcess == Launcher \cup {Headless}
=============================================================================
