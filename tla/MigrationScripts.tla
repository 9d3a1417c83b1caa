-------------------------- MODULE MigrationScripts --------------------------
(***************************************************************************)
(* The SQL migrations compiled into GameLog, as data: what each statement   *)
(* needs of the database and what it does to it.                            *)
(*                                                                          *)
(* A database is a record: "ledger" is schema_migrations, a function from   *)
(* the recorded versions to their names (the CREATE TABLE IF NOT EXISTS     *)
(* that makes it is not told apart from an empty one); "tables" maps each   *)
(* table to its columns and its rows; "indexes" are the indexes.  Only the  *)
(* columns that some later statement names are kept: no statement touches   *)
(* the others.                                                              *)
(***************************************************************************)
EXTENDS Integers, Sequences

EmptyDatabase == [ledger |-> <<>>, tables |-> <<>>, indexes |-> {}]

-----------------------------------------------------------------------------
(* The statements.                                                          *)
CreateTable(t, cs) == [op |-> "create", table |-> t, columns |-> cs]
CreateIndex(i, t) == [op |-> "index", table |-> t, index |-> i]
AddColumn(t, c, v) == [op |-> "add", table |-> t, column |-> c, default |-> v]
RenameColumn(t, c, d) == [op |-> "rename", table |-> t, column |-> c, to |-> d]
DropColumn(t, c) == [op |-> "drop", table |-> t, column |-> c]
SetFlag(t, c, d) == [op |-> "update", table |-> t, column |-> c, from |-> d]

InitialSchema ==
    [version |-> 1, name |-> "initial_schema",
     script |-> << CreateTable("games", {"artwork_path"}),
                   CreateTable("sessions", {}),
                   CreateTable("session_documents", {"html_content"}),
                   CreateIndex("one_active_session", "sessions"),
                   CreateIndex("sessions_by_game_and_start", "sessions") >>]

ReconfigSessionDocuments ==
    [version |-> 2, name |-> "reconfig_session_documents_table",
     script |-> << RenameColumn("session_documents", "html_content", "content"),
                   AddColumn("session_documents", "format", "markdown") >>]

RemoveFormat ==
    [version |-> 3, name |-> "remove_format_from_session_documents",
     script |-> << DropColumn("session_documents", "format") >>]

ArtworkPathToHasArtwork ==
    [version |-> 4, name |-> "artwork_path_to_has_artwork",
     script |-> << AddColumn("games", "has_artwork2", "0"),
                   SetFlag("games", "has_artwork2", "artwork_path"),
                   DropColumn("games", "artwork_path"),
                   RenameColumn("games", "has_artwork2", "has_artwork") >>]

knownMigrations == << InitialSchema, ReconfigSessionDocuments, RemoveFormat,
                      ArtworkPathToHasArtwork >>

-----------------------------------------------------------------------------
(* SQLite's answer to a statement: whether it runs, and what it leaves.     *)
Runs(s, db) ==
    /\ s.table \in DOMAIN db.tables <=> s.op # "create"
    /\ s.op = "index" => s.index \notin db.indexes
    /\ s.op = "add" => s.column \notin db.tables[s.table].columns
    /\ s.op \in {"rename", "drop", "update"}
          => s.column \in db.tables[s.table].columns
    /\ s.op = "rename" => s.to \notin db.tables[s.table].columns
    /\ s.op = "update" => s.from \in db.tables[s.table].columns

NewColumns(s, cs) ==
    CASE s.op = "add" -> cs \cup {s.column}
      [] s.op = "rename" -> (cs \ {s.column}) \cup {s.to}
      [] s.op = "drop" -> cs \ {s.column}
      [] OTHER -> cs

\* Faulty: UPDATE without the TRIM: a text of blanks counts as a path.
FlagWithoutTrim(path) == IF path \in {"blank", "path"} THEN "1" ELSE "0"

\* NULL, the empty text and ASCII blanks alone are all "blank".
Flag(path) == IF path = "blank" THEN "0" ELSE "1"

NewValue(s, r, c) ==
    CASE s.op = "add" /\ c = s.column -> s.default
      [] s.op = "rename" /\ c = s.to -> r[s.column]
      [] s.op = "update" /\ c = s.column -> Flag(r[s.from])
      [] OTHER -> r[c]

NewRow(s, r) == [c \in NewColumns(s, DOMAIN r) |-> NewValue(s, r, c)]

NewTable(s, table) ==
    [columns |-> NewColumns(s, table.columns),
     rows |-> [k \in DOMAIN table.rows |-> NewRow(s, table.rows[k])]]

Effect(s, db) ==
    CASE s.op = "create" ->
           [db EXCEPT !.tables =
               [t \in DOMAIN @ \cup {s.table} |->
                   IF t = s.table THEN [columns |-> s.columns, rows |-> <<>>]
                                  ELSE @[t]]]
      [] s.op = "index" -> [db EXCEPT !.indexes = @ \cup {s.index}]
      [] OTHER -> [db EXCEPT !.tables[s.table] = NewTable(s, @)]

\* The row a finished migration leaves in schema_migrations.
Recorded(m, db) ==
    [db EXCEPT !.ledger = [v \in DOMAIN @ \cup {m.version} |->
                              IF v = m.version THEN m.name ELSE @[v]]]

\* The database before a script and after each of its statements.
Course(script, db) ==
    LET after[i \in 0..Len(script)] ==
            IF i = 0 THEN db ELSE Effect(script[i], after[i - 1])
    IN  after

\* A whole migration: its statements in their order, then its ledger row.
Migrated(m, db) == Recorded(m, Course(m.script, db)[Len(m.script)])

\* The layouts a new database goes through under a list of migrations.
Stages(b) ==
    LET after[i \in 0..Len(b)] ==
            IF i = 0 THEN EmptyDatabase ELSE Migrated(b[i], after[i - 1])
    IN  after

\* What a layout is: everything but the rows.
Layout(db) ==
    [ledger |-> db.ledger, indexes |-> db.indexes,
     columns |-> [t \in DOMAIN db.tables |-> db.tables[t].columns]]
=============================================================================
