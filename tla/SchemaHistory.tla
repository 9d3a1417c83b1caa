---------------------------- MODULE SchemaHistory ----------------------------
(***************************************************************************)
(* What the migrations promise of the database file, whoever opens it and   *)
(* wherever an attempt is cut off: its layout only ever moves by one whole  *)
(* migration, the next one in the order of a build that agrees with every   *)
(* migration recorded before it, and between migrations only rows change.   *)
(* It knows nothing of connections, transactions, processes or crashes.     *)
(***************************************************************************)
EXTENDS MigrationScripts

CONSTANT Builds      \* the migration lists of the builds ever installed

VARIABLE disk        \* the committed contents of the database file

\* The ledger lists exactly the first n migrations of build b.
Lists(db, b, n) ==
    /\ DOMAIN db.ledger = {b[i].version : i \in 1..n}
    /\ \A i \in 1..n : db.ledger[b[i].version] = b[i].name

\* applyMigration, seen from outside: all of it or nothing.
Migrate ==
    \E b \in Builds : \E n \in 1..Len(b) :
        /\ Lists(disk, b, n - 1)
        /\ disk' = Migrated(b[n], disk)

\* The program's own writes.
Store == Layout(disk') = Layout(disk)

Init == disk = EmptyDatabase
Next == Migrate \/ Store
Spec == Init /\ [][Next]_disk
=============================================================================
