-------------------------- MODULE DatabaseMigrator --------------------------
(***************************************************************************)
(* DatabaseManager::initialize and the DatabaseMigrator it runs, one step   *)
(* after the other, on the one database file several processes may open.    *)
(* A migration works on its transaction's copy of the database, which       *)
(* replaces the file's contents at the commit and not before: a rollback, a *)
(* failing step and the death of the process all leave the file as it was.  *)
(* Whichever step fails, the connection is closed and initialize() has      *)
(* failed.  A process initialises one manager, once.                        *)
(***************************************************************************)
EXTENDS MigrationScripts

CONSTANTS
    Process,       \* the processes that open the database
    Builds         \* the builds: each the migration list compiled into it

\* Version numbers are unique and ordered; they count from one.
ASSUME BuildsAssumption ==
    \A b \in Builds : /\ Len(b) \in Nat /\ DOMAIN b = 1..Len(b)
                      /\ \A i \in 1..Len(b) : /\ b[i].version = i
                                              /\ Len(b[i].script) \in Nat

\* The ledger keeps versions and names only: a migration once released is not
\* edited, and another one gets another name.
ASSUME MigrationsAreFixed ==
    \A b, c \in Builds : \A i \in DOMAIN b \cap DOMAIN c :
        b[i].name = c[i].name => b[i] = c[i]

VARIABLES
    disk,          \* the committed contents of the database file
    conn           \* for each process, its connection and how far
                   \* initialize() has come on it

\* "build" is the build that runs, "applied" the ledger as it was read,
\* "next" the place of the migration last begun, "done" the number of its
\* statements that have run, "copy" the contents its transaction sees.
Closed == [at |-> "closed", build |-> <<>>, applied |-> <<>>, next |-> 0,
           done |-> 0, copy |-> EmptyDatabase]

Phase == {"closed", "opened", "validated", "migrating", "ready"}

-----------------------------------------------------------------------------
\* Faulty: A recorded version is accepted whatever its name.
CompatibleByVersion(b, ledger) ==
    \A v \in DOMAIN ledger : \E i \in 1..Len(b) : b[i].version = v

\* Faulty: Only the versions the build knows are looked at: a newer schema passes.
CompatibleIfKnown(b, ledger) ==
    \A i \in 1..Len(b) :
        b[i].version \in DOMAIN ledger => ledger[b[i].version] = b[i].name

\* Every recorded version is known to the build, under the recorded name.
Compatible(b, ledger) ==
    \A v \in DOMAIN ledger :
        \E i \in 1..Len(b) : b[i].version = v /\ b[i].name = ledger[v]

\* The migrations still to come in the walk through the compiled-in list.
Pending(c) ==
    {i \in c.next + 1..Len(c.build) :
        c.build[i].version \notin DOMAIN c.applied}

First(S) == CHOOSE i \in S : \A j \in S : i <= j

Script(c) == c.build[c.next].script

\* The version is the ledger's primary key and the name is unique in it.
CanRecord(m, db) ==
    /\ m.version \notin DOMAIN db.ledger
    /\ \A v \in DOMAIN db.ledger : db.ledger[v] # m.name

SetConnection(p, c) == conn' = [conn EXCEPT ![p] = c]

\* Faulty: The statements are run outside a transaction: what has run, stays.
CloseWithoutRollback(p) ==
    /\ SetConnection(p, Closed)
    /\ disk' = IF conn[p].at = "migrating" THEN conn[p].copy ELSE disk

\* closeDatabase(), or the end of the process: the transaction is undone.
Close(p) == /\ SetConnection(p, Closed)
            /\ UNCHANGED disk

-----------------------------------------------------------------------------
\* openDatabase() and configureDatabase().
OpenDatabase(p) ==
    /\ conn[p].at = "closed"
    /\ SetConnection(p, [conn[p] EXCEPT !.at = "opened"])
    /\ UNCHANGED disk

\* readAndValidateMigrationLedger() when it accepts the ledger.
ReadLedger(p) ==
    /\ conn[p].at = "opened"
    /\ Compatible(conn[p].build, disk.ledger)
    /\ SetConnection(p, [conn[p] EXCEPT !.at = "validated",
                                        !.applied = disk.ledger])
    /\ UNCHANGED disk

\* The next migration that the ledger did not have: its script is read and
\* its transaction begun.
BeginMigration(p) ==
    /\ conn[p].at = "validated"
    /\ Pending(conn[p]) # {}
    /\ SetConnection(p, [conn[p] EXCEPT !.at = "migrating",
                                        !.next = First(Pending(conn[p])),
                                        !.done = 0, !.copy = disk])
    /\ UNCHANGED disk

RunStatement(p) ==
    LET c == conn[p]
        s == Script(c)[c.done + 1] IN
    /\ c.at = "migrating"
    /\ c.done < Len(Script(c))
    /\ Runs(s, c.copy)
    /\ SetConnection(p, [c EXCEPT !.done = @ + 1, !.copy = Effect(s, @)])
    /\ UNCHANGED disk

\* The ledger's row, then the commit.
RecordAndCommit(p) ==
    LET c == conn[p]
        m == c.build[c.next] IN
    /\ c.at = "migrating"
    /\ c.done = Len(Script(c))
    /\ CanRecord(m, c.copy)
    /\ disk' = Recorded(m, c.copy)
    /\ SetConnection(p, [c EXCEPT !.at = "validated", !.done = 0,
                                  !.copy = EmptyDatabase])

FinishMigrations(p) ==
    /\ conn[p].at = "validated"
    /\ Pending(conn[p]) = {}
    /\ SetConnection(p, [conn[p] EXCEPT !.at = "ready"])
    /\ UNCHANGED disk

Initialize(p) == \/ ReadLedger(p)
                 \/ BeginMigration(p)
                 \/ RunStatement(p)
                 \/ RecordAndCommit(p)
                 \/ FinishMigrations(p)

\* What initialize() refuses without any failure of SQLite: a ledger of
\* another history, a statement that does not fit, a row already recorded.
Refuses(p) ==
    LET c == conn[p] IN
    \/ c.at = "opened" /\ ~Compatible(c.build, disk.ledger)
    \/ /\ c.at = "migrating"
       /\ IF c.done < Len(Script(c))
          THEN ~Runs(Script(c)[c.done + 1], c.copy)
          ELSE ~CanRecord(c.build[c.next], c.copy)
=============================================================================
