---------------------------- MODULE RuntimeHandoff ----------------------------
(***************************************************************************)
(* Who runs GameLog and on which database: the headless unit that systemd   *)
(* restarts, the launchers that stop it, run the window and start it again, *)
(* the lock main() takes before it opens the database, and the              *)
(* initialisation of DatabaseMigrator by builds old and new.                *)
(*                                                                          *)
(* A process can be killed at any of its steps.  The lock file of a killed  *)
(* process stays behind; the next process sees that its owner is gone and   *)
(* takes it over.  systemctl stop kills too: nothing handles SIGTERM.       *)
(***************************************************************************)
EXTENDS DatabaseMigrator, FiniteSets

CONSTANTS
    Headless,      \* the process of gamelog-headless.service
    Launcher,      \* the runs of gamelog-gui-launcher, numbered in the order
                   \* in which they begin, and their windows
    NoProcess,
    Key,           \* keys of the rows the program stores
    MaxInstalls,   \* bound: installations of another build
    MaxFaults      \* bound: failures and kills

ASSUME HandoffAssumption ==
    /\ Process = Launcher \cup {Headless} /\ Headless \notin Launcher
    /\ Launcher \subseteq Int
    /\ NoProcess \notin Process
    /\ MaxInstalls \in Nat /\ MaxFaults \in Nat

VARIABLES
    proc,          \* for each process, how far main() has come
    lock,          \* the process whose PID is in runtime.lock
    unit,          \* the state of the systemd unit
    launcher,      \* for each launcher, its place in the script and whether
                   \* it found the unit active
    installed,     \* the build on disk
    installs,      \* installations so far
    faults,        \* failures and kills so far
    saved          \* history: what the rows meant when they were stored

system == <<proc, lock, unit, launcher>>
vars == <<disk, conn, system, installed, installs, faults, saved>>

SavedTable == {"games", "session_documents"}

-----------------------------------------------------------------------------
\* exec: the build that runs is the one installed now.
Start(p) == /\ proc' = [proc EXCEPT ![p] = "launched"]
            /\ SetConnection(p, [Closed EXCEPT !.build = installed])
            /\ UNCHANGED disk

LockIsHeld == lock # NoProcess /\ proc[lock] \in {"starting", "running"}

\* Faulty: The lock is not asked for.
MayTakeLockAlways == TRUE

\* Faulty: A lock file left behind keeps everyone out.
MayTakeLockUnlessFile == lock = NoProcess

MayTakeLock == ~LockIsHeld

\* What Restart=on-failure makes of the end of the headless process: it is
\* started again two seconds after a failure, a crash or SIGKILL; after SIGTERM,
\* SIGHUP, SIGINT or SIGPIPE, which systemd takes for a clean end, it is not.
AfterFailure == "waiting"
AfterCleanEnd == "ended"

\* systemd, or the script of a launcher, which goes on once its window is closed.
ParentNotices(p, after) ==
    /\ unit' = IF p = Headless THEN after ELSE unit
    /\ launcher' = IF p \in Launcher /\ launcher[p].at = "window"
                   THEN [launcher EXCEPT ![p].at = "cleanup"] ELSE launcher

Dies(p) == /\ proc' = [proc EXCEPT ![p] = "down"]
           /\ Close(p)

\* The headless process returns from main() only when its start fails, and
\* then with EXIT_FAILURE.
Exits(p) == /\ Dies(p)
            /\ lock' = IF lock = p THEN NoProcess ELSE lock
            /\ ParentNotices(p, AfterFailure)

-----------------------------------------------------------------------------
(* main()                                                                   *)

\* tryLock(0): the process that does not get the lock gives up.
TryLock(p) ==
    /\ proc[p] = "launched"
    /\ IF MayTakeLock
       THEN /\ lock' = p
            /\ proc' = [proc EXCEPT ![p] = "starting"]
            /\ UNCHANGED <<disk, conn, unit, launcher>>
       ELSE Exits(p)

Open(p) ==
    /\ proc[p] = "starting"
    /\ OpenDatabase(p)
    /\ UNCHANGED system

Prepare(p) ==
    /\ proc[p] = "starting"
    /\ Initialize(p)
    /\ UNCHANGED system

\* Faulty: start() does not ask whether the database is ready.
StartRuntimeUnready(p) ==
    /\ proc[p] = "starting"
    /\ proc' = [proc EXCEPT ![p] = "running"]
    /\ UNCHANGED <<disk, conn, lock, unit, launcher>>

\* The runtime's start() on a database that is ready.
StartRuntime(p) ==
    /\ proc[p] = "starting"
    /\ conn[p].at = "ready"
    /\ proc' = [proc EXCEPT ![p] = "running"]
    /\ UNCHANGED <<disk, conn, lock, unit, launcher>>

GiveUp(p) == proc[p] = "starting" /\ Refuses(p) /\ Exits(p)

\* The user closes the window.
Quit(l) == proc[l] = "running" /\ Exits(l)

MainStep(p) == \/ TryLock(p)
               \/ Open(p)
               \/ Prepare(p)
               \/ StartRuntime(p)
               \/ GiveUp(p)

\* A step of initialize() or of start() fails.
StartFails(p) == proc[p] = "starting" /\ Exits(p)

\* By a signal or a crash: nothing handles SIGTERM.
Killed(p) == /\ proc[p] # "down"
             /\ Dies(p)
             /\ \E after \in {AfterFailure, AfterCleanEnd} : ParentNotices(p, after)
             /\ UNCHANGED lock

-----------------------------------------------------------------------------
(* gamelog-gui-launcher and systemctl                                       *)

Goes(l, at) == launcher' = [launcher EXCEPT ![l].at = at]

IsActive(l) ==
    /\ launcher[l].at = "idle"
    /\ \A k \in Launcher : k < l => launcher[k].at # "idle"
    /\ launcher' = [launcher EXCEPT ![l] =
                      [at |-> IF unit = "active" THEN "stopping" ELSE "trap",
                       wasActive |-> unit = "active"]]
    /\ UNCHANGED <<disk, conn, proc, lock, unit>>

StopUnit(l) ==
    /\ launcher[l].at = "stopping"
    /\ unit' = "inactive"
    /\ Dies(Headless)
    /\ Goes(l, "trap")
    /\ UNCHANGED lock

ShowWindow(l) ==
    /\ launcher[l].at = "trap"
    /\ Start(l)
    /\ Goes(l, "window")
    /\ UNCHANGED <<lock, unit>>

\* Faulty: The launcher starts the unit again only if the window ran.
CleanupForgets(l) ==
    /\ launcher[l].at = "cleanup"
    /\ Goes(l, "done")
    /\ UNCHANGED <<lock, disk, conn, proc, unit>>

Cleanup(l) ==
    /\ launcher[l].at = "cleanup"
    /\ Goes(l, "done")
    /\ UNCHANGED lock
    /\ IF launcher[l].wasActive /\ unit # "active"
       THEN unit' = "active" /\ Start(Headless)
       ELSE UNCHANGED <<disk, conn, proc, unit>>

\* A signal before the traps are set, a stop that fails, or a SIGKILL.
LauncherKilled(l) ==
    /\ launcher[l].at \in {"stopping", "trap", "window", "cleanup"}
    /\ Goes(l, "killed")
    /\ UNCHANGED <<disk, conn, proc, lock, unit>>

LauncherStep(l) == IsActive(l) \/ StopUnit(l) \/ ShowWindow(l) \/ Cleanup(l)

\* Restart=on-failure
RestartUnit ==
    /\ unit = AfterFailure
    /\ unit' = "active"
    /\ Start(Headless)
    /\ UNCHANGED <<lock, launcher>>

-----------------------------------------------------------------------------
(* What the running program stores.                                         *)

Value(c) == CASE c = "artwork_path" -> {"blank", "path"}
              [] c = "has_artwork" -> {"0", "1"}
              [] c = "format" -> {"markdown"}
              [] OTHER -> {"notes"}

RowsOf(cs) == {r \in [cs -> UNION {Value(c) : c \in cs}] :
                  \A c \in cs : r[c] \in Value(c)}

\* What a row of either layout says.
HasArtwork(r) == \/ "has_artwork" \in DOMAIN r /\ r["has_artwork"] = "1"
                 \/ "artwork_path" \in DOMAIN r /\ r["artwork_path"] = "path"

Notes(r) == r[IF "content" \in DOMAIN r THEN "content" ELSE "html_content"]

WithRow(rows, k, r) == [i \in DOMAIN rows \cup {k} |-> IF i = k THEN r ELSE rows[i]]

\* A game and the notes of a session of it, under the same key.
RowStored(tables, k, g, d) ==
    [t \in DOMAIN tables |->
        IF t \in SavedTable
        THEN [tables[t] EXCEPT !.rows = WithRow(@, k, IF t = "games" THEN g ELSE d)]
        ELSE tables[t]]

Store(p) ==
    /\ proc[p] = "running"
    /\ \E k \in Key :
          \E g \in RowsOf(disk.tables["games"].columns),
             d \in RowsOf(disk.tables["session_documents"].columns) :
             /\ disk' = [disk EXCEPT !.tables = RowStored(@, k, g, d)]
             /\ saved' = WithRow(saved, k, [artwork |-> HasArtwork(g),
                                            notes |-> Notes(d)])
    /\ UNCHANGED <<conn, system, installed, installs, faults>>

Install(b) ==
    /\ installs < MaxInstalls
    /\ b # installed
    /\ installed' = b
    /\ installs' = installs + 1
    /\ UNCHANGED <<disk, conn, system, faults, saved>>

-----------------------------------------------------------------------------
Init ==
    /\ disk = EmptyDatabase
    /\ installed \in Builds
    /\ proc = [p \in Process |-> IF p = Headless THEN "launched" ELSE "down"]
    /\ conn = [p \in Process |-> IF p = Headless
                                 THEN [Closed EXCEPT !.build = installed]
                                 ELSE Closed]
    /\ lock = NoProcess
    /\ unit = "active"
    /\ launcher = [l \in Launcher |-> [at |-> "idle", wasActive |-> FALSE]]
    /\ installs = 0
    /\ faults = 0
    /\ saved = <<>>

Fault == /\ faults < MaxFaults
         /\ faults' = faults + 1
         /\ \/ \E p \in Process : StartFails(p) \/ Killed(p)
            \/ \E l \in Launcher : LauncherKilled(l)

Step == \/ \E p \in Process : MainStep(p)
        \/ \E l \in Launcher : LauncherStep(l) \/ Quit(l)
        \/ RestartUnit

Next == \/ Step /\ UNCHANGED <<installed, installs, faults, saved>>
        \/ Fault /\ UNCHANGED <<installed, installs, saved>>
        \/ \E p \in Process : Store(p)
        \/ \E b \in Builds : Install(b)

Settled == <<installed, installs, faults, saved>>

(* A process that runs gets on, systemd restarts what it has to, and the    *)
(* user closes a window some time.                                          *)
Fairness ==
    /\ \A p \in Process : WF_vars(MainStep(p) /\ UNCHANGED Settled)
    /\ \A l \in Launcher :
          WF_vars((LauncherStep(l) \/ Quit(l)) /\ UNCHANGED Settled)
    /\ WF_vars(RestartUnit /\ UNCHANGED Settled)

Spec == Init /\ [][Next]_vars /\ Fairness

-----------------------------------------------------------------------------
(* Every variable keeps its type; a connection is open only while its       *)
(* process is past the lock, and a walk through the migrations stays inside *)
(* the list and inside the script (the loops of applyPendingMigrations and  *)
(* applyMigration).                                                         *)
TypeOK ==
    /\ proc \in [Process -> {"down", "launched", "starting", "running"}]
    /\ lock \in Process \cup {NoProcess}
    /\ unit \in {"active", "inactive", "waiting", "ended"}
    /\ launcher \in [Launcher -> [at : {"idle", "stopping", "trap", "window",
                                       "cleanup", "done", "killed"},
                                wasActive : BOOLEAN]]
    /\ installed \in Builds
    /\ installs \in 0..MaxInstalls /\ faults \in 0..MaxFaults
    /\ \A p \in Process :
          /\ conn[p].at \in Phase
          /\ conn[p].at # "closed" => proc[p] \in {"starting", "running"}
          /\ proc[p] = "running" => conn[p].at = "ready"
          /\ conn[p].next \in 0..Len(conn[p].build)
          /\ conn[p].at = "migrating" => conn[p].done \in 0..Len(Script(conn[p]))

(* The design document's "the lock prevents two GameLog processes from      *)
(* simultaneously owning tracking and the database", through kills, stale   *)
(* lock files, restarts of the unit and overlapping launchers.              *)
OneOwner ==
    \A p, q \in Process :
        conn[p].at # "closed" /\ conn[q].at # "closed" => p = q

BuiltBy(b) == Stages(b)[Len(b)]

(* A running program works on the layout its own repositories were written  *)
(* for: every migration of its build and no other, under the right names.   *)
RunsOnItsSchema ==
    \A p \in Process :
        proc[p] = "running" => Layout(disk) = Layout(BuiltBy(conn[p].build))

(* No row is lost or made up by a migration or by an attempt cut off: a     *)
(* game has artwork if and only if its last stored row named a nonblank     *)
(* path or carried the flag, and a session's notes are the stored ones.     *)
RowsSurvive ==
    \A t \in SavedTable \cap DOMAIN disk.tables :
        LET rows == disk.tables[t].rows IN
        /\ DOMAIN rows = DOMAIN saved
        /\ \A k \in DOMAIN rows :
              IF t = "games" THEN HasArtwork(rows[k]) <=> saved[k].artwork
                             ELSE Notes(rows[k]) = saved[k].notes

Agrees(b, ledger) == \A v \in DOMAIN ledger :
                        v \in DOMAIN b /\ b[v].name = ledger[v]

(* The layout changes only under a build that knows every migration in the  *)
(* ledger by its name: a database of a newer or of another build is refused *)
(* as it is.                                                                *)
ForeignUntouched ==
    [][Layout(disk') # Layout(disk) =>
          \E p \in Process : /\ proc[p] = "starting"
                             /\ Agrees(conn[p].build, disk.ledger)]_vars

History == INSTANCE SchemaHistory

(* The file follows SchemaHistory: migrations come whole, one at a time and *)
(* in their order, whatever fails, is killed or is started again.           *)
ImplementsSchemaHistory == History!Spec

(* A launcher that stopped the unit brings it back: in the end the headless *)
(* program runs again, unless the installed build does not go with the      *)
(* database, a launcher was killed with the unit in its keeping, or a       *)
(* signal that systemd takes for a clean end has ended the unit since.      *)
TrackingResumes ==
    \A l \in Launcher :
        launcher[l].wasActive ~>
            \/ proc[Headless] = "running"
            \/ ~Agrees(installed, disk.ledger)
            \/ \E k \in Launcher : launcher[k].at = "killed" /\ launcher[k].wasActive
            \/ unit = AfterCleanEnd
=============================================================================
