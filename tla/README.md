# GameLog in TLA+

A model of GameLog's core, checked with TLC and proved with TLAPS. GameLog
watches the processes of a Linux desktop, decides from them when a tracked game
is being played, and keeps the sessions in a SQLite database. What must not go
wrong is the database: a session that is lost, ended early, ended twice or
written over another one cannot be reconstructed. The model covers that core,
the notes of a session, the catalogue of games with its Steam import and cover
files, the requests to Steam, and the life of the database file itself:
migrations, the processes that may own it, and the launcher that hands it from
one to the other.

## The system

Everything runs on one Qt event loop in one process; a lock file keeps a second
process out, and only `RuntimeHandoff` has several processes. "Concurrent" here
otherwise means: calls interleave in any order, answers of
the keychain and of the network come back later or not at all, any query or
write may fail, the process may die between any two steps, and the clock may be
set back.

| Component | State | Operations | Talks to | Must hold |
|---|---|---|---|---|
| Session service | cached active session, cached game, tracker | start (two forms), end, add, update, remove, restore, one poll, reset | repository, game service (`findById`, indexes), signals to windows | cache = active row; one active row; active rows only end; the next session owes nothing to the last |
| Tracker | pending game, two timers | `advance`, `reset` | called by the session service | a decision is earned by what the snapshots showed |
| Process matching | none | `matchTrackedGame`, `processMatchesGame` | indexes of the game service | what starts a session keeps it alive |
| Game service | index by App ID, index by path | add, update, remove, Steam sync, `setHasArtwork` | repository, Steam API, artwork (signals) | indexes = tracked rows, or empty after a failed query |
| Repositories, schema | tables | insert, update, remove, query | SQLite | all or nothing per call; at most one active row |
| Runtime, main | `running_`, poll timer, lock | start, stop, update | all services | start repairs before polling; stop keeps the active row |
| Steam API service | request flags, two credentials, timer | `getOwnedGames`, credential and reply handlers | credential service, network | one outcome per request; the request ends |
| Credential service | jobs in flight | set, get, remove | keychain | one signal per job |
| Artwork service | replies in flight, files | `getGameArtwork`, reply handler | network, files, game service | `hasArtwork` = a valid cover exists |
| Process inspector | cache by pid | `annotate` | `/proc` | the App ID is that of the process |
| Database manager, migrator | connection, ledger | initialise, migrate | SQLite | migrations in order, each once or not at all |
| Live window, game card | editor text, shown cover | start and finish handlers, redraw | session service (calls back into it), artwork service | notes go to the session they belong to; the card shows the cover there is |
| Launcher, service unit, lock | place in the script, unit state, lock file | stop the unit, run the window, start the unit; restart on failure | systemd, `main` | one owner of the database; a stopped unit comes back |
| Other windows, logging, paths | widgets | | services | |

How a poll travels: the timer of `main.cpp` calls `GameLogRuntime::update` every
5 seconds; it lists the processes, has their App IDs read if some tracked game
has one, and hands them to `SessionService::updateAutomaticTracking`, which
feeds the tracker and carries out its decision through the same functions the
windows call. `sessionStarted` and `sessionStopped` are emitted when the call's
changes are complete, so a window that answers with a call of its own (the live
window saves its notes this way) makes, in the model of the sessions, simply the
next call; `LiveNotes` looks at what lies between the two.

What is hard to test, line by line, is the list of hazards in `PROJECT.json`.

## Modules

| Module | Models |
|---|---|
| `ProcessMatching` | `ProcessHelpers`, the two indexes, the gate before the inspector |
| `AutomaticSessionTracker` | the grace-period state machine, as operators on its three members |
| `TrackerContract` | the tracker under any owner, who may also move the active session to another game, with two histories of what was really seen |
| `SteamProcessInspector` | the cache of App IDs by PID, while the operating system goes on |
| `SessionService` | the core: session service, tables, game service, start/poll/stop, failures, exits |
| `SessionLifecycle` | the abstract specification: absent, live, finished |
| `SessionGrace` | `SessionService` with a history of absence, and the refinement mapping |
| `CredentialService` | keychain jobs and their signals, as operators on two variables |
| `SteamApiService` | the two-phase request for the owned games, composed with the credential service and its other clients |
| `GameArtwork` | cover files and downloads in flight, as operators on two variables |
| `GameCatalog` | games table, indexes, artwork flag, Steam import and the live window's card, composed with `GameArtwork` |
| `LiveNotes` | rows and documents of sessions, the cached copy, the dialog and the live window's editor |
| `MigrationScripts` | the four SQL scripts as data, and what SQLite does with a statement |
| `SchemaHistory` | the abstract specification of the database file: whole migrations in order |
| `DatabaseMigrator` | `DatabaseManager::initialize` and the migrator, step by step, in any number of processes |
| `RuntimeHandoff` | lock, service unit and launchers around `DatabaseMigrator`, and the refinement of `SchemaHistory` |
| `MCTrackerContract`, `MCSessionService`, `MCSessionGrace`, `MCSteamApiService`, `MCGameCatalog`, `MCLiveNotes`, `MCRuntimeHandoff`, `MCSteamProcessInspector` | small instances for TLC |
| `AutomaticSessionTrackerProofs`, `TrackerContractProofs`, `SessionServiceProofs`, `SteamApiServiceProofs`, `GameCatalogProofs`, `LiveNotesProofs`, `RuntimeHandoffProofs`, `SteamProcessInspectorProofs` | theorems |

### How the model corresponds to the code

The first paragraphs are about the sessions; the other specifications follow the
same conventions and have sections of their own.

*Identity, not text.* A process is the App ID found in its environment and its
executable path; a game is its key, its App ID, its path and its tracking
switch. App IDs and paths are model values. Titles, notes and durations are left
out, for no check in the modelled calls reads them.

*Data tables.* `rows[i]` and `games[g]` are the rows with those keys, or the
sentinels `NoSession` and `NoGame`. Keys follow SQLite's rule for `INTEGER
PRIMARY KEY` without `AUTOINCREMENT` (one above the largest in use), so the key
of a removed last row is given again (`IsNextKey`).

*One action per call.* `AddSession`, `UpdateSession`, `RemoveSession`,
`StartAutomaticSession`, `EndActiveSession`, `ResetAutomaticTracking`,
`AddGame`, `UpdateGame`, `RemoveGame`, `Start`, `Stop` are the functions of
those names. A call that returns false or `nullopt` without any effect is a
stuttering step. A poll (`Poll`) has one disjunct per outcome: no decision, a
start or stop carried out, a start or stop that fails.

*Failures.* A repository query that fails returns an empty vector, and no caller
can tell it from an empty table. Where that has an effect it is an action or a
parameter: `queryFails` for `hasOtherActiveSession` and for the rebuild of the
indexes, `syncFails`, `unread` (the game of one active row is not found) and
`StartUnrestored` at start. A transaction that fails leaves the tables alone; it has an
effect where the caller has already changed something: the tracker
(`PollFailsToStart`, `PollFailsToStop`) or earlier rows of the repair
(`StartRefused`). `faults` counts the failures that had an effect and bounds
them.

*The world.* `ProcessesChange` replaces the running processes by any set;
`ClockTicks` and `ClockStepsBack` move the clock; `Exit` is the death of the
process, from which only the tables survive. `Stop` followed by `Start` is a
restart within the process, `Stop` or nothing followed by `Exit` and `Start` a
new process.

*Clients.* Any client may make any call with any well-formed argument at any
time while the runtime runs, except that the calls named in `ClientCalls` are
only made where a configuration says so: no window calls `updateGame` (other
than for the artwork flag), `removeGame` or `resetAutomaticTracking` today, and
none moves an active session to another game.

*Outside.* What `/proc` contains, whether the inspector's cache is up to date,
and rows the program itself cannot have written.

### `SessionLifecycle` and the refinement

`SessionLifecycle` says what the sessions table promises, without cache, tracker or
failures: each step begins, records, finishes, reopens or forgets one session;
at most one is live; a live one can only finish. `SessionGrace` maps every row
to its phase and states `LifecycleIsKept == Lifecycle!Spec`.

### The Steam request

`SteamApiService` shares no state with the sessions and is a specification of
its own. `GetOwnedGames` starts the timer and two keychain reads; `FinishJob`
finishes any job in flight and runs, in the same step, the handler its signal is
connected to; `CredentialsTimeOut` and `HandleOwnedGamesReply` are the other two
ways a request can go on. Clients store and remove secrets meanwhile
(`SetSecret`, `RemoveSecret`, `RefuseBlankSecret`); the windows store today, and
removal is part of the service's interface. A job is tagged with the request that
asked for it so that equal reads of two requests are two jobs; no handler looks
at the tag, as no signal carries one. A secret is blank, a number or another
text, which is what the handlers tell apart; a reply is nothing but its arrival,
for all six ways it can be handled end the request and report one outcome.

### The catalogue and its covers

`GameCatalog` has the games table again, without sessions and with the artwork
flag. The signals between game service and artwork service are direct
connections, so one action is a call with everything it sets off: `AddGame`
inserts the row, rebuilds the indexes, asks for artwork, which looks for a cover
on disk (`Covered`), announces one or none (`Announce`, the runtime's two
lambdas and `setHasArtwork`), requests downloads (`GetSteamArtwork`), and
redraws the card. Replies come back one at a time and in any order
(`ReplyUnusable`, `ReplyNotWritten`, `ReplyStored` are the ways
`parseSteamArtworkReply` can end). A cover is told apart by whose it is, by being
absent and by not decoding; a download knows the key it was made for and the App
ID in its URL. `Restart` is an exit at any time; `ExitWhileWriting` one between
the truncation and the end of a write. Nothing writes the row of a cover that is
completed so.

The properties state the code's promise together with the exceptions it has, as
histories: a key whose game was removed (`recycled`) may show the earlier game's
cover; overlapping downloads of one game whose last one fails (`overlapped`)
leave a cover without its flag; an exit during a write (`torn`) may spoil a cover;
a failed write of the row leaves the flag as it was. Each exception is an
outcome of the code that TLC finds when the exception is taken out.

### Notes

`LiveNotes` keeps of a session its status, start and notes. The program runs with
the main window, whose dialog adds sessions with notes, or with the live window,
whose editor is open during a session; never with both. `EndActiveSession` is the
service's transaction; `answering` is the session for which the window's slot
has yet to save the editor's text (`SaveNotes`), in a transaction of its own.
The two run in one call, so the program can only die or fail between them. A
text is a set of passages; the conversion to Markdown, which happens once in each
direction, is taken to keep them. An active row without a document is the one
state of the tables that the repository accepts and does not write itself
(contract 26 of the design document); the run begins with one. `SetClock` is any change of the
system clock.

### App IDs of processes

`SteamProcessInspector` models `annotate` turn by turn (`Annotate`, `FinishAnnotation`)
after a listing, with the operating system going on in between: a program starts under a
free PID or takes one over by exec (`StartProgram`), or ends. A listing is
taken as one look; one that fails is empty, and empties the cache. Polls while no
tracked game has an App ID do not reach the inspector, so any number of them lies between two
annotations. `SessionService` relies on the result, `AnnotationIsOwn`: the
App ID is the process's own, unless the PID was reused under the same
path since the last annotation.

### Migrations, lock and launcher

`MigrationScripts` has the four scripts statement by statement; of the columns it keeps
those that some statement names. `Runs` and `Effect` are SQLite's part. A
database file is its ledger, its tables with their rows, and its indexes.
`DatabaseMigrator` walks through `initialize()` on a copy that replaces the file at
the commit: `OpenDatabase`, `ReadLedger`, `BeginMigration`, `RunStatement`,
`RecordAndCommit`, `FinishMigrations`, `Close`.

`RuntimeHandoff` runs it in the headless process and in the windows that launchers
open. `main()` is `TryLock`, `Open`, `Prepare`, `StartRuntime`, `Quit`; every way its
start can fail is `GiveUp` (refused) or `StartFails` (a step failed); `Killed` may
strike at any point and leaves the lock file behind, which the next process may
take, since `QLockFile` sees that the owner is gone. The end of the headless process leaves the
unit waiting for its restart if it is a failure: every way its start can fail, a crash or
SIGKILL; after a signal that systemd counts as a clean end the unit is `"ended"`, and
only a launcher that found it active starts it again (`ParentNotices`). `systemctl stop` kills, as nothing handles
SIGTERM. The launcher is `IsActive`, `StopUnit`, `ShowWindow`, `Cleanup`; it is
numbered in the order in which launchers begin, which makes no difference to
any of them. `RestartUnit` is `Restart=on-failure`. `Install` replaces the build on
disk; a process runs the build that was there when it was started. The running
program stores a game and the notes of a session under one key (`Store`), with the columns
its layout has. NULL, empty and all-blank texts are one value, "blank", as the
script treats them alike.

`SchemaHistory` says what all this promises of the file: its layout moves by one
whole migration, the next in the order of a build that agrees with everything
recorded, and otherwise only rows change. `ImplementsSchemaHistory` is the
refinement; the mapping is the file itself.

## What the runs check

| Run | Instance | Checks |
|---|---|---|
| `tracker` | 3 games (Steam with path, path only, Steam only), 4 processes, elapsed time 0, 1 or 2, grace periods 3 | `TypeOK` with bounded timers, `StartsAfterGrace`, `StopsAfterGrace`, `CandidacyIsKept` |
| `session_service` | 2 games, 2 session keys, 2 clock readings, grace periods of 2 polls, 1 failed query, 1 failed write, clock set back, index present | cache, game and timers (`CacheMatchesRow`, `ActiveGameOfSession`, `NoInheritedAbsence`), `SessionEndsAfterGrace`, refinement of `SessionLifecycle` |
| `session_guards` | the same without the unique index, any one or two active rows to begin with, games edited and removed, sessions moved to other games, tracking reset, clock set back | `AtMostOneActive`, `ActiveRowIsCached` |
| `session_liveness` | 2 games, one of them run by a process, 2 session keys, 2 clock readings, 1 failed query, 1 failed write, games removed and added again, fairness | `AbandonedSessionEnds`, `PlayedGameGetsSession` |
| `game_catalog` | 2 keys, 2 App IDs, 1 path, 2 artwork types, a reply of Steam with blank entries; 3 kinds of downloads at a time, 2 of a kind; 1 key recycled, 1 failing step (a query, writes, both, or an exit amid a write) | `IndexesAreWhole`, `FlagMeansCover`, `CoverIsFlagged`, `CoverIsOfGame`, `CardShowsCover`, `ImportIsComplete` |
| `runtime_handoff` | the unit and 2 launchers, 3 builds (released, one migration older, one of another line), 1 installation, 1 failure or kill, fairness | `OneOwner`, `RunsOnItsSchema`, `RowsSurvive`, `ForeignUntouched`, refinement of `SchemaHistory`, `TrackingResumes` |
| `live_notes` | 2 sessions, 2 passages, 2 clock readings set at will, 1 failure, a session without document to begin with | `CachedNotesAreStored`, `WrittenNotesAreSaved`, `SavedTimesAdvance` |
| `steam_requests` | 3 requests, 1 client job at a time, any keychain to begin with, fairness | `TimerGuardsCredentials`, `AwaitedReplyIsOnItsWay`, `OneHttpRequestEach`, `NoRequestIsForgotten`, `SurplusOutcomesAreStray`, `RequestsEnd` |
| `steam_inspector` | 2 PIDs, 2 paths, 2 App IDs, listings that fail | `AnnotationIsOwn`, with the cache contract of the design document |

Three runs are expected to fail, each showing a place where the code does other
than a document says:

- `tracker_grace`: with a poll every 5 seconds and a grace period of 30, a
  session starts 25 seconds after the game was first seen. The first detection
  is credited with the interval before it.
- `steam_overlap`: a credential error of another job, a failed write for example,
  fails a request whose HTTP request has been sent, and the next request sends
  one too; the header says one request may be in flight at a time. The reply of
  the first then ends the second. What remains true in spite of it is stated by
  `AwaitedReplyIsOnItsWay` and `SurplusOutcomesAreStray`.
- `live_notes_carried`: the editor is never cleared, so the notes of one session
  are saved again as those of the next. What remains true, that nothing written
  is missing, is `WrittenNotesAreSaved`.

Removing the game of the active session (`removeGame`) removes the session with
it, through the foreign key; `SessionService` is not told, keeps the deleted row
as its active session, and fails each time it tries to end it, so that no other
session starts. `AbandonedSessionEnds` states that as its exception
(`IsOrphaned`), and without the exception TLC finds the behaviour.
`PlayedGameGetsSession`, which promises the played game an active row of its own, leaves
out behaviours in which the service goes on holding a session that the database
does not have as active (`HoldsLostSession`); by `CacheMatchesRow` only such a removal brings that
about. It also supposes that clients at some time stop beginning sessions of other
games, or moving sessions to them.
`CacheMatchesRow`, the refinement of `SessionLifecycle` and the theorems on both
exclude `removeGame`. No window offers it today.

`SessionEndsAfterGrace` also fails if a client edits the game of the active
session (`updateGame`: the service goes on looking for the identity it copied
when the session started) or moves the session to another game (the tracker keeps
the absence it timed for the first). No window does either today, so the run
leaves both out. `TrackerContract` has the move (`Reassociate`): its `StopsAfterGrace`
counts the absence since the session began, over whatever game was active in each
poll, and that is all the code promises of a session that was moved: it may
stop before its new game has been away for a grace period.

Two losses of notes are stated as exceptions of `WrittenNotesAreSaved`: the
program is left during a session (nothing is saved before the session stops, and
a session restored at the next start ends with an empty editor, whose text replaces the
stored notes if the live window is the one that runs), and the window's
write fails (it is logged, the session stays completed without them).
`TrackingResumes` excepts a launcher killed with the unit in its keeping (between `systemctl stop`
and `trap` any signal suffices, later only SIGKILL), and a unit that has ended cleanly
in systemd's sense, by SIGTERM, SIGHUP, SIGINT or SIGPIPE, since `Restart=on-failure` leaves it so.

### Bounds, and why they are enough

Two keys let a second session begin while the first exists, and let a key be
removed and given again; two games let a session move, and differ in how they
are matched. Grace periods of two polls separate "decides at once" from
"accumulates", and the tracker alone is checked with three, under irregular
polls. Two readings of the clock give a start before, at and after the present.
One failure of each kind, or in the catalogue one failing step, covers every failure and all that
may follow it; what
two may do to the invariants is covered by the proofs, which have no bound. The
liveness run has two keys, so that a session of the other game can precede the one that the played
game must get, and one process, which runs the Steam game: with both, the run
would take too long, and a game known by its path is timed by the same code. Three Steam requests let
one meet the leftovers of two others; the proofs cover any number.

In the catalogue two keys let one game be removed and its key be given to the
next while the other stays; two downloads of a kind are the first overlap, and three
kinds let the cover of one game, its header and a cover of the other be on their way
together. Two launchers can overlap in every way the script allows and each meet the
leftovers of the other; the three builds are older than, equal to and in conflict
with one another, and one installation lets any of them follow any. One fault is enough
for each property that excepts faults, and the state after a fault goes on through
further restarts. In the notes two sessions are what it takes to carry a text over.

### Fairness

`FairSpec` assumes that polls go on (`WF_vars(Poll)`: the repeating timer of
`main.cpp` fires as long as the event loop runs) and that the clock does
(`WF_vars(ClockTicks)`). Nothing is assumed of clients, processes or starts:
the liveness properties only speak of behaviours in which the runtime
eventually keeps running. Failures are finite in number, as `faults` bounds them. A failed query may
leave an active row that the service does not know and that blocks every later
start, so `PlayedGameGetsSession` speaks of behaviours without one. Clients that
set the clock back or reset the tracker for ever could postpone the end of a
session for ever, so the liveness run leaves those two out.

For the Steam request the only fairness is that a running timer fires
(`WF_vars(CredentialsTimeOut)`); keychain and network may stay silent for ever.
`RequestsEnd` is therefore conditional on replies: the code has no timeout for
them.

In `RuntimeHandoff` a process that is starting gets on (`MainStep`), a launcher goes on
with its script and the user closes a window some time (`LauncherStep`, `Quit`), and
systemd restarts the unit after a failure (`RestartUnit`). Faults and installations are
finite in number. systemd's limit on restarts in quick succession is not
modelled.

## What is proved

For every set of games, processes and keys, every bound, every grace period and
any number of failures:

- `AutomaticSessionTrackerProofs` describes the outcome of `advance`, and shows
  that matching is consistent (`StartingAndKeepingAgree`): a process that makes
  the tracker detect a game also counts as that game running.
- `TrackerContractProofs` proves all four properties of the `tracker` run. They
  are not inductive alone; `TimersAreEarned` is what carries them: the start
  timer never exceeds the time over which the pending game was really seen, and
  the end timer never the time of absence, also when the session is moved to another game,
  which resets neither.
- `SessionServiceProofs` proves `TypeOK`, `ActiveGameOfSession`,
  `NoInheritedAbsence`, `ActiveRowIsCached`, `AtMostOneActive` and, if no
  client removes games, `CacheMatchesRow`. The inductive invariant `IInv` adds
  that a game's row carries its own key, without which a game
  fetched again could belong to another session; and it joins the parts, since
  each needs the others: that at most one row is active follows, without the index,
  only from every active row being the cached one, and that in turn from the
  checks made against the cache.
  The same module proves that `SessionService` implements
  `SessionLifecycle`, on a database with the index and without `removeGame`.
  Every action changes the table in one of three ways (`RowStep`: not at all,
  one row written that the index accepts, one inactive row deleted), and each
  of the three is a step of the abstract specification. The invariant is `IInv`
  with the uniqueness of the active row, which is also why the repair at start
  interrupts one row at most.

  And it proves `SessionEndsAfterGrace`. The closed timer never runs ahead of the
  absence (`AbsenceIsCounted`), because the game the tracker watches is still the row of
  the games table, however long ago it was copied, and because a running game's
  process is seen with its App ID whenever that decides (`GamesInv`). The theorem
  has two hypotheses: `NoGameIsEdited`, the exclusion the run makes too, and
  `CataloguesAreRead`: some Steam game is tracked, or every Steam game is. Outside it
  the property is false: the runtime reads App IDs only while some tracked game has one, so a
  session added by hand for an untracked Steam game, in a catalogue without a tracked one, ends
  while the game is played.
- `SteamApiServiceProofs` proves the six invariants of the `steam_requests` run for
  any number of requests and jobs. Every handler is shown to let the request
  wait, fail or send, and each of the three to keep the invariant. It needs
  that replies belong to past requests (`RepliesAreOfRequests`) and an account of
  the replies pending (`OutcomesAreAccounted`): each that nobody waits for is paid
  for by a stray signal.

- `GameCatalogProofs` proves all seven properties of the `game_catalog` run.
  `CoverIsFlagged` needs an account of the downloads (`LoadingIsAlone`): unless
  downloads of a game overlap, one cover at most is on its way, and only while there is
  none, so that a late failure takes no flag away from a cover. `CoverIsOfGame`
  needs `KeysHaveOneGame`: what is on its way for a key that has had one game was
  asked for that game. All calls that ask for artwork share one argument
  (`AskingKeepsArtwork`), and so do all replies (`CoverReplyKeepsArtwork`).
- `LiveNotesProofs` proves the four properties of the `live_notes` run. An active row that is
  not the cached one was left by an exit (`UncachedIsLost`); and what was written
  is in the editor while the live window has the session, and in the document
  otherwise (`WrittenIsKept`). `SavedTimesAdvance` follows from what a save does to a
  document, whatever the clock says.
- `RuntimeHandoffProofs` proves all six safety properties of the `runtime_handoff` run for any
  number of launchers, installations and faults; all but `RowsSurvive` for any
  builds and scripts. Who is past the lock holds it
  (`OwnerHasLock`), and a connection is open only past the lock; since only one process
  can therefore commit, a ledger that was accepted when it was read is still
  accepted at the commit (`GoodConnection`). What a script has done so far is
  always a point on its course (`HistoryInv`): the copy of a connection is the file
  under the statements it has run, and the file stands at a stage of every build that agrees
  with its ledger (`StandsAt`). From this a commit is a whole migration, which is
  the refinement of `SchemaHistory`, and a program that runs has the layout its
  own list makes.

  `RowsSurvive` is not true of any script, only of those there are, so its
  theorem assumes `ReleasedBuilds`: each build has the first one, two, three or four of the
  released migrations. The statements of each are followed one by one (`InitialStage`,
  `ReconfigStage`, `FormatStage`, `ArtworkStage`): rows say what was stored when a migration begins and again
  when it ends, though not in between.
- `SteamProcessInspectorProofs` proves `AnnotationIsOwn` for any PIDs, paths and App IDs. An entry that
  would pass for the program now running under its PID, by its path, has that
  program's App ID (`UsableEntriesAreOwn`), unless the PID was reused under the same path; and
  once an annotation is finished no entry is left of a process that was not listed
  (`CacheFollowsSnapshot`).

The assumptions are the named `ASSUME`s of the modules: sentinels are not
values, bounds are natural numbers, grace periods are positive, the tables a run begins with
are ones the schema admits, versions count from one. `MigrationsAreFixed` says that two builds that know a migration
of one version by one name run the same script for it: the ledger keeps versions and
names only, so the code can tell no more. TLC evaluates the assumptions in every run.

Courses and stages are recursive functions. No induction theorem is used for them:
the indexes at which a claim fails would have a least element, which is neither the first nor the
successor of one where the claim holds (`LeastOf`).

Only model-checked: the liveness properties (`AbandonedSessionEnds`,
`PlayedGameGetsSession`, `RequestsEnd`, `TrackingResumes`), for fairness is out of the
prover's reach; and `RowsSurvive` with a build of another line of development, which the run has and the theorem
excludes. Every other property of the passing runs is a theorem.

## Not modelled, and what is left

- The inspector's exception inside the sessions: `SessionService` takes the App ID of
  a process to be its own. Processes there have no PIDs, and every property about what runs
  would otherwise have two meanings.
- Rows that cannot be read: the program does not write them.
- Durations, titles, the texts of enumerations, filters and orders of queries:
  no check in the modelled calls reads them.
- A session restored after a crash counts the downtime when it ends; the
  documents describe the restoration as intended.
- Reading `/proc`, SQL text, widgets, logging and paths: no state of their own, or
  pure I/O.
