------------------------ MODULE SteamProcessInspector ------------------------
(***************************************************************************)
(* SteamProcessInspector: the cache of Steam App IDs by PID that spares    *)
(* GameLog reading every environment at every poll.  The operating system  *)
(* goes on between the listing of the processes, each look into an         *)
(* environment and the next poll: programs end, start under PIDs used      *)
(* before, or replace each other by exec.                                  *)
(*                                                                         *)
(* A poll while no tracked game has an App ID does not come here            *)
(* (GameLogRuntime::update), so between two annotations any number of polls *)
(* may pass.  After an annotation the cache is what it returned: the PIDs  *)
(* of the snapshot with their paths and App IDs.                           *)
(***************************************************************************)
EXTENDS Functions

CONSTANTS Pid,
          Path,       \* executable paths; the empty one may be among them
          App, NoApp, \* App IDs, and what stands for none
          NoProgram   \* no program has the PID

ASSUME InspectorAssumption == NoApp \notin App /\ NoProgram \notin Path

Program == [path : Path, app : App \cup {NoApp}]

ASSUME NoProgramAssumption == NoProgram \notin Program

VARIABLES
  running,     \* what each PID runs; its App ID is in its environment
  processes,   \* the paths of the snapshot being annotated, or annotated last
  todo,        \* the PIDs of it still to be annotated
  annotating,
  cache,      \* PIDs to the path and App ID they were cached with
  hidden       \* history: PIDs that got another program under the path they
               \* were listed with, and were listed with no other since

vars == <<running, processes, todo, annotating, cache, hidden>>

Live == {p \in Pid : running[p] # NoProgram}

ListedAs(p, path) == p \in DOMAIN processes /\ processes[p] = path

-----------------------------------------------------------------------------
(* A program starts under a PID that is free, or takes over one by exec.   *)
StartProgram(p, program) ==
  /\ running' = [running EXCEPT ![p] = program]
  /\ hidden' = hidden \cup {q \in {p} : ListedAs(q, program.path)}
  /\ UNCHANGED <<processes, todo, annotating, cache>>

EndProgram(p) ==
  /\ running' = [running EXCEPT ![p] = NoProgram]
  /\ UNCHANGED <<processes, todo, annotating, cache, hidden>>

(* listProcesses; a listing that fails is empty, and is annotated all the  *)
(* same.                                                                   *)
ListProcesses(listed) ==
  /\ ~annotating /\ annotating' = TRUE
  /\ processes' = [p \in listed |-> running[p].path]
  /\ todo' = listed
  /\ hidden' = {p \in hidden \cap listed : ListedAs(p, running[p].path)}
  /\ UNCHANGED <<running, cache>>

\* Faulty: an entry is taken for the PID alone.
IsCachedByPid(p) == p \in DOMAIN cache

IsCached(p) == p \in DOMAIN cache /\ cache[p].path = processes[p]

(* readSteamAppId: a PID without a program has no environment to read.  A  *)
(* program whose environment GameLog may not read has NoApp as its own.    *)
ReadSteamAppId(p) == IF running[p] = NoProgram THEN NoApp ELSE running[p].app

Entry(p) == [path |-> processes[p], app |-> ReadSteamAppId(p)]

(* One turn of the first loop of annotate.                                 *)
Annotate(p) ==
  /\ p \in todo /\ todo' = todo \ {p}
  /\ cache' = IF IsCached(p)
               THEN cache
               ELSE [q \in DOMAIN cache \cup {p} |-> IF q = p THEN Entry(p) ELSE cache[q]]
  /\ UNCHANGED <<running, processes, annotating, hidden>>

EraseAbsent == cache' = Restrict(cache, DOMAIN cache \cap DOMAIN processes)

(* The second loop.                                                        *)
FinishAnnotation ==
  /\ annotating /\ todo = {}
  /\ annotating' = FALSE
  /\ EraseAbsent
  /\ UNCHANGED <<running, processes, todo, hidden>>

-----------------------------------------------------------------------------
Init == /\ running \in [Pid -> Program \cup {NoProgram}]
        /\ processes = <<>> /\ cache = <<>>
        /\ todo = {} /\ annotating = FALSE /\ hidden = {}

SystemStep == \E p \in Pid : EndProgram(p) \/ \E program \in Program : StartProgram(p, program)

Next == \/ SystemStep
        \/ \E listed \in {Live, {}} : ListProcesses(listed)
        \/ \E p \in Pid : Annotate(p)
        \/ FinishAnnotation

Spec == Init /\ [][Next]_vars

-----------------------------------------------------------------------------
(* Once a snapshot is annotated, its processes and no others are in the    *)
(* cache, under the paths they were listed with (the cache contract of the *)
(* design document), and the App ID each is annotated with is its own, as  *)
(* the documents assume of a process "while PID/path remain the same":     *)
(* although environments are read later than the snapshot, and PIDs are    *)
(* reused, it is never that of another program, with one exception.  A     *)
(* program that got its PID since the last annotation and has the path of  *)
(* the one before goes by the other's App ID, until the PID is listed with *)
(* another path or not at all.                                             *)
AnnotationIsOwn ==
  ~annotating =>
    /\ DOMAIN cache = DOMAIN processes
    /\ \A p \in DOMAIN cache : cache[p].path = processes[p]
    /\ \A p \in (Live \cap DOMAIN cache) \ hidden :
         cache[p].path = running[p].path => cache[p].app = running[p].app
=============================================================================
