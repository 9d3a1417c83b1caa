--------------------- MODULE SteamProcessInspectorProofs ---------------------
(***************************************************************************)
(* Proof that SteamProcessInspector annotates processes with their own App *)
(* IDs, for any number of PIDs, paths and App IDs, and any interleaving of *)
(* the system's steps with an annotation.                                  *)
(***************************************************************************)
EXTENDS SteamProcessInspector, TLAPS

Types ==
  /\ running \in [Pid -> Program \cup {NoProgram}]
  /\ processes = [p \in DOMAIN processes |-> processes[p]]
  /\ \A p \in DOMAIN processes : p \in Pid /\ processes[p] \in Path
  /\ todo \subseteq DOMAIN processes
  /\ annotating \in BOOLEAN

\* The cache holds what the snapshot's processes were listed with, but for
\* those still to be annotated; what is left of others goes when the
\* annotation is finished.
CacheFollowsSnapshot ==
  /\ cache = [p \in DOMAIN cache |-> cache[p]]
  /\ \A p \in DOMAIN processes \ todo : p \in DOMAIN cache /\ cache[p].path = processes[p]
  /\ ~annotating => todo = {} /\ DOMAIN cache \subseteq DOMAIN processes

\* An entry that will pass for the program running now has its App ID.  While
\* the annotation lasts, an entry left from before may have the program's
\* path; it counts only if the snapshot has the same.
UsableEntriesAreOwn ==
  \A p \in (DOMAIN cache \cap DOMAIN processes) \ hidden :
    /\ running[p] # NoProgram
    /\ cache[p].path = processes[p] /\ running[p].path = processes[p]
    => cache[p].app = running[p].app

IInv == Types /\ CacheFollowsSnapshot /\ UsableEntriesAreOwn

-----------------------------------------------------------------------------
LEMMA InitIsGood == Init => IInv
<1> SUFFICES ASSUME Init PROVE IInv
  OBVIOUS
<1>1. DOMAIN processes = {} /\ DOMAIN cache = {}
  BY DEF Init
<1>2. processes = [p \in DOMAIN processes |-> processes[p]] /\ cache = [p \in DOMAIN cache |-> cache[p]]
  BY DEF Init
<1> QED
  BY <1>1, <1>2 DEF Init, IInv, Types, CacheFollowsSnapshot, UsableEntriesAreOwn

\* A program that comes under a listed path is hidden; under another path it
\* is not taken for the one that was listed.
LEMMA StartKeeps ==
  ASSUME IInv, NEW p \in Pid, NEW program \in Program, StartProgram(p, program) PROVE IInv'
<1>1. UNCHANGED <<processes, todo, annotating, cache>>
  BY DEF StartProgram
<1>2. /\ running' \in [Pid -> Program \cup {NoProgram}] /\ running'[p] = program
      /\ \A q \in Pid \ {p} : running'[q] = running[q]
  BY DEF StartProgram, IInv, Types
<1>3. hidden \subseteq hidden' /\ (p \in DOMAIN processes /\ processes[p] = program.path => p \in hidden')
  BY DEF StartProgram, ListedAs
<1>4. Types' /\ CacheFollowsSnapshot'
  BY <1>1, <1>2 DEF IInv, Types, CacheFollowsSnapshot
<1>5. UsableEntriesAreOwn'
  BY <1>1, <1>2, <1>3 DEF IInv, Types, UsableEntriesAreOwn
<1> QED
  BY <1>4, <1>5 DEF IInv

LEMMA EndKeeps == ASSUME IInv, NEW p \in Pid, EndProgram(p) PROVE IInv'
<1>1. UNCHANGED <<processes, todo, annotating, cache, hidden>>
  BY DEF EndProgram
<1>2. /\ running' \in [Pid -> Program \cup {NoProgram}] /\ running'[p] = NoProgram
      /\ \A q \in Pid \ {p} : running'[q] = running[q]
  BY DEF EndProgram, IInv, Types
<1> QED
  BY <1>1, <1>2 DEF IInv, Types, CacheFollowsSnapshot, UsableEntriesAreOwn

\* A hidden process that is listed under another path than before has an
\* entry that will be replaced.
LEMMA ListKeeps ==
  ASSUME IInv, NEW listed \in {Live, {}}, ListProcesses(listed) PROVE IInv'
<1>1. /\ ~annotating /\ annotating' = TRUE /\ UNCHANGED <<running, cache>>
      /\ processes' = [p \in listed |-> running[p].path] /\ todo' = listed
      /\ hidden' = {p \in hidden \cap listed : ListedAs(p, running[p].path)}
  BY DEF ListProcesses
<1>2. \A p \in listed : p \in Pid /\ running[p] \in Program
  BY DEF Live, IInv, Types
<1>3. Types' /\ CacheFollowsSnapshot'
  BY <1>1, <1>2 DEF IInv, Types, CacheFollowsSnapshot, Program
<1>4. UsableEntriesAreOwn'
  <2> SUFFICES ASSUME NEW p \in (DOMAIN cache \cap listed) \ hidden',
                      cache[p].path = running[p].path
               PROVE  cache[p].app = running[p].app
    BY <1>1, <1>2, NoProgramAssumption DEF UsableEntriesAreOwn
  <2>1. p \in DOMAIN processes /\ cache[p].path = processes[p]
    BY <1>1 DEF IInv, CacheFollowsSnapshot
  <2>2. p \notin hidden
    BY <1>1, <2>1 DEF ListedAs
  <2> QED
    BY <1>2, <2>1, <2>2, NoProgramAssumption DEF IInv, UsableEntriesAreOwn
<1> QED
  BY <1>3, <1>4 DEF IInv

\* What is read now is the App ID of the program that runs now.
LEMMA AnnotateKeeps == ASSUME IInv, NEW p \in Pid, Annotate(p) PROVE IInv'
<1>1. /\ p \in todo /\ p \in DOMAIN processes /\ todo' = todo \ {p}
      /\ UNCHANGED <<running, processes, annotating, hidden>>
  BY DEF Annotate, IInv, Types
<1>2. CASE IsCached(p)
  <2>1. cache' = cache /\ p \in DOMAIN cache /\ cache[p].path = processes[p]
    BY <1>2 DEF Annotate, IsCached
  <2> QED
    BY <1>1, <2>1 DEF IInv, Types, CacheFollowsSnapshot, UsableEntriesAreOwn
<1>3. CASE ~IsCached(p)
  <2>1. cache' = [q \in DOMAIN cache \cup {p} |-> IF q = p THEN Entry(p) ELSE cache[q]]
    BY <1>3 DEF Annotate
  <2>2. /\ Entry(p).path = processes[p]
        /\ running[p] # NoProgram => Entry(p).app = running[p].app
    BY DEF Entry, ReadSteamAppId
  <2> HIDE DEF Entry
  <2>3. Types'
    BY <1>1 DEF IInv, Types
  <2>4. annotating
    BY <1>1 DEF IInv, CacheFollowsSnapshot
  <2>5. CacheFollowsSnapshot'
    BY <1>1, <2>1, <2>2, <2>4 DEF IInv, CacheFollowsSnapshot
  <2>6. UsableEntriesAreOwn'
    BY <1>1, <2>1, <2>2 DEF IInv, UsableEntriesAreOwn
  <2> QED
    BY <2>3, <2>5, <2>6 DEF IInv
<1> QED
  BY <1>2, <1>3

LEMMA FinishKeeps == ASSUME IInv, FinishAnnotation PROVE IInv'
<1>1. /\ todo = {} /\ annotating' = FALSE
      /\ UNCHANGED <<running, processes, todo, hidden>>
      /\ cache' = [p \in DOMAIN cache \cap DOMAIN processes |-> cache[p]]
  BY DEF FinishAnnotation, EraseAbsent, Restrict
<1> QED
  BY <1>1 DEF IInv, Types, CacheFollowsSnapshot, UsableEntriesAreOwn

LEMMA NextKeeps == IInv /\ [Next]_vars => IInv'
<1> SUFFICES ASSUME IInv, [Next]_vars PROVE IInv'
  OBVIOUS
<1>1. CASE SystemStep
  BY <1>1, StartKeeps, EndKeeps DEF SystemStep
<1>2. CASE \E listed \in {Live, {}} : ListProcesses(listed)
  BY <1>2, ListKeeps
<1>3. CASE \E p \in Pid : Annotate(p)
  BY <1>3, AnnotateKeeps
<1>4. CASE FinishAnnotation
  BY <1>4, FinishKeeps
<1>5. CASE UNCHANGED vars
  BY <1>5 DEF vars, IInv, Types, CacheFollowsSnapshot, UsableEntriesAreOwn
<1> QED
  BY <1>1, <1>2, <1>3, <1>4, <1>5 DEF Next

(* Once a snapshot is annotated, the cache has its processes under the     *)
(* paths they were listed with, and each App ID in it is that of the       *)
(* program that runs, but for PIDs that got another program of the same    *)
(* path (the cache of SteamProcessInspector::annotate).                    *)
THEOREM AnnotationsAreOwn == Spec => []AnnotationIsOwn
<1>1. IInv => AnnotationIsOwn
  <2> SUFFICES ASSUME IInv, ~annotating PROVE AnnotationIsOwn
    BY DEF AnnotationIsOwn
  <2>1. /\ DOMAIN cache = DOMAIN processes
        /\ \A p \in DOMAIN cache : cache[p].path = processes[p]
    BY DEF IInv, CacheFollowsSnapshot
  <2> QED
    BY <2>1 DEF IInv, UsableEntriesAreOwn, AnnotationIsOwn, Live
<1> QED
  BY <1>1, InitIsGood, NextKeeps, PTL DEF Spec
=============================================================================
