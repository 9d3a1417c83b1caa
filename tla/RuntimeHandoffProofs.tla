------------------------- MODULE RuntimeHandoffProofs -------------------------
(***************************************************************************)
(* Proofs about RuntimeHandoff, for any number of launchers and builds and *)
(* any scripts: types, the single owner of the database, that a foreign    *)
(* schema is left as it is, that migrations come whole (the refinement of  *)
(* SchemaHistory) and that a build runs on the schema it was made for; and *)
(* for the released scripts, that no row is lost.                          *)
(*                                                                         *)
(* What a recursive function computes is proved without an induction       *)
(* theorem: the set of indexes at which a claim fails has a least element, *)
(* which is neither the first nor the successor of one where it holds.     *)
(***************************************************************************)
EXTENDS RuntimeHandoff, NaturalsInduction, WellFoundedInduction, TLAPS

ProcessState == {"down", "launched", "starting", "running"}

UnitState == {"active", "inactive", "waiting", "ended"}

LauncherState == [at : {"idle", "stopping", "trap", "window", "cleanup", "done", "killed"},
                  wasActive : BOOLEAN]

SystemTypes ==
  /\ proc \in [Process -> ProcessState]
  /\ lock \in Process \cup {NoProcess}
  /\ unit \in UnitState
  /\ launcher \in [Launcher -> LauncherState]

CounterTypes ==
  /\ installed \in Builds
  /\ installs \in 0..MaxInstalls /\ faults \in 0..MaxFaults

\* The fields a database and its tables have.
WholeDatabase(db) ==
  /\ DOMAIN db = {"ledger", "tables", "indexes"}
  /\ \A t \in DOMAIN db.tables : DOMAIN db.tables[t] = {"columns", "rows"}

\* A connection on the way through initialize(): its walk is inside the
\* list, its build goes with the ledger once that was read, and its
\* transaction has the ledger it began with.
GoodConnection(c, db) ==
  /\ DOMAIN c = {"at", "build", "applied", "next", "done", "copy"}
  /\ c.at \in Phase
  /\ c.build \in Builds \cup {<<>>}
  /\ c.at # "closed" => c.build \in Builds
  /\ c.next \in 0..Len(c.build)
  /\ c.at = "migrating" =>
       /\ c.next \in 1..Len(c.build)
       /\ c.done \in 0..Len(Script(c))
       /\ WholeDatabase(c.copy) /\ c.copy.ledger = db.ledger
  /\ c.at \in {"validated", "migrating", "ready"} => Agrees(c.build, db.ledger)

ConnectionInv ==
  /\ conn = [p \in Process |-> conn[p]]
  /\ WholeDatabase(disk)
  /\ \A p \in Process : GoodConnection(conn[p], disk)
  /\ \A p \in Process :
       /\ conn[p].at # "closed" => proc[p] \in {"starting", "running"}
       /\ proc[p] = "running" => conn[p].at = "ready"
       /\ proc[p] # "down" => conn[p].build \in Builds

\* Who is past the lock holds it.
OwnerHasLock == \A p \in Process : proc[p] \in {"starting", "running"} => lock = p

\* Two databases that differ in their rows at most.
SameLayout(d, e) ==
  /\ d.ledger = e.ledger /\ d.indexes = e.indexes
  /\ DOMAIN d.tables = DOMAIN e.tables
  /\ \A t \in DOMAIN d.tables : d.tables[t].columns = e.tables[t].columns

\* How far a connection has come when the first k migrations are on disk.
Walks(c, db, k) ==
  /\ c.at \in {"closed", "opened"} => c.next = 0
  /\ c.at = "validated" => 1..k = DOMAIN c.applied \cup 1..c.next
  /\ c.at = "migrating" =>
       /\ c.next = k + 1 /\ DOMAIN c.applied \subseteq 1..k
       /\ c.copy = Course(Script(c), db)[c.done]
  /\ c.at = "ready" => k = Len(c.build)

\* The layout is what every build that goes with the ledger would have made
\* of it by itself.
IsStage(db, k) ==
  /\ DOMAIN db.ledger = 1..k
  /\ \A b \in Builds : Agrees(b, db.ledger) =>
        WholeDatabase(Stages(b)[k]) /\ SameLayout(db, Stages(b)[k])

StandsAt(k) ==
  /\ IsStage(disk, k)
  /\ \A p \in Process : Walks(conn[p], disk, k)

HistoryInv == \E k \in Nat : StandsAt(k)

ProgramInv == SystemTypes /\ ConnectionInv /\ OwnerHasLock /\ HistoryInv

IInv == ProgramInv /\ CounterTypes

\* A build that knows the whole ledger adds its next migration to it.
Migrates(b) ==
  /\ b \in Builds /\ Agrees(b, disk.ledger)
  /\ \E k \in Nat : /\ IsStage(disk, k) /\ k + 1 \in 1..Len(b)
                    /\ disk' = Migrated(b[k + 1], disk)

\* The file changes under a process that starts, by a whole migration, and
\* under one that runs, in its rows.
SchemaStep == \/ disk' = disk
              \/ \E p \in Process : proc[p] = "starting" /\ Migrates(conn[p].build)
              \/ \E p \in Process : Store(p)

-----------------------------------------------------------------------------
LEMMA BuildLengths ==
  ASSUME NEW b \in Builds \cup {<<>>} PROVE Len(b) \in Nat
  BY BuildsAssumption

LEMMA ClosedIsGood ==
  ASSUME NEW b \in Builds \cup {<<>>}, NEW db
  PROVE  /\ GoodConnection([Closed EXCEPT !.build = b], db) /\ GoodConnection(Closed, db)
         /\ [Closed EXCEPT !.build = b].at = "closed" /\ Closed.at = "closed"
         /\ [Closed EXCEPT !.build = b].build = b
         /\ [Closed EXCEPT !.build = b].next = 0 /\ Closed.next = 0
<1>1. Len(b) \in Nat /\ Len(<<>>) \in Nat
  BY BuildLengths
<1> QED
  BY <1>1 DEF Closed, GoodConnection, Phase

\* A recorded version that the build knows by its name.
LEMMA CompatibleAgrees ==
  ASSUME NEW b \in Builds, NEW ledger, Compatible(b, ledger) PROVE Agrees(b, ledger)
  BY BuildsAssumption DEF Compatible, Agrees

\* A statement touches neither the ledger nor the shape of the database.
LEMMA EffectKeepsLedger ==
  ASSUME NEW s, NEW db, WholeDatabase(db)
  PROVE  WholeDatabase(Effect(s, db)) /\ Effect(s, db).ledger = db.ledger
<1>1. CASE s.op = "create"
  <2> DEFINE new == [t \in DOMAIN db.tables \cup {s.table} |->
                       IF t = s.table THEN [columns |-> s.columns, rows |-> <<>>]
                                      ELSE db.tables[t]]
  <2>1. Effect(s, db) = [db EXCEPT !.tables = new]
    BY <1>1 DEF Effect
  <2>2. \A t \in DOMAIN new : DOMAIN new[t] = {"columns", "rows"}
    BY DEF WholeDatabase
  <2> HIDE DEF new
  <2> QED
    BY <2>1, <2>2 DEF WholeDatabase
<1>2. CASE s.op = "index"
  BY <1>2 DEF Effect, WholeDatabase
<1>3. CASE s.op # "create" /\ s.op # "index"
  <2> DEFINE changed == NewTable(s, db.tables[s.table])
  <2>1. Effect(s, db) = [db EXCEPT !.tables[s.table] = changed]
    BY <1>3 DEF Effect
  <2>2. DOMAIN changed = {"columns", "rows"}
    BY DEF NewTable
  <2> HIDE DEF changed
  <2> QED
    BY <2>1, <2>2 DEF WholeDatabase
<1> QED
  BY <1>1, <1>2, <1>3

LEMMA RecordedLedger ==
  ASSUME NEW m, NEW db, WholeDatabase(db)
  PROVE  /\ WholeDatabase(Recorded(m, db))
         /\ DOMAIN Recorded(m, db).ledger = DOMAIN db.ledger \cup {m.version}
         /\ \A v \in DOMAIN Recorded(m, db).ledger :
              Recorded(m, db).ledger[v] = IF v = m.version THEN m.name ELSE db.ledger[v]
<1> DEFINE ledger == [v \in DOMAIN db.ledger \cup {m.version} |->
                        IF v = m.version THEN m.name ELSE db.ledger[v]]
<1>1. Recorded(m, db) = [db EXCEPT !.ledger = ledger]
  BY DEF Recorded
<1>2. /\ DOMAIN ledger = DOMAIN db.ledger \cup {m.version}
      /\ \A v \in DOMAIN ledger : ledger[v] = IF v = m.version THEN m.name ELSE db.ledger[v]
  OBVIOUS
<1> HIDE DEF ledger
<1> QED
  BY <1>1, <1>2 DEF WholeDatabase

\* A build that goes with the ledger does so after one of its own
\* migrations has been recorded.
LEMMA RecordingAgrees ==
  ASSUME NEW b \in Builds, NEW i \in 1..Len(b), NEW db, WholeDatabase(db),
         Agrees(b, db.ledger)
  PROVE  Agrees(b, Recorded(b[i], db).ledger)
<1>1. b[i].version = i /\ i \in DOMAIN b
  BY BuildsAssumption
<1>2. /\ DOMAIN Recorded(b[i], db).ledger = DOMAIN db.ledger \cup {b[i].version}
      /\ \A v \in DOMAIN Recorded(b[i], db).ledger :
           Recorded(b[i], db).ledger[v] = IF v = b[i].version THEN b[i].name ELSE db.ledger[v]
  BY RecordedLedger
<1> QED
  BY <1>1, <1>2 DEF Agrees

\* A set of natural numbers has a least element, and one that holds zero and
\* with every number below n its successor reaches up to n.
LEMMA LeastOf ==
  ASSUME NEW S \in SUBSET Nat, S # {}
  PROVE  \E i \in S : \A j \in S : i <= j
<1> DEFINE less == OpToRel(<, Nat)
<1>1. PICK i \in S : \A j \in S : <<j, i>> \notin less
  <2> HIDE DEF less
  <2>1. IsWellFoundedOn(less, Nat)
    BY NatLessThanWellFounded DEF less
  <2> QED
    BY <2>1, WFMin
<1>2. \A j \in S : i <= j
  <2> SUFFICES ASSUME NEW j \in S PROVE i <= j
    OBVIOUS
  <2>1. ~(j < i)
    BY <1>1 DEF OpToRel
  <2> QED
    BY <2>1
<1> QED
  BY <1>2

LEMMA UpTo ==
  ASSUME NEW n \in Nat, NEW S \in SUBSET Nat, 0 \in S,
         \A i \in S : i < n => i + 1 \in S
  PROVE  0..n \subseteq S
<1> SUFFICES ASSUME NEW k \in 0..n, k \notin S PROVE FALSE
  OBVIOUS
<1> DEFINE R == {i \in 0..n : i \notin S}
<1>1. R \in SUBSET Nat /\ R # {}
  OBVIOUS
<1>2. PICK i \in R : \A j \in R : i <= j
  <2> HIDE DEF R
  <2> QED BY <1>1, LeastOf
<1>3. i # 0 /\ i - 1 \in 0..n /\ i - 1 < n /\ (i - 1) + 1 = i
  OBVIOUS
<1>4. i - 1 \in S
  BY <1>2, <1>3
<1> QED
  BY <1>3, <1>4

\* The next migration is one that is still to come.
LEMMA FirstIsPending ==
  ASSUME NEW S \in SUBSET Nat, S # {} PROVE First(S) \in S
  BY LeastOf DEF First

-----------------------------------------------------------------------------
(* The databases a script and a list of migrations go through.  Both are    *)
(* recursive functions; that they exist is proved by induction on their     *)
(* length.                                                                  *)
IsCourse(f, n, script, db) ==
  f = [i \in 0..n |-> IF i = 0 THEN db ELSE Effect(script[i], f[i - 1])]

LEMMA CourseExists ==
  ASSUME NEW script, NEW db, NEW n \in Nat
  PROVE  \E f : IsCourse(f, n, script, db)
<1> DEFINE S == {m \in Nat : \E f : IsCourse(f, m, script, db)}
<1>1. 0 \in S
  <2>1. IsCourse([i \in 0..0 |-> db], 0, script, db)
    BY DEF IsCourse
  <2> QED BY <2>1
<1>2. ASSUME NEW m \in S PROVE m + 1 \in S
  <2>1. PICK f : IsCourse(f, m, script, db)
    OBVIOUS
  <2> DEFINE g == [i \in 0..m + 1 |-> IF i = m + 1 THEN Effect(script[i], f[m]) ELSE f[i]]
  <2>2. ASSUME NEW i \in 0..m + 1
        PROVE  g[i] = IF i = 0 THEN db ELSE Effect(script[i], g[i - 1])
    <3>1. CASE i = m + 1
      BY <3>1
    <3>2. CASE i # m + 1
      BY <2>1, <3>2 DEF IsCourse
    <3> QED BY <3>1, <3>2
  <2>3. IsCourse(g, m + 1, script, db)
    BY <2>2 DEF IsCourse
  <2> QED BY <2>3
<1> HIDE DEF S
<1>3. 0..n \subseteq S
  BY <1>1, <1>2, UpTo DEF S
<1> QED BY <1>3 DEF S

LEMMA CourseSteps ==
  ASSUME NEW script, NEW db, Len(script) \in Nat
  PROVE  /\ Course(script, db)[0] = db
         /\ \A i \in 1..Len(script) :
              Course(script, db)[i] = Effect(script[i], Course(script, db)[i - 1])
<1>1. IsCourse(Course(script, db), Len(script), script, db)
  BY CourseExists DEF Course, IsCourse
<1> QED BY <1>1 DEF IsCourse

IsStages(f, n, b) ==
  f = [i \in 0..n |-> IF i = 0 THEN EmptyDatabase ELSE Migrated(b[i], f[i - 1])]

LEMMA StagesExist ==
  ASSUME NEW b, NEW n \in Nat
  PROVE  \E f : IsStages(f, n, b)
<1> DEFINE S == {m \in Nat : \E f : IsStages(f, m, b)}
<1>1. 0 \in S
  <2>1. IsStages([i \in 0..0 |-> EmptyDatabase], 0, b)
    BY DEF IsStages
  <2> QED BY <2>1
<1>2. ASSUME NEW m \in S PROVE m + 1 \in S
  <2>1. PICK f : IsStages(f, m, b)
    OBVIOUS
  <2> DEFINE g == [i \in 0..m + 1 |-> IF i = m + 1 THEN Migrated(b[i], f[m]) ELSE f[i]]
  <2>2. ASSUME NEW i \in 0..m + 1
        PROVE  g[i] = IF i = 0 THEN EmptyDatabase ELSE Migrated(b[i], g[i - 1])
    <3>1. CASE i = m + 1
      BY <3>1
    <3>2. CASE i # m + 1
      <4>1. i \in 0..m /\ i - 1 # m + 1 /\ (i # 0 => i - 1 \in 0..m)
        BY <3>2
      <4>2. f[i] = IF i = 0 THEN EmptyDatabase ELSE Migrated(b[i], f[i - 1])
        BY <2>1, <4>1 DEF IsStages
      <4>3. g[i] = f[i] /\ (i # 0 => g[i - 1] = f[i - 1])
        BY <3>2, <4>1
      <4> QED
        BY <4>2, <4>3
    <3> QED BY <3>1, <3>2
  <2>3. IsStages(g, m + 1, b)
    BY <2>2 DEF IsStages
  <2> QED BY <2>3
<1> HIDE DEF S
<1>3. 0..n \subseteq S
  BY <1>1, <1>2, UpTo DEF S
<1> QED BY <1>3 DEF S

LEMMA StagesSteps ==
  ASSUME NEW b, Len(b) \in Nat
  PROVE  /\ Stages(b)[0] = EmptyDatabase
         /\ \A i \in 1..Len(b) : Stages(b)[i] = Migrated(b[i], Stages(b)[i - 1])
<1>1. IsStages(Stages(b), Len(b), b)
  BY StagesExist DEF Stages, IsStages
<1>2. PICK f : f = Stages(b)
  OBVIOUS
<1>3. \A i \in 0..Len(b) :
        f[i] = IF i = 0 THEN EmptyDatabase ELSE Migrated(b[i], f[i - 1])
  BY <1>1, <1>2 DEF IsStages
<1> QED BY <1>2, <1>3

-----------------------------------------------------------------------------
(* What a statement makes of a layout depends on the layout alone: rows     *)
(* never decide what a schema becomes.                                      *)
LEMMA LayoutIsSame ==
  ASSUME NEW d, NEW e PROVE Layout(d) = Layout(e) <=> SameLayout(d, e)
<1> DEFINE ColumnsOf(db) == [t \in DOMAIN db.tables |-> db.tables[t].columns]
<1>1. ColumnsOf(d) = ColumnsOf(e) <=>
        /\ DOMAIN d.tables = DOMAIN e.tables
        /\ \A t \in DOMAIN d.tables : d.tables[t].columns = e.tables[t].columns
  <2>1. ASSUME ColumnsOf(d) = ColumnsOf(e)
        PROVE  /\ DOMAIN d.tables = DOMAIN e.tables
               /\ \A t \in DOMAIN d.tables : d.tables[t].columns = e.tables[t].columns
    <3>1. DOMAIN ColumnsOf(d) = DOMAIN d.tables /\ DOMAIN ColumnsOf(e) = DOMAIN e.tables
      OBVIOUS
    <3>2. \A t \in DOMAIN d.tables : ColumnsOf(d)[t] = d.tables[t].columns
      OBVIOUS
    <3>3. \A t \in DOMAIN e.tables : ColumnsOf(e)[t] = e.tables[t].columns
      OBVIOUS
    <3> QED
      BY <2>1, <3>1, <3>2, <3>3
  <2> QED
    BY <2>1
<1> HIDE DEF ColumnsOf
<1>2. \A db : Layout(db) = [ledger |-> db.ledger, indexes |-> db.indexes,
                            columns |-> ColumnsOf(db)]
  BY DEF Layout, ColumnsOf
<1> QED
  BY <1>1, <1>2 DEF SameLayout

LEMMA EffectKeepsSameness ==
  ASSUME NEW s, NEW d, NEW e, WholeDatabase(d), WholeDatabase(e), SameLayout(d, e)
  PROVE  SameLayout(Effect(s, d), Effect(s, e))
<1>1. CASE s.op = "create"
  <2> DEFINE New(db) == [t \in DOMAIN db.tables \cup {s.table} |->
                           IF t = s.table THEN [columns |-> s.columns, rows |-> <<>>]
                                          ELSE db.tables[t]]
  <2>1. \A db : Effect(s, db) = [db EXCEPT !.tables = New(db)]
    BY <1>1 DEF Effect
  <2>2. /\ DOMAIN New(d) = DOMAIN New(e)
        /\ \A t \in DOMAIN New(d) : New(d)[t].columns = New(e)[t].columns
    BY DEF SameLayout
  <2> HIDE DEF New
  <2>3. \A db : WholeDatabase(db) =>
          /\ Effect(s, db).tables = New(db)
          /\ Effect(s, db).ledger = db.ledger /\ Effect(s, db).indexes = db.indexes
    BY <2>1 DEF WholeDatabase
  <2> QED
    BY <2>2, <2>3 DEF SameLayout
<1>2. CASE s.op = "index"
  BY <1>2 DEF Effect, WholeDatabase, SameLayout
<1>3. CASE s.op # "create" /\ s.op # "index"
  <2> DEFINE Fits(db, new) ==
               /\ new.ledger = db.ledger /\ new.indexes = db.indexes
               /\ DOMAIN new.tables = DOMAIN db.tables
               /\ \A t \in DOMAIN db.tables :
                    new.tables[t].columns = IF t = s.table
                                            THEN NewColumns(s, db.tables[t].columns)
                                            ELSE db.tables[t].columns
  <2>1. ASSUME NEW db, WholeDatabase(db) PROVE Fits(db, Effect(s, db))
    <3>0. NewTable(s, db.tables[s.table]).columns = NewColumns(s, db.tables[s.table].columns)
      BY DEF NewTable
    <3>1. PICK table : /\ table = NewTable(s, db.tables[s.table])
                       /\ table.columns = NewColumns(s, db.tables[s.table].columns)
      BY <3>0
    <3>2. Effect(s, db) = [db EXCEPT !.tables[s.table] = table]
      BY <1>3, <3>1 DEF Effect
    <3> QED
      BY <2>1, <3>1, <3>2 DEF WholeDatabase
  <2>2. PICK x, y : /\ x = Effect(s, d) /\ y = Effect(s, e)
                    /\ Fits(d, x) /\ Fits(e, y)
    BY <2>1
  <2>3. SameLayout(x, y)
    BY <2>2 DEF SameLayout
  <2> QED
    BY <2>2, <2>3
<1> QED
  BY <1>1, <1>2, <1>3

LEMMA CourseKeepsSameness ==
  ASSUME NEW script, Len(script) \in Nat, NEW d, NEW e,
         WholeDatabase(d), WholeDatabase(e), SameLayout(d, e)
  PROVE  \A i \in 0..Len(script) :
           LET x == Course(script, d)[i]
               y == Course(script, e)[i]
           IN  WholeDatabase(x) /\ WholeDatabase(y) /\ SameLayout(x, y)
                 /\ x.ledger = d.ledger
<1> DEFINE Good(i) == /\ WholeDatabase(Course(script, d)[i])
                      /\ WholeDatabase(Course(script, e)[i])
                      /\ SameLayout(Course(script, d)[i], Course(script, e)[i])
                      /\ Course(script, d)[i].ledger = d.ledger
           S == {i \in Nat : Good(i)}
<1>1. Good(0)
  BY CourseSteps
<1>2. ASSUME NEW i \in S, i < Len(script) PROVE Good(i + 1)
  <2>1. i + 1 \in 1..Len(script) /\ (i + 1) - 1 = i
    BY <1>2
  <2>2. /\ Course(script, d)[i + 1] = Effect(script[i + 1], Course(script, d)[i])
        /\ Course(script, e)[i + 1] = Effect(script[i + 1], Course(script, e)[i])
    BY <2>1, CourseSteps
  <2> QED
    BY <2>2, EffectKeepsSameness, EffectKeepsLedger
<1> HIDE DEF Good
<1>3. 0 \in S /\ \A i \in S : i < Len(script) => i + 1 \in S
  BY <1>1, <1>2
<1> HIDE DEF S
<1>4. 0..Len(script) \subseteq S
  BY <1>3, UpTo DEF S
<1> QED
  BY <1>4 DEF S, Good

LEMMA CourseKeepsLedger ==
  ASSUME NEW script, Len(script) \in Nat, NEW db, WholeDatabase(db)
  PROVE  \A i \in 0..Len(script) :
           /\ WholeDatabase(Course(script, db)[i])
           /\ Course(script, db)[i].ledger = db.ledger
<1>1. SameLayout(db, db)
  BY DEF SameLayout
<1>2. \A i \in 0..Len(script) :
        LET x == Course(script, db)[i]
        IN  WholeDatabase(x) /\ WholeDatabase(x) /\ SameLayout(x, x) /\ x.ledger = db.ledger
  BY <1>1, CourseKeepsSameness
<1> QED
  BY <1>2

LEMMA MigratedKeepsSameness ==
  ASSUME NEW m, Len(m.script) \in Nat, NEW d, NEW e,
         WholeDatabase(d), WholeDatabase(e), SameLayout(d, e)
  PROVE  /\ WholeDatabase(Migrated(m, d)) /\ WholeDatabase(Migrated(m, e))
         /\ SameLayout(Migrated(m, d), Migrated(m, e))
<1> DEFINE x == Course(m.script, d)[Len(m.script)]
           y == Course(m.script, e)[Len(m.script)]
           Row(db) == [v \in DOMAIN db.ledger \cup {m.version} |->
                         IF v = m.version THEN m.name ELSE db.ledger[v]]
<1>1. WholeDatabase(x) /\ WholeDatabase(y) /\ SameLayout(x, y)
  <2>1. Len(m.script) \in 0..Len(m.script)
    OBVIOUS
  <2> QED
    BY <2>1, CourseKeepsSameness
<1>2. Migrated(m, d) = Recorded(m, x) /\ Migrated(m, e) = Recorded(m, y)
  BY DEF Migrated
<1> HIDE DEF x, y
<1>3. \A db : Recorded(m, db) = [db EXCEPT !.ledger = Row(db)]
  BY DEF Recorded
<1>4. Row(x) = Row(y)
  BY <1>1 DEF SameLayout
<1> HIDE DEF Row
<1>5. SameLayout(Recorded(m, x), Recorded(m, y))
  <2>1. \A db : WholeDatabase(db) =>
          /\ Recorded(m, db).ledger = Row(db)
          /\ Recorded(m, db).indexes = db.indexes /\ Recorded(m, db).tables = db.tables
    BY <1>3 DEF WholeDatabase
  <2> QED
    BY <1>1, <1>4, <2>1 DEF SameLayout
<1> QED
  BY <1>1, <1>2, <1>5, RecordedLedger

-----------------------------------------------------------------------------
(* Steps of initialize().                                                  *)

LEMMA OwnersAreOne ==
  ASSUME ConnectionInv, OwnerHasLock, NEW p \in Process,
         proc[p] \in {"starting", "running"}
  PROVE  \A q \in Process \ {p} :
           conn[q].at = "closed" /\ proc[q] \notin {"starting", "running"}
  BY DEF ConnectionInv, OwnerHasLock

LEMMA ClosedFitsAll ==
  ASSUME NEW c, NEW db, NEW other, GoodConnection(c, db), c.at = "closed"
  PROVE  GoodConnection(c, other)
  BY DEF GoodConnection

\* Each step leaves a good connection; the file changes by a commit only.
InitializeStep(p) ==
  /\ conn' = [conn EXCEPT ![p] = conn'[p]]
  /\ GoodConnection(conn'[p], disk') /\ conn'[p].build = conn[p].build
  /\ WholeDatabase(disk')
  /\ disk' # disk => Agrees(conn[p].build, disk.ledger)

LEMMA SetMeansExcept ==
  ASSUME ConnectionInv, NEW p \in Process, NEW c, SetConnection(p, c)
  PROVE  conn'[p] = c /\ conn' = [conn EXCEPT ![p] = conn'[p]]
  BY DEF ConnectionInv, SetConnection

LEMMA OpenStep ==
  ASSUME ConnectionInv, NEW p \in Process, OpenDatabase(p), conn[p].build \in Builds
  PROVE  InitializeStep(p)
<1> DEFINE c == conn[p]
<1>1. GoodConnection(c, disk) /\ WholeDatabase(disk) /\ disk' = disk
  BY DEF ConnectionInv, OpenDatabase
<1>2. PICK new : new = [c EXCEPT !.at = "opened"]
  OBVIOUS
<1>3. SetConnection(p, new)
  BY <1>2 DEF OpenDatabase
<1>4. GoodConnection(new, disk) /\ new.build = c.build
  BY <1>1, <1>2 DEF GoodConnection, Phase
<1> QED
  BY <1>1, <1>3, <1>4, SetMeansExcept DEF InitializeStep

LEMMA ReadLedgerStep ==
  ASSUME ConnectionInv, NEW p \in Process, ReadLedger(p)
  PROVE  InitializeStep(p)
<1> DEFINE c == conn[p]
<1>1. GoodConnection(c, disk) /\ WholeDatabase(disk) /\ disk' = disk /\ c.at = "opened"
  BY DEF ConnectionInv, ReadLedger
<1>2. PICK new : new = [c EXCEPT !.at = "validated", !.applied = disk.ledger]
  OBVIOUS
<1>3. SetConnection(p, new)
  BY <1>2 DEF ReadLedger
<1>4. Agrees(c.build, disk.ledger) /\ c.build \in Builds
  BY <1>1, CompatibleAgrees DEF ReadLedger, GoodConnection
<1>5. GoodConnection(new, disk) /\ new.build = c.build
  BY <1>1, <1>2, <1>4 DEF GoodConnection, Phase
<1> QED
  BY <1>1, <1>3, <1>5, SetMeansExcept DEF InitializeStep

LEMMA BeginStep ==
  ASSUME ConnectionInv, NEW p \in Process, BeginMigration(p)
  PROVE  InitializeStep(p)
<1> DEFINE c == conn[p]
<1>1. GoodConnection(c, disk) /\ WholeDatabase(disk) /\ disk' = disk /\ c.at = "validated"
  BY DEF ConnectionInv, BeginMigration
<1>2. c.build \in Builds /\ Len(c.build) \in Nat /\ c.next \in Nat
  BY <1>1, BuildLengths DEF GoodConnection
<1>3. Pending(c) \subseteq 1..Len(c.build) /\ Pending(c) \in SUBSET Nat
  BY <1>2 DEF Pending
<1>4. PICK next \in 1..Len(c.build) : next = First(Pending(c))
  BY <1>3, FirstIsPending DEF BeginMigration
<1>5. PICK new : new = [c EXCEPT !.at = "migrating", !.next = next, !.done = 0, !.copy = disk]
  OBVIOUS
<1>6. SetConnection(p, new)
  BY <1>4, <1>5 DEF BeginMigration
<1>7. new.build = c.build /\ new.next = next /\ new.done = 0 /\ new.copy = disk
      /\ new.at = "migrating"
      /\ DOMAIN new = {"at", "build", "applied", "next", "done", "copy"}
  BY <1>1, <1>5 DEF GoodConnection
<1>8. Len(Script(new)) \in Nat
  BY <1>2, <1>7, BuildsAssumption DEF Script
<1>9. GoodConnection(new, disk)
  BY <1>1, <1>2, <1>7, <1>8 DEF GoodConnection, Phase
<1> QED
  BY <1>1, <1>6, <1>7, <1>9, SetMeansExcept DEF InitializeStep

LEMMA StatementStep ==
  ASSUME ConnectionInv, NEW p \in Process, RunStatement(p)
  PROVE  InitializeStep(p)
<1> DEFINE c == conn[p]
<1>1. /\ GoodConnection(c, disk) /\ WholeDatabase(disk) /\ disk' = disk
      /\ c.at = "migrating" /\ c.done < Len(Script(c))
  BY DEF ConnectionInv, RunStatement
<1>2. PICK copy : copy = Effect(Script(c)[c.done + 1], c.copy)
  OBVIOUS
<1>3. PICK new : new = [c EXCEPT !.done = c.done + 1, !.copy = copy]
  OBVIOUS
<1>4. SetConnection(p, new)
  BY <1>2, <1>3 DEF RunStatement
<1>5. WholeDatabase(copy) /\ copy.ledger = disk.ledger
  BY <1>1, <1>2, EffectKeepsLedger DEF GoodConnection
<1>6. new.build = c.build /\ new.next = c.next /\ new.done = c.done + 1 /\ new.copy = copy
      /\ new.at = "migrating"
      /\ DOMAIN new = {"at", "build", "applied", "next", "done", "copy"}
  BY <1>1, <1>3 DEF GoodConnection
<1>7. Script(new) = Script(c) /\ Len(Script(c)) \in Nat
  BY <1>1, <1>6, BuildsAssumption DEF Script, GoodConnection
<1>8. GoodConnection(new, disk)
  BY <1>1, <1>5, <1>6, <1>7 DEF GoodConnection
<1> QED
  BY <1>1, <1>4, <1>6, <1>8, SetMeansExcept DEF InitializeStep

LEMMA CommitStep ==
  ASSUME ConnectionInv, NEW p \in Process, RecordAndCommit(p)
  PROVE  InitializeStep(p)
<1> DEFINE c == conn[p]
           m == c.build[c.next]
<1>1. /\ GoodConnection(c, disk) /\ WholeDatabase(disk)
      /\ c.at = "migrating" /\ disk' = Recorded(m, c.copy)
  BY DEF ConnectionInv, RecordAndCommit
<1>2. PICK new : new = [c EXCEPT !.at = "validated", !.done = 0, !.copy = EmptyDatabase]
  OBVIOUS
<1>3. SetConnection(p, new)
  BY <1>2 DEF RecordAndCommit
<1>4. /\ c.build \in Builds /\ c.next \in 1..Len(c.build)
      /\ WholeDatabase(c.copy) /\ c.copy.ledger = disk.ledger
      /\ Agrees(c.build, disk.ledger)
  BY <1>1 DEF GoodConnection
<1>5. WholeDatabase(disk') /\ Agrees(c.build, disk'.ledger)
  <2>1. Agrees(c.build, Recorded(m, c.copy).ledger)
    BY <1>4, RecordingAgrees
  <2>2. WholeDatabase(Recorded(m, c.copy))
    BY <1>4, RecordedLedger
  <2> QED
    BY <1>1, <2>1, <2>2
<1>6. new.build = c.build /\ new.next = c.next /\ new.at = "validated"
      /\ DOMAIN new = {"at", "build", "applied", "next", "done", "copy"}
  BY <1>1, <1>2 DEF GoodConnection
<1>7. GoodConnection(new, disk')
  BY <1>1, <1>4, <1>5, <1>6 DEF GoodConnection, Phase
<1> QED
  BY <1>3, <1>4, <1>5, <1>6, <1>7, SetMeansExcept DEF InitializeStep

LEMMA FinishStep ==
  ASSUME ConnectionInv, NEW p \in Process, FinishMigrations(p)
  PROVE  InitializeStep(p)
<1> DEFINE c == conn[p]
<1>1. GoodConnection(c, disk) /\ WholeDatabase(disk) /\ disk' = disk /\ c.at = "validated"
  BY DEF ConnectionInv, FinishMigrations
<1>2. PICK new : new = [c EXCEPT !.at = "ready"]
  OBVIOUS
<1>3. SetConnection(p, new)
  BY <1>2 DEF FinishMigrations
<1>4. GoodConnection(new, disk) /\ new.build = c.build
  BY <1>1, <1>2 DEF GoodConnection, Phase
<1> QED
  BY <1>1, <1>3, <1>4, SetMeansExcept DEF InitializeStep

LEMMA WorkStep ==
  ASSUME ConnectionInv, NEW p \in Process, proc[p] = "starting",
         OpenDatabase(p) \/ Initialize(p)
  PROVE  InitializeStep(p)
<1>1. conn[p].build \in Builds
  BY DEF ConnectionInv
<1> QED
  BY <1>1, OpenStep, ReadLedgerStep, BeginStep, StatementStep, CommitStep, FinishStep
  DEF Initialize

-----------------------------------------------------------------------------
(* The walk through the history.                                            *)

LEMMA StagesOfHistory ==
  /\ \A m, db : History!Migrated(m, db) = Migrated(m, db)
  /\ \A db : History!Layout(db) = Layout(db)
  /\ History!EmptyDatabase = EmptyDatabase
<1>1. \A s, db : History!Effect(s, db) = Effect(s, db)
  BY DEF History!Effect, Effect, History!NewTable, NewTable, History!NewRow, NewRow,
         History!NewColumns, NewColumns, History!NewValue, NewValue, History!Flag, Flag
<1>2. \A script, db : History!Course(script, db) = Course(script, db)
  BY <1>1 DEF History!Course, Course
<1>3. \A m, db : History!Recorded(m, db) = Recorded(m, db)
  BY DEF History!Recorded, Recorded
<1>4. \A m, db : History!Migrated(m, db) = Migrated(m, db)
  BY <1>2, <1>3 DEF History!Migrated, Migrated
<1> QED
  BY <1>4 DEF History!Layout, Layout, History!EmptyDatabase, EmptyDatabase

\* A build that goes with the ledger knows as many migrations.
LEMMA KnowsTheLedger ==
  ASSUME NEW b \in Builds, NEW db, NEW k \in Nat, DOMAIN db.ledger = 1..k,
         Agrees(b, db.ledger)
  PROVE  k \in 0..Len(b)
<1>1. Len(b) \in Nat /\ DOMAIN b = 1..Len(b)
  BY BuildsAssumption
<1>2. k # 0 => k \in DOMAIN b
  BY DEF Agrees
<1> QED
  BY <1>1, <1>2

\* What is still to come is what the ledger does not have.
LEMMA PendingIsTheRest ==
  ASSUME NEW c, c.build \in Builds, NEW k \in 0..Len(c.build), c.next \in Nat,
         1..k = DOMAIN c.applied \cup 1..c.next
  PROVE  Pending(c) = k + 1..Len(c.build)
<1>1. Len(c.build) \in Nat /\ \A i \in 1..Len(c.build) : c.build[i].version = i
  BY BuildsAssumption
<1>2. c.next <= k
  <2>1. c.next # 0 => c.next \in 1..k
    OBVIOUS
  <2> QED
    BY <2>1
<1>3. Pending(c) = {i \in c.next + 1..Len(c.build) : i \notin DOMAIN c.applied}
  BY <1>1 DEF Pending
<1>4. \A i \in c.next + 1..Len(c.build) : i \notin DOMAIN c.applied <=> i \notin 1..k
  BY <1>1
<1> QED
  BY <1>1, <1>2, <1>3, <1>4

LEMMA OpenWalks ==
  ASSUME ConnectionInv, NEW p \in Process, NEW k \in Nat, Walks(conn[p], disk, k),
         OpenDatabase(p)
  PROVE  Walks(conn'[p], disk, k)
<1>1. GoodConnection(conn[p], disk) /\ conn[p].at = "closed"
  BY DEF ConnectionInv, OpenDatabase
<1>2. PICK new : new = [conn[p] EXCEPT !.at = "opened"]
  OBVIOUS
<1>3. conn'[p] = new
  BY <1>2, SetMeansExcept DEF OpenDatabase
<1>4. new.at = "opened" /\ new.next = conn[p].next
  BY <1>1, <1>2 DEF GoodConnection
<1> QED
  BY <1>1, <1>3, <1>4 DEF Walks

LEMMA ReadWalks ==
  ASSUME ConnectionInv, NEW p \in Process, NEW k \in Nat, Walks(conn[p], disk, k),
         DOMAIN disk.ledger = 1..k, ReadLedger(p)
  PROVE  Walks(conn'[p], disk, k)
<1>1. GoodConnection(conn[p], disk) /\ conn[p].at = "opened"
  BY DEF ConnectionInv, ReadLedger
<1>2. PICK new : new = [conn[p] EXCEPT !.at = "validated", !.applied = disk.ledger]
  OBVIOUS
<1>3. conn'[p] = new
  BY <1>2, SetMeansExcept DEF ReadLedger
<1>4. new.at = "validated" /\ new.next = 0 /\ new.applied = disk.ledger
  BY <1>1, <1>2 DEF GoodConnection, Walks
<1> QED
  BY <1>3, <1>4 DEF Walks

LEMMA BeginWalks ==
  ASSUME ConnectionInv, NEW p \in Process, NEW k \in Nat, Walks(conn[p], disk, k),
         DOMAIN disk.ledger = 1..k, BeginMigration(p)
  PROVE  Walks(conn'[p], disk, k)
<1> DEFINE c == conn[p]
<1>1. GoodConnection(c, disk) /\ c.at = "validated" /\ Pending(c) # {}
  BY DEF ConnectionInv, BeginMigration
<1>2. c.build \in Builds /\ Len(c.build) \in Nat /\ c.next \in Nat /\ k \in 0..Len(c.build)
  BY <1>1, BuildLengths, KnowsTheLedger DEF GoodConnection
<1>3. Pending(c) = k + 1..Len(c.build)
  BY <1>1, <1>2, PendingIsTheRest DEF Walks
<1>4. First(Pending(c)) = k + 1
  <2>1. \A i \in k + 1..Len(c.build) : (\A j \in k + 1..Len(c.build) : i <= j) <=> i = k + 1
    BY <1>2
  <2>2. k + 1 \in k + 1..Len(c.build)
    BY <1>1, <1>2, <1>3
  <2> QED
    BY <1>3, <2>1, <2>2 DEF First
<1>5. PICK new : new = [c EXCEPT !.at = "migrating", !.next = k + 1, !.done = 0, !.copy = disk]
  OBVIOUS
<1>6. conn'[p] = new
  BY <1>4, <1>5, SetMeansExcept DEF BeginMigration
<1>7. /\ new.at = "migrating" /\ new.next = k + 1 /\ new.done = 0 /\ new.copy = disk
      /\ new.applied = c.applied /\ new.build = c.build
  BY <1>1, <1>5 DEF GoodConnection
<1>8. Len(Script(new)) \in Nat
  <2>1. k + 1 \in 1..Len(c.build)
    BY <1>1, <1>2, <1>3
  <2>2. Script(new) = c.build[k + 1].script
    BY <1>7 DEF Script
  <2> QED
    BY <1>2, <2>1, <2>2, BuildsAssumption
<1>9. Course(Script(new), disk)[0] = disk
  BY <1>8, CourseSteps
<1> QED
  BY <1>1, <1>6, <1>7, <1>9 DEF Walks

LEMMA StatementWalks ==
  ASSUME ConnectionInv, NEW p \in Process, NEW k \in Nat, Walks(conn[p], disk, k),
         RunStatement(p)
  PROVE  Walks(conn'[p], disk, k)
<1> DEFINE c == conn[p]
<1>1. GoodConnection(c, disk) /\ c.at = "migrating" /\ c.done < Len(Script(c))
  BY DEF ConnectionInv, RunStatement
<1>2. PICK copy : copy = Effect(Script(c)[c.done + 1], c.copy)
  OBVIOUS
<1>3. PICK new : new = [c EXCEPT !.done = c.done + 1, !.copy = copy]
  OBVIOUS
<1>4. conn'[p] = new
  BY <1>2, <1>3, SetMeansExcept DEF RunStatement
<1>5. /\ new.at = "migrating" /\ new.next = c.next /\ new.done = c.done + 1
      /\ new.copy = copy /\ new.applied = c.applied /\ new.build = c.build
      /\ Script(new) = Script(c)
  BY <1>1, <1>3 DEF GoodConnection, Script
<1>6. Len(Script(c)) \in Nat /\ c.done \in 0..Len(Script(c))
  BY <1>1, BuildsAssumption DEF GoodConnection, Script
<1>7. c.done + 1 \in 1..Len(Script(c)) /\ (c.done + 1) - 1 = c.done
  BY <1>1, <1>6
<1>8. copy = Course(Script(c), disk)[c.done + 1]
  BY <1>1, <1>2, <1>6, <1>7, CourseSteps DEF Walks
<1> QED
  BY <1>1, <1>4, <1>5, <1>8 DEF Walks

LEMMA FinishWalks ==
  ASSUME ConnectionInv, NEW p \in Process, NEW k \in Nat, Walks(conn[p], disk, k),
         DOMAIN disk.ledger = 1..k, FinishMigrations(p)
  PROVE  Walks(conn'[p], disk, k)
<1> DEFINE c == conn[p]
<1>1. GoodConnection(c, disk) /\ c.at = "validated" /\ Pending(c) = {}
  BY DEF ConnectionInv, FinishMigrations
<1>2. c.build \in Builds /\ Len(c.build) \in Nat /\ c.next \in Nat /\ k \in 0..Len(c.build)
  BY <1>1, BuildLengths, KnowsTheLedger DEF GoodConnection
<1>3. k = Len(c.build)
  <2>1. Pending(c) = k + 1..Len(c.build)
    BY <1>1, <1>2, PendingIsTheRest DEF Walks
  <2>2. k + 1..Len(c.build) = {}
    BY <1>1, <2>1
  <2>3. k < Len(c.build) => k + 1 \in k + 1..Len(c.build)
    BY <1>2
  <2> QED
    BY <1>2, <2>2, <2>3
<1>4. PICK new : new = [c EXCEPT !.at = "ready"]
  OBVIOUS
<1>5. conn'[p] = new
  BY <1>4, SetMeansExcept DEF FinishMigrations
<1>6. new.at = "ready" /\ new.build = c.build
  BY <1>1, <1>4 DEF GoodConnection
<1> QED
  BY <1>3, <1>5, <1>6 DEF Walks

\* A migration recorded: the next stage of every build that has the same one.
LEMMA MigratedIsNextStage ==
  ASSUME NEW b \in Builds, NEW k \in Nat, k + 1 \in 1..Len(b),
         WholeDatabase(disk), IsStage(disk, k), Agrees(b, disk.ledger)
  PROVE  IsStage(Migrated(b[k + 1], disk), k + 1)
<1> DEFINE m == b[k + 1]
           new == Migrated(m, disk)
<1>1. /\ m.version = k + 1 /\ Len(m.script) \in Nat
      /\ Len(m.script) \in 0..Len(m.script)
  BY BuildsAssumption
<1>3. PICK x : /\ x = Course(m.script, disk)[Len(m.script)]
               /\ WholeDatabase(x) /\ x.ledger = disk.ledger
  <2>1. /\ WholeDatabase(Course(m.script, disk)[Len(m.script)])
        /\ Course(m.script, disk)[Len(m.script)].ledger = disk.ledger
    BY <1>1, CourseKeepsLedger
  <2> QED
    BY <2>1
<1>4. new = Recorded(m, x)
  BY <1>3 DEF Migrated
<1> HIDE DEF new
<1>5. /\ DOMAIN new.ledger = 1..k + 1
      /\ \A v \in 1..k + 1 : new.ledger[v] = IF v = k + 1 THEN m.name ELSE disk.ledger[v]
  <2>1. DOMAIN disk.ledger = 1..k /\ 1..k \cup {k + 1} = 1..k + 1
    BY DEF IsStage
  <2>2. /\ DOMAIN new.ledger = DOMAIN x.ledger \cup {m.version}
        /\ \A v \in DOMAIN new.ledger :
             new.ledger[v] = IF v = m.version THEN m.name ELSE x.ledger[v]
    BY <1>3, <1>4, RecordedLedger
  <2> QED
    BY <1>1, <1>3, <2>1, <2>2
<1>6. ASSUME NEW e \in Builds, Agrees(e, new.ledger)
      PROVE  WholeDatabase(Stages(e)[k + 1]) /\ SameLayout(new, Stages(e)[k + 1])
  <2>1. Agrees(e, disk.ledger)
    BY <1>5, <1>6 DEF Agrees, IsStage
  <2>2. WholeDatabase(Stages(e)[k]) /\ SameLayout(disk, Stages(e)[k])
    BY <2>1 DEF IsStage
  <2>3. k + 1 \in DOMAIN e /\ e[k + 1].name = m.name /\ k + 1 \in DOMAIN b
    BY <1>5, <1>6, BuildsAssumption DEF Agrees
  <2>4. e[k + 1] = m
    BY <2>3, MigrationsAreFixed
  <2>5. Len(e) \in Nat /\ k + 1 \in 1..Len(e) /\ (k + 1) - 1 = k
    BY <2>3, BuildsAssumption
  <2>6. Stages(e)[k + 1] = Migrated(m, Stages(e)[k])
    BY <2>4, <2>5, StagesSteps
  <2> QED
    BY <1>1, <2>2, <2>6, MigratedKeepsSameness DEF new
<1> QED
  BY <1>5, <1>6 DEF IsStage, new

LEMMA CommitWalks ==
  ASSUME ConnectionInv, NEW p \in Process, NEW k \in Nat, StandsAt(k),
         RecordAndCommit(p)
  PROVE  /\ Walks(conn'[p], disk', k + 1) /\ IsStage(disk', k + 1)
         /\ Migrates(conn[p].build)
<1> DEFINE c == conn[p]
           b == c.build
<1>1. /\ GoodConnection(c, disk) /\ WholeDatabase(disk) /\ c.at = "migrating"
      /\ c.done = Len(Script(c)) /\ disk' = Recorded(b[c.next], c.copy)
      /\ Walks(c, disk, k) /\ IsStage(disk, k)
  BY DEF ConnectionInv, RecordAndCommit, StandsAt
<1>2. /\ b \in Builds /\ k + 1 \in 1..Len(b) /\ c.next = k + 1
      /\ Agrees(b, disk.ledger)
  BY <1>1 DEF GoodConnection, Walks
<1>3. disk' = Migrated(b[k + 1], disk)
  BY <1>1, <1>2 DEF Walks, Script, Migrated
<1>4. IsStage(disk', k + 1)
  BY <1>1, <1>2, <1>3, MigratedIsNextStage
<1>5. Migrates(b)
  BY <1>1, <1>2, <1>3 DEF Migrates
<1>6. PICK new : new = [c EXCEPT !.at = "validated", !.done = 0, !.copy = EmptyDatabase]
  OBVIOUS
<1>7. conn'[p] = new
  BY <1>6, SetMeansExcept DEF RecordAndCommit
<1>8. new.at = "validated" /\ new.next = c.next /\ new.applied = c.applied
  BY <1>1, <1>6 DEF GoodConnection
<1>9. 1..k + 1 = DOMAIN c.applied \cup 1..k + 1
  BY <1>1 DEF Walks
<1>10. Walks(conn'[p], disk', k + 1)
  BY <1>2, <1>7, <1>8, <1>9 DEF Walks
<1> QED
  BY <1>4, <1>5, <1>10

LEMMA WorkWalks ==
  ASSUME ConnectionInv, HistoryInv, NEW p \in Process, OpenDatabase(p) \/ Initialize(p)
  PROVE  /\ \E k \in Nat : IsStage(disk', k) /\ Walks(conn'[p], disk', k)
         /\ disk' = disk \/ Migrates(conn[p].build)
<1>1. PICK k \in Nat : StandsAt(k)
  BY DEF HistoryInv
<1>2. Walks(conn[p], disk, k) /\ IsStage(disk, k) /\ DOMAIN disk.ledger = 1..k
  BY <1>1 DEF StandsAt, IsStage
<1>3. CASE RecordAndCommit(p)
  BY <1>1, <1>3, CommitWalks
<1>4. CASE OpenDatabase(p) \/ ReadLedger(p) \/ BeginMigration(p) \/ RunStatement(p)
             \/ FinishMigrations(p)
  <2>1. disk' = disk
    BY <1>4 DEF OpenDatabase, ReadLedger, BeginMigration, RunStatement, FinishMigrations
  <2>2. Walks(conn'[p], disk, k)
    BY <1>2, <1>4, OpenWalks, ReadWalks, BeginWalks, StatementWalks, FinishWalks
  <2> QED
    BY <1>2, <2>1, <2>2
<1> QED
  BY <1>3, <1>4 DEF Initialize

-----------------------------------------------------------------------------
(* Steps of processes.                                                     *)

LEMMA WorkKeeps ==
  ASSUME ProgramInv, NEW p \in Process, Open(p) \/ Prepare(p)
  PROVE  ProgramInv' /\ SchemaStep
<1>1. /\ proc[p] = "starting" /\ (OpenDatabase(p) \/ Initialize(p))
      /\ UNCHANGED <<proc, lock, unit, launcher>>
  BY DEF Open, Prepare, system
<1>2. ConnectionInv /\ OwnerHasLock /\ SystemTypes
  BY DEF ProgramInv
<1>3. InitializeStep(p)
  BY <1>1, <1>2, WorkStep
<1>4. \A q \in Process \ {p} : conn[q].at = "closed" /\ conn'[q] = conn[q]
  BY <1>1, <1>2, <1>3, OwnersAreOne DEF InitializeStep, ConnectionInv
<1>5. \A q \in Process : GoodConnection(conn'[q], disk')
  <2> SUFFICES ASSUME NEW q \in Process PROVE GoodConnection(conn'[q], disk')
    OBVIOUS
  <2>1. CASE q = p
    BY <1>3, <2>1 DEF InitializeStep
  <2>2. CASE q # p
    <3>1. GoodConnection(conn[q], disk) /\ conn[q].at = "closed" /\ conn'[q] = conn[q]
      BY <1>2, <1>4, <2>2 DEF ConnectionInv
    <3> QED
      BY <3>1, ClosedFitsAll
  <2> QED
    BY <2>1, <2>2
<1>6. conn' = [q \in Process |-> conn'[q]]
  BY <1>2, <1>3 DEF InitializeStep, ConnectionInv
<1>7. ConnectionInv'
  BY <1>1, <1>2, <1>3, <1>4, <1>5, <1>6 DEF InitializeStep, ConnectionInv
<1>8. HistoryInv /\ (disk' = disk \/ Migrates(conn[p].build))
  BY <1>1, <1>2, WorkWalks DEF ProgramInv
<1>9. HistoryInv'
  <2>1. PICK k \in Nat : IsStage(disk', k) /\ Walks(conn'[p], disk', k)
    BY <1>1, <1>2, <1>8, WorkWalks
  <2>2. \A q \in Process \ {p} : conn[q].next = 0
    BY <1>4, <1>8 DEF HistoryInv, StandsAt, Walks
  <2>3. \A q \in Process : Walks(conn'[q], disk', k)
    BY <1>4, <2>1, <2>2 DEF Walks
  <2> QED
    BY <2>1, <2>3 DEF HistoryInv, StandsAt
<1> QED
  BY <1>1, <1>2, <1>7, <1>8, <1>9 DEF ProgramInv, SystemTypes, OwnerHasLock, SchemaStep

\* A process that ends, or is started: its connection is closed, and the lock
\* may become free.
LEMMA ClosingKeeps ==
  ASSUME ProgramInv, NEW p \in Process, NEW c, SetConnection(p, c), UNCHANGED disk,
         GoodConnection(c, disk), c.at = "closed", c.next = 0,
         NEW state \in {"down", "launched"}, state = "launched" => c.build \in Builds,
         proc' = [proc EXCEPT ![p] = state],
         lock' = lock \/ (lock = p /\ lock' = NoProcess),
         unit' \in UnitState,
         launcher' \in [Launcher -> LauncherState]
  PROVE  ProgramInv' /\ SchemaStep
<1>1. ConnectionInv /\ OwnerHasLock /\ SystemTypes
  BY DEF ProgramInv
<1>2. /\ conn' = [q \in Process |-> conn'[q]] /\ conn'[p] = c
      /\ \A q \in Process \ {p} : conn'[q] = conn[q]
  BY <1>1 DEF SetConnection, ConnectionInv
<1>3. /\ proc' \in [Process -> ProcessState] /\ proc'[p] = state
      /\ \A q \in Process \ {p} : proc'[q] = proc[q]
  BY <1>1 DEF SystemTypes, ProcessState
<1>4. ConnectionInv'
  BY <1>1, <1>2, <1>3 DEF ConnectionInv
<1>5. OwnerHasLock'
  BY <1>1, <1>3, HandoffAssumption DEF OwnerHasLock
<1>6. SystemTypes'
  BY <1>1, <1>3 DEF SystemTypes
<1>7. HistoryInv'
  <2>1. PICK k \in Nat : StandsAt(k)
    BY DEF ProgramInv, HistoryInv
  <2>2. \A q \in Process : Walks(conn'[q], disk, k)
    BY <1>2, <2>1 DEF StandsAt, Walks
  <2> QED
    BY <2>1, <2>2 DEF HistoryInv, StandsAt
<1> QED
  BY <1>4, <1>5, <1>6, <1>7 DEF ProgramInv, SchemaStep

LEMMA DyingKeeps ==
  ASSUME ProgramInv, NEW p \in Process, Dies(p),
         lock' = lock \/ (lock = p /\ lock' = NoProcess),
         unit' \in UnitState,
         launcher' \in [Launcher -> LauncherState]
  PROVE  ProgramInv' /\ SchemaStep
<1>1. GoodConnection(Closed, disk) /\ Closed.at = "closed" /\ Closed.next = 0
  BY ClosedIsGood
<1>2. proc' = [proc EXCEPT ![p] = "down"] /\ SetConnection(p, Closed) /\ UNCHANGED disk
  BY DEF Dies, Close
<1>3. PICK c : c = Closed
  OBVIOUS
<1> QED
  BY <1>1, <1>2, <1>3, ClosingKeeps

LEMMA StartingKeeps ==
  ASSUME ProgramInv, CounterTypes, NEW p \in Process, Start(p), UNCHANGED lock,
         unit' \in UnitState,
         launcher' \in [Launcher -> LauncherState]
  PROVE  ProgramInv' /\ SchemaStep
<1>1. PICK c : c = [Closed EXCEPT !.build = installed]
  OBVIOUS
<1>2. GoodConnection(c, disk) /\ c.at = "closed" /\ c.next = 0 /\ c.build \in Builds
  BY <1>1, ClosedIsGood DEF CounterTypes
<1>3. proc' = [proc EXCEPT ![p] = "launched"] /\ SetConnection(p, c) /\ UNCHANGED disk
  BY <1>1 DEF Start
<1> QED
  BY <1>2, <1>3, ClosingKeeps

LEMMA ParentTypes ==
  ASSUME SystemTypes, NEW p \in Process, NEW after \in {AfterFailure, AfterCleanEnd},
         ParentNotices(p, after)
  PROVE  /\ unit' \in UnitState
         /\ launcher' \in [Launcher -> LauncherState]
<1>1. unit' \in UnitState
  BY DEF SystemTypes, ParentNotices, UnitState, AfterFailure, AfterCleanEnd
<1>2. launcher' \in [Launcher -> LauncherState]
  BY DEF SystemTypes, ParentNotices, LauncherState
<1> QED
  BY <1>1, <1>2

LEMMA ExitKeeps ==
  ASSUME ProgramInv, NEW p \in Process, Exits(p) PROVE ProgramInv' /\ SchemaStep
<1>1. /\ Dies(p) /\ ParentNotices(p, AfterFailure)
      /\ lock' = lock \/ (lock = p /\ lock' = NoProcess)
  BY DEF Exits
<1>2. SystemTypes
  BY DEF ProgramInv
<1> QED
  BY <1>1, <1>2, ParentTypes, DyingKeeps

\* Another state of a process, with its connection as it was.
LEMMA AdvanceKeeps ==
  ASSUME ProgramInv, NEW p \in Process, UNCHANGED <<disk, conn, unit, launcher>>,
         \/ /\ proc[p] = "launched" /\ ~LockIsHeld
            /\ proc' = [proc EXCEPT ![p] = "starting"] /\ lock' = p
         \/ /\ proc[p] = "starting" /\ conn[p].at = "ready"
            /\ proc' = [proc EXCEPT ![p] = "running"] /\ lock' = lock
  PROVE  ProgramInv' /\ SchemaStep
<1>1. ConnectionInv /\ OwnerHasLock /\ SystemTypes
  BY DEF ProgramInv
<1>2. proc' \in [Process -> ProcessState] /\ proc'[p] \in {"starting", "running"}
      /\ \A q \in Process \ {p} : proc'[q] = proc[q]
  BY <1>1 DEF SystemTypes, ProcessState
<1>3. ConnectionInv'
  BY <1>1, <1>2 DEF ConnectionInv, SystemTypes
<1>4. OwnerHasLock'
  <2>1. ~LockIsHeld => \A q \in Process : proc[q] \notin {"starting", "running"}
    BY <1>1, HandoffAssumption DEF OwnerHasLock, LockIsHeld
  <2>2. proc[p] = "starting" => lock = p
    BY <1>1 DEF OwnerHasLock
  <2> QED
    BY <1>1, <1>2, <2>1, <2>2 DEF OwnerHasLock
<1>5. SystemTypes'
  BY <1>1, <1>2 DEF SystemTypes
<1>6. HistoryInv'
  BY DEF ProgramInv, HistoryInv, StandsAt
<1> QED
  BY <1>3, <1>4, <1>5, <1>6 DEF ProgramInv, SchemaStep

LEMMA MainKeeps ==
  ASSUME ProgramInv, NEW p \in Process, MainStep(p) \/ StartFails(p)
  PROVE  ProgramInv' /\ SchemaStep
<1>1. CASE TryLock(p)
  <2>1. CASE MayTakeLock
    BY <1>1, <2>1, AdvanceKeeps DEF TryLock, MayTakeLock
  <2>2. CASE ~MayTakeLock
    BY <1>1, <2>2, ExitKeeps DEF TryLock
  <2> QED
    BY <2>1, <2>2
<1>2. CASE Open(p) \/ Prepare(p)
  BY <1>2, WorkKeeps
<1>3. CASE StartRuntime(p)
  BY <1>3, AdvanceKeeps DEF StartRuntime
<1>4. CASE GiveUp(p) \/ StartFails(p)
  BY <1>4, ExitKeeps DEF GiveUp, StartFails
<1> QED
  BY <1>1, <1>2, <1>3, <1>4 DEF MainStep

LEMMA KilledKeeps ==
  ASSUME ProgramInv, NEW p \in Process, Killed(p) PROVE ProgramInv' /\ SchemaStep
<1>1. Dies(p) /\ lock' = lock /\ SystemTypes
  BY DEF Killed, ProgramInv
<1>2. PICK after \in {AfterFailure, AfterCleanEnd} : ParentNotices(p, after)
  BY DEF Killed
<1> QED
  BY <1>1, <1>2, ParentTypes, DyingKeeps

-----------------------------------------------------------------------------
(* Steps of the launchers, of systemd and of the running program.          *)

LEMMA LauncherOnly ==
  ASSUME ProgramInv, UNCHANGED <<disk, conn, proc, lock, unit>>,
         launcher' \in [Launcher -> LauncherState]
  PROVE  ProgramInv' /\ SchemaStep
<1>1. HistoryInv'
  BY DEF ProgramInv, HistoryInv, StandsAt
<1> QED
  BY <1>1 DEF ProgramInv, SystemTypes, ConnectionInv, OwnerHasLock, SchemaStep

LEMMA GoingIsTyped ==
  ASSUME SystemTypes, NEW l \in Launcher,
         NEW at \in {"idle", "stopping", "trap", "window", "cleanup", "done", "killed"},
         Goes(l, at)
  PROVE  launcher' \in [Launcher -> LauncherState]
  BY DEF SystemTypes, Goes, LauncherState

LEMMA LauncherKeeps ==
  ASSUME IInv, NEW l \in Launcher, LauncherStep(l) \/ LauncherKilled(l)
  PROVE  ProgramInv' /\ SchemaStep
<1>0. /\ ProgramInv /\ CounterTypes /\ SystemTypes
      /\ l \in Process /\ Headless \in Process
      /\ unit \in UnitState
  BY HandoffAssumption DEF IInv, ProgramInv, SystemTypes
<1>1. CASE IsActive(l)
  <2>1. launcher' \in [Launcher -> LauncherState]
    BY <1>0, <1>1 DEF IsActive, SystemTypes, LauncherState
  <2> QED
    BY <1>0, <1>1, <2>1, LauncherOnly DEF IsActive
<1>2. CASE StopUnit(l)
  BY <1>0, <1>2, GoingIsTyped, DyingKeeps DEF StopUnit, UnitState
<1>3. CASE ShowWindow(l)
  BY <1>0, <1>3, GoingIsTyped, StartingKeeps DEF ShowWindow
<1>4. CASE Cleanup(l)
  <2>1. launcher' \in [Launcher -> LauncherState] /\ lock' = lock
    BY <1>0, <1>4, GoingIsTyped DEF Cleanup
  <2>2. CASE launcher[l].wasActive /\ unit # "active"
    BY <1>0, <1>4, <2>1, <2>2, StartingKeeps DEF Cleanup, UnitState
  <2>3. CASE ~(launcher[l].wasActive /\ unit # "active")
    BY <1>0, <1>4, <2>1, <2>3, LauncherOnly DEF Cleanup
  <2> QED
    BY <2>2, <2>3
<1>5. CASE LauncherKilled(l)
  BY <1>0, <1>5, GoingIsTyped, LauncherOnly DEF LauncherKilled
<1> QED
  BY <1>1, <1>2, <1>3, <1>4, <1>5 DEF LauncherStep

LEMMA RestartKeeps == ASSUME IInv, RestartUnit PROVE ProgramInv' /\ SchemaStep
<1>1. ProgramInv /\ CounterTypes /\ SystemTypes /\ Headless \in Process
  BY HandoffAssumption DEF IInv, ProgramInv
<1>2. /\ Start(Headless) /\ UNCHANGED lock
      /\ unit' \in UnitState
      /\ launcher' \in [Launcher -> LauncherState]
  BY <1>1 DEF RestartUnit, SystemTypes, UnitState
<1> QED
  BY <1>1, <1>2, StartingKeeps

\* A row stored by the running program changes no layout.
LEMMA StoredRow ==
  ASSUME WholeDatabase(disk), NEW p \in Process, Store(p)
  PROVE  /\ \E k \in Key : \E g \in RowsOf(disk.tables["games"].columns),
                              d \in RowsOf(disk.tables["session_documents"].columns) :
              /\ disk'.tables = RowStored(disk.tables, k, g, d)
              /\ saved' = WithRow(saved, k, [artwork |-> HasArtwork(g), notes |-> Notes(d)])
         /\ WholeDatabase(disk') /\ SameLayout(disk, disk')
<1>1. PICK k \in Key : \E g \in RowsOf(disk.tables["games"].columns),
                          d \in RowsOf(disk.tables["session_documents"].columns) :
             /\ disk' = [disk EXCEPT !.tables = RowStored(@, k, g, d)]
             /\ saved' = WithRow(saved, k, [artwork |-> HasArtwork(g), notes |-> Notes(d)])
  BY DEF Store
<1>2. PICK g \in RowsOf(disk.tables["games"].columns),
           d \in RowsOf(disk.tables["session_documents"].columns) :
             /\ disk' = [disk EXCEPT !.tables = RowStored(@, k, g, d)]
             /\ saved' = WithRow(saved, k, [artwork |-> HasArtwork(g), notes |-> Notes(d)])
  BY <1>1
<1>3. PICK tables : tables = RowStored(disk.tables, k, g, d)
  OBVIOUS
<1>4. /\ DOMAIN tables = DOMAIN disk.tables
      /\ \A t \in DOMAIN disk.tables :
           DOMAIN tables[t] = {"columns", "rows"} /\ tables[t].columns = disk.tables[t].columns
  BY <1>3 DEF RowStored, WholeDatabase
<1>5. /\ disk'.ledger = disk.ledger /\ disk'.indexes = disk.indexes /\ disk'.tables = tables
      /\ DOMAIN disk' = {"ledger", "tables", "indexes"}
  BY <1>2, <1>3 DEF WholeDatabase
<1>6. WholeDatabase(disk') /\ SameLayout(disk, disk')
  BY <1>4, <1>5 DEF WholeDatabase, SameLayout
<1> QED
  BY <1>2, <1>3, <1>5, <1>6

LEMMA StoreKeeps ==
  ASSUME ProgramInv, NEW p \in Process, Store(p) PROVE ProgramInv' /\ SchemaStep
<1>1. ConnectionInv /\ WholeDatabase(disk)
  BY DEF ProgramInv, ConnectionInv
<1>2. WholeDatabase(disk') /\ SameLayout(disk, disk') /\ disk'.ledger = disk.ledger
  BY <1>1, StoredRow DEF SameLayout
<1>6. UNCHANGED <<conn, proc, lock, unit, launcher>>
  BY DEF Store, system
<1>7. \A q \in Process : GoodConnection(conn[q], disk')
  BY <1>1, <1>2 DEF ConnectionInv, GoodConnection
<1>8. ConnectionInv'
  BY <1>1, <1>2, <1>6, <1>7 DEF ConnectionInv
<1>9. HistoryInv'
  <2>1. PICK k \in Nat : StandsAt(k)
    BY DEF ProgramInv, HistoryInv
  <2>3. IsStage(disk', k)
    BY <1>2, <2>1 DEF StandsAt, IsStage, SameLayout
  <2>4. \A q \in Process : conn[q].at # "migrating"
    BY <1>1, OwnersAreOne DEF ProgramInv, ConnectionInv, Store
  <2>5. \A q \in Process : Walks(conn[q], disk', k)
    BY <2>1, <2>4 DEF StandsAt, Walks
  <2> QED
    BY <1>6, <2>3, <2>5 DEF HistoryInv, StandsAt
<1> QED
  BY <1>6, <1>8, <1>9 DEF ProgramInv, SystemTypes, OwnerHasLock, SchemaStep

-----------------------------------------------------------------------------
LEMMA InitIsGood == Init => IInv
<1> SUFFICES ASSUME Init PROVE IInv
  OBVIOUS
<1>1. installed \in Builds /\ Headless \in Process
  BY HandoffAssumption DEF Init
<1>2. /\ GoodConnection([Closed EXCEPT !.build = installed], disk) /\ GoodConnection(Closed, disk)
      /\ [Closed EXCEPT !.build = installed].at = "closed" /\ Closed.at = "closed"
      /\ [Closed EXCEPT !.build = installed].build = installed
      /\ [Closed EXCEPT !.build = installed].next = 0 /\ Closed.next = 0
  BY <1>1, ClosedIsGood
<1>3. /\ proc = [p \in Process |-> IF p = Headless THEN "launched" ELSE "down"]
      /\ conn = [p \in Process |-> IF p = Headless THEN [Closed EXCEPT !.build = installed]
                                                  ELSE Closed]
  BY DEF Init
<1>4. \A p \in Process :
        /\ GoodConnection(conn[p], disk) /\ conn[p].at = "closed" /\ conn[p].next = 0
        /\ proc[p] \in {"launched", "down"}
        /\ proc[p] # "down" => conn[p].build = installed
  BY <1>2, <1>3
<1>5. WholeDatabase(disk)
  BY DEF Init, EmptyDatabase, WholeDatabase
<1>6. ConnectionInv
  BY <1>1, <1>3, <1>4, <1>5 DEF ConnectionInv
<1>7. SystemTypes /\ CounterTypes
  BY <1>1, HandoffAssumption
  DEF Init, SystemTypes, CounterTypes, ProcessState, LauncherState, UnitState
<1>8. OwnerHasLock
  BY <1>4 DEF OwnerHasLock
<1>9. HistoryInv
  <2>1. disk.ledger = <<>> /\ DOMAIN disk.ledger = 1..0 /\ disk = EmptyDatabase
    BY DEF Init, EmptyDatabase
  <2>2. WholeDatabase(EmptyDatabase) /\ SameLayout(EmptyDatabase, EmptyDatabase)
    BY DEF EmptyDatabase, WholeDatabase, SameLayout
  <2>3. \A b \in Builds : Stages(b)[0] = EmptyDatabase
    BY BuildsAssumption, StagesSteps
  <2>4. IsStage(disk, 0)
    BY <2>1, <2>2, <2>3 DEF IsStage
  <2>5. \A p \in Process : Walks(conn[p], disk, 0)
    BY <1>4 DEF Walks
  <2> QED
    BY <2>4, <2>5 DEF HistoryInv, StandsAt
<1> QED
  BY <1>6, <1>7, <1>8, <1>9 DEF IInv, ProgramInv

LEMMA NextKeeps == IInv /\ [Next]_vars => IInv' /\ (SchemaStep \/ UNCHANGED vars)
<1> SUFFICES ASSUME IInv, [Next]_vars PROVE IInv' /\ (SchemaStep \/ UNCHANGED vars)
  OBVIOUS
<1>0. ProgramInv /\ CounterTypes /\ MaxInstalls \in Nat /\ MaxFaults \in Nat
  BY HandoffAssumption DEF IInv
<1>1. CASE Step /\ UNCHANGED <<installed, installs, faults, saved>>
  <2>1. ProgramInv' /\ SchemaStep
    <3>1. CASE \E p \in Process : MainStep(p)
      BY <1>0, <3>1, MainKeeps
    <3>2. CASE \E l \in Launcher : LauncherStep(l)
      BY <3>2, LauncherKeeps
    <3>3. CASE \E l \in Launcher : Quit(l)
      BY <1>0, <3>3, ExitKeeps, HandoffAssumption DEF Quit
    <3>4. CASE RestartUnit
      BY <3>4, RestartKeeps
    <3> QED
      BY <1>1, <3>1, <3>2, <3>3, <3>4 DEF Step
  <2>2. CounterTypes'
    BY <1>0, <1>1 DEF CounterTypes
  <2> QED
    BY <2>1, <2>2 DEF IInv
<1>2. CASE Fault /\ UNCHANGED <<installed, installs, saved>>
  <2>1. ProgramInv' /\ SchemaStep
    BY <1>0, <1>2, MainKeeps, KilledKeeps, LauncherKeeps DEF Fault
  <2>2. CounterTypes'
    BY <1>0, <1>2 DEF CounterTypes, Fault
  <2> QED
    BY <2>1, <2>2 DEF IInv
<1>3. CASE \E p \in Process : Store(p)
  <2>1. ProgramInv' /\ SchemaStep
    BY <1>0, <1>3, StoreKeeps
  <2>2. CounterTypes'
    BY <1>0, <1>3 DEF CounterTypes, Store
  <2> QED
    BY <2>1, <2>2 DEF IInv
<1>4. CASE \E b \in Builds : Install(b)
  <2>1. UNCHANGED <<disk, conn, proc, lock, unit, launcher>>
    BY <1>4 DEF Install, system
  <2>2. ProgramInv' /\ SchemaStep
    BY <1>0, <2>1, LauncherOnly DEF ProgramInv, SystemTypes
  <2>3. CounterTypes'
    BY <1>0, <1>4 DEF CounterTypes, Install
  <2> QED
    BY <2>2, <2>3 DEF IInv
<1>5. CASE UNCHANGED vars
  <2>1. UNCHANGED <<disk, conn, proc, lock, unit, launcher, installed, installs, faults>>
    BY <1>5 DEF vars, system
  <2>2. ProgramInv'
    BY <1>0, <2>1, LauncherOnly DEF ProgramInv, SystemTypes
  <2> QED
    BY <1>0, <1>5, <2>1, <2>2 DEF IInv, CounterTypes
<1> QED
  BY <1>1, <1>2, <1>3, <1>4, <1>5 DEF Next

LEMMA Invariant == Spec => []IInv
  BY InitIsGood, NextKeeps, PTL DEF Spec

(* Types, and walks through the migrations that stay inside the list and   *)
(* inside the script.                                                      *)
THEOREM TypeCorrect == Spec => []TypeOK
<1>1. IInv => TypeOK
  BY DEF IInv, ProgramInv, SystemTypes, CounterTypes, ConnectionInv, GoodConnection, TypeOK,
         ProcessState, LauncherState, UnitState
<1> QED
  BY <1>1, Invariant, PTL

(* Two processes never have the database open, whatever is killed, started *)
(* again or left behind.                                                   *)
THEOREM OneProcessOwnsTheDatabase == Spec => []OneOwner
<1>1. IInv => OneOwner
  BY DEF IInv, ProgramInv, ConnectionInv, OwnerHasLock, OneOwner
<1> QED
  BY <1>1, Invariant, PTL

-----------------------------------------------------------------------------
(* What the steps of the file mean.                                         *)

LEMMA SchemaStepIsKnown ==
  ASSUME IInv, SchemaStep, Layout(disk') # Layout(disk)
  PROVE  \E p \in Process : proc[p] = "starting" /\ Agrees(conn[p].build, disk.ledger)
<1>1. WholeDatabase(disk)
  BY DEF IInv, ProgramInv, ConnectionInv
<1>2. ASSUME NEW p \in Process, Store(p) PROVE FALSE
  BY <1>1, <1>2, StoredRow, LayoutIsSame
<1> QED
  BY <1>2 DEF SchemaStep, Migrates

LEMMA SchemaStepIsMapped ==
  ASSUME IInv, SchemaStep
  PROVE  History!Next \/ disk' = disk
<1>1. WholeDatabase(disk)
  BY DEF IInv, ProgramInv, ConnectionInv
<1>2. ASSUME NEW p \in Process, Store(p) PROVE History!Store
  <2>1. Layout(disk) = Layout(disk')
    BY <1>1, <1>2, StoredRow, LayoutIsSame
  <2> QED
    BY <2>1, StagesOfHistory DEF History!Store
<1>3. ASSUME NEW b, Migrates(b) PROVE History!Migrate
  <2>1. PICK k \in Nat : /\ IsStage(disk, k) /\ k + 1 \in 1..Len(b)
                         /\ disk' = Migrated(b[k + 1], disk)
    BY <1>3 DEF Migrates
  <2>2. b \in Builds /\ Agrees(b, disk.ledger)
    BY <1>3 DEF Migrates
  <2>3. DOMAIN disk.ledger = 1..k /\ (k + 1) - 1 = k /\ k \in 0..Len(b)
    BY <2>1, <2>2, KnowsTheLedger DEF IsStage
  <2>4. \A i \in 1..k : b[i].version = i
    BY <2>2, <2>3, BuildsAssumption
  <2>5. {b[i].version : i \in 1..k} = 1..k
    BY <2>4
  <2>6. History!Lists(disk, b, (k + 1) - 1)
    BY <2>2, <2>3, <2>4, <2>5 DEF Agrees, History!Lists
  <2>7. disk' = History!Migrated(b[k + 1], disk)
    BY <2>1, StagesOfHistory
  <2> QED
    BY <2>1, <2>2, <2>6, <2>7 DEF History!Migrate
<1> QED
  BY <1>2, <1>3 DEF SchemaStep, History!Next

(* The layout changes only under a build that knows the whole ledger.      *)
THEOREM ForeignSchemasAreLeftAlone == Spec => ForeignUntouched
<1> DEFINE P == Layout(disk') # Layout(disk) =>
                  \E p \in Process : /\ proc[p] = "starting"
                                     /\ Agrees(conn[p].build, disk.ledger)
<1>1. IInv /\ [Next]_vars => [P]_vars
  BY NextKeeps, SchemaStepIsKnown
<1> QED
  BY <1>1, Invariant, PTL DEF Spec, ForeignUntouched

(* Whatever builds, processes, failures and kills there are, the file       *)
(* follows SchemaHistory: whole migrations, one at a time, in their order.  *)
THEOREM MigrationsComeWhole == Spec => ImplementsSchemaHistory
<1>1. Init => History!Init
  BY StagesOfHistory DEF Init, History!Init
<1>2. IInv /\ [Next]_vars => [History!Next]_disk
  BY NextKeeps, SchemaStepIsMapped DEF vars
<1> QED
  BY <1>1, <1>2, Invariant, PTL DEF Spec, ImplementsSchemaHistory, History!Spec

(* A running program works on the layout that the migrations of its own     *)
(* build make of a new database, whichever builds brought the file there.   *)
THEOREM RunningOnItsSchema == Spec => []RunsOnItsSchema
<1>1. ASSUME IInv, NEW p \in Process, proc[p] = "running"
      PROVE  Layout(disk) = Layout(BuiltBy(conn[p].build))
  <2>1. PICK k \in Nat : StandsAt(k)
    BY <1>1 DEF IInv, ProgramInv, HistoryInv
  <2>2. /\ conn[p].at = "ready" /\ conn[p].build \in Builds
        /\ Agrees(conn[p].build, disk.ledger)
    BY <1>1 DEF IInv, ProgramInv, ConnectionInv, GoodConnection
  <2>3. k = Len(conn[p].build)
    BY <2>1, <2>2 DEF StandsAt, Walks
  <2>4. SameLayout(disk, Stages(conn[p].build)[k])
    BY <2>1, <2>2 DEF StandsAt, IsStage
  <2> QED
    BY <2>3, <2>4, LayoutIsSame DEF BuiltBy
<1>2. IInv => RunsOnItsSchema
  BY <1>1 DEF RunsOnItsSchema
<1> QED
  BY <1>2, Invariant, PTL

-----------------------------------------------------------------------------
(***************************************************************************)
(* The rows.  For the migrations the program has released, each stage is    *)
(* written out: its tables and columns, rows that fit them, and that each   *)
(* row says what was stored.  A migration is followed statement by          *)
(* statement; only when it is complete do its rows say the same again.      *)
(***************************************************************************)

\* Every build has the first of the migrations released so far.
ReleasedBuilds ==
  \A b \in Builds : /\ Len(b) \in 1..4
                    /\ \A i \in 1..Len(b) : b[i] = knownMigrations[i]

GameColumns(k) == IF k = 4 THEN {"has_artwork"} ELSE {"artwork_path"}

DocumentColumns(k) == IF k = 1 THEN {"html_content"}
                      ELSE IF k = 2 THEN {"content", "format"} ELSE {"content"}

Tables == {"games", "sessions", "session_documents"}

GamesFit(table, sv, k) ==
  /\ table.columns = GameColumns(k)
  /\ DOMAIN table.rows = DOMAIN sv
  /\ \A i \in DOMAIN sv : /\ table.rows[i] \in RowsOf(GameColumns(k))
                          /\ HasArtwork(table.rows[i]) <=> sv[i].artwork

DocumentsFit(table, sv, k) ==
  /\ table.columns = DocumentColumns(k)
  /\ DOMAIN table.rows = DOMAIN sv
  /\ \A i \in DOMAIN sv : /\ table.rows[i] \in RowsOf(DocumentColumns(k))
                          /\ Notes(table.rows[i]) = sv[i].notes

RowsFit(db, sv, k) ==
  /\ k = 0 => DOMAIN db.tables = {} /\ DOMAIN sv = {}
  /\ k # 0 => /\ DOMAIN db.tables = Tables
              /\ GamesFit(db.tables["games"], sv, k)
              /\ DocumentsFit(db.tables["session_documents"], sv, k)

RowsInv == \E k \in 0..4 : DOMAIN disk.ledger = 1..k /\ RowsFit(disk, saved, k)

LEMMA RowMembers ==
  ASSUME NEW cs, NEW r
  PROVE  r \in RowsOf(cs) <=> r = [c \in cs |-> r[c]] /\ \A c \in cs : r[c] \in Value(c)
<1>1. \A c \in cs : \A v \in Value(c) : v \in UNION {Value(x) : x \in cs}
  OBVIOUS
<1>2. ASSUME r \in RowsOf(cs)
      PROVE  r = [c \in cs |-> r[c]] /\ \A c \in cs : r[c] \in Value(c)
  BY <1>2 DEF RowsOf
<1>3. ASSUME r = [c \in cs |-> r[c]], \A c \in cs : r[c] \in Value(c)
      PROVE  r \in RowsOf(cs)
  <2>1. \A c \in cs : r[c] \in UNION {Value(x) : x \in cs}
    BY <1>1, <1>3
  <2>2. r \in [cs -> UNION {Value(x) : x \in cs}]
    BY <1>3, <2>1
  <2> QED
    BY <1>3, <2>2 DEF RowsOf
<1> QED
  BY <1>2, <1>3

\* A statement that alters a table: that table is new, the others are not.
LEMMA AlteredTable ==
  ASSUME NEW s, NEW db, WholeDatabase(db), s.op \notin {"create", "index"},
         s.table \in DOMAIN db.tables
  PROVE  /\ WholeDatabase(Effect(s, db))
         /\ DOMAIN Effect(s, db).tables = DOMAIN db.tables
         /\ \A t \in DOMAIN db.tables :
              Effect(s, db).tables[t] = IF t = s.table THEN NewTable(s, db.tables[s.table])
                                                       ELSE db.tables[t]
<1>1. PICK table : table = NewTable(s, db.tables[s.table])
  OBVIOUS
<1>2. Effect(s, db) = [db EXCEPT !.tables[s.table] = table]
  BY <1>1 DEF Effect
<1>3. WholeDatabase(Effect(s, db))
  BY EffectKeepsLedger
<1> QED
  BY <1>1, <1>2, <1>3 DEF WholeDatabase

LEMMA CreatedTable ==
  ASSUME NEW s, NEW db, WholeDatabase(db), s.op = "create", NEW x, x = s.table
  PROVE  /\ WholeDatabase(Effect(s, db))
         /\ DOMAIN Effect(s, db).tables = DOMAIN db.tables \cup {x}
         /\ Effect(s, db).tables[x].columns = s.columns
         /\ DOMAIN Effect(s, db).tables[x].rows = {}
         /\ \A t \in DOMAIN db.tables \ {x} : Effect(s, db).tables[t] = db.tables[t]
<1> DEFINE new == [t \in DOMAIN db.tables \cup {s.table} |->
                     IF t = s.table THEN [columns |-> s.columns, rows |-> <<>>]
                                    ELSE db.tables[t]]
<1>1. Effect(s, db) = [db EXCEPT !.tables = new]
  BY DEF Effect
<1>2. WholeDatabase(Effect(s, db))
  BY EffectKeepsLedger
<1>3. /\ DOMAIN new = DOMAIN db.tables \cup {x}
      /\ new[x].columns = s.columns /\ DOMAIN new[x].rows = {}
      /\ \A t \in DOMAIN db.tables \ {x} : new[t] = db.tables[t]
  OBVIOUS
<1> HIDE DEF new
<1>4. Effect(s, db).tables = new
  BY <1>1 DEF WholeDatabase
<1> QED
  BY <1>2, <1>3, <1>4

LEMMA IndexedTables ==
  ASSUME NEW s, NEW db, WholeDatabase(db), s.op = "index"
  PROVE  WholeDatabase(Effect(s, db)) /\ Effect(s, db).tables = db.tables
<1>1. Effect(s, db) = [db EXCEPT !.indexes = db.indexes \cup {s.index}]
  BY DEF Effect
<1> QED
  BY <1>1, EffectKeepsLedger DEF WholeDatabase

\* What a migration leaves is what its last statement leaves.
LEMMA MigratedTables ==
  ASSUME NEW m, NEW db, WholeDatabase(db), Len(m.script) \in Nat
  PROVE  Migrated(m, db).tables = Course(m.script, db)[Len(m.script)].tables
<1>1. PICK x : /\ x = Course(m.script, db)[Len(m.script)]
               /\ WholeDatabase(x)
  <2>1. Len(m.script) \in 0..Len(m.script)
    OBVIOUS
  <2>2. WholeDatabase(Course(m.script, db)[Len(m.script)])
    BY <2>1, CourseKeepsLedger
  <2> QED
    BY <2>2
<1>2. Migrated(m, db) = Recorded(m, x)
  BY <1>1 DEF Migrated
<1>3. Recorded(m, x).tables = x.tables
  BY <1>1 DEF Recorded, WholeDatabase
<1> QED
  BY <1>1, <1>2, <1>3

\* A row after a statement that alters its table.
LEMMA AlteredRows ==
  ASSUME NEW s, NEW table
  PROVE  LET new == NewTable(s, table) IN
         /\ new.columns = NewColumns(s, table.columns)
         /\ DOMAIN new.rows = DOMAIN table.rows
         /\ \A i \in DOMAIN table.rows : new.rows[i] = NewRow(s, table.rows[i])
  BY DEF NewTable

\* What the statements make of a row, column by column.
LEMMA NewRowColumns ==
  ASSUME NEW s, NEW r, NEW new, new = NewRow(s, r)
  PROVE  /\ new = [c \in DOMAIN new |-> new[c]]
         /\ DOMAIN new = NewColumns(s, DOMAIN r)
         /\ \A c \in DOMAIN new : new[c] = NewValue(s, r, c)
<1> DEFINE f == [c \in NewColumns(s, DOMAIN r) |-> NewValue(s, r, c)]
<1>1. new = f
  BY DEF NewRow
<1>2. /\ DOMAIN f = NewColumns(s, DOMAIN r)
      /\ \A c \in NewColumns(s, DOMAIN r) : f[c] = NewValue(s, r, c)
      /\ f = [c \in DOMAIN f |-> f[c]]
  OBVIOUS
<1> QED
  BY <1>1, <1>2

LEMMA AddedColumn ==
  ASSUME NEW s, NEW r, NEW new, new = NewRow(s, r), s.op = "add",
         NEW x, x = s.column
  PROVE  /\ DOMAIN new = DOMAIN r \cup {x} /\ new[x] = s.default
         /\ \A c \in DOMAIN r \ {x} : new[c] = r[c]
<1>1. /\ DOMAIN new = NewColumns(s, DOMAIN r)
      /\ \A c \in DOMAIN new : new[c] = NewValue(s, r, c)
  BY NewRowColumns
<1>2. PICK cs : cs = DOMAIN new
  OBVIOUS
<1> QED
  BY <1>1, <1>2 DEF NewColumns, NewValue

LEMMA RenamedColumn ==
  ASSUME NEW s, NEW r, NEW new, new = NewRow(s, r), s.op = "rename",
         NEW x, x = s.column
  PROVE  /\ DOMAIN new = (DOMAIN r \ {x}) \cup {s.to}
         /\ new[s.to] = r[x]
         /\ \A c \in DOMAIN r \ {x, s.to} : new[c] = r[c]
<1>1. /\ DOMAIN new = NewColumns(s, DOMAIN r)
      /\ \A c \in DOMAIN new : new[c] = NewValue(s, r, c)
  BY NewRowColumns
<1>2. PICK cs : cs = DOMAIN new
  OBVIOUS
<1> QED
  BY <1>1, <1>2 DEF NewColumns, NewValue

LEMMA DroppedColumn ==
  ASSUME NEW s, NEW r, NEW new, new = NewRow(s, r), s.op = "drop",
         NEW x, x = s.column
  PROVE  /\ DOMAIN new = DOMAIN r \ {x}
         /\ \A c \in DOMAIN r \ {x} : new[c] = r[c]
<1>1. /\ DOMAIN new = NewColumns(s, DOMAIN r)
      /\ \A c \in DOMAIN new : new[c] = NewValue(s, r, c)
  BY NewRowColumns
<1>2. PICK cs : cs = DOMAIN new
  OBVIOUS
<1> QED
  BY <1>1, <1>2 DEF NewColumns, NewValue

LEMMA UpdatedColumn ==
  ASSUME NEW s, NEW r, NEW new, new = NewRow(s, r), s.op = "update"
  PROVE  /\ DOMAIN new = DOMAIN r
         /\ s.column \in DOMAIN r => new[s.column] = Flag(r[s.from])
         /\ \A c \in DOMAIN r \ {s.column} : new[c] = r[c]
<1>1. /\ DOMAIN new = NewColumns(s, DOMAIN r)
      /\ \A c \in DOMAIN new : new[c] = NewValue(s, r, c)
  BY NewRowColumns
<1>2. PICK cs : cs = DOMAIN new
  OBVIOUS
<1> QED
  BY <1>1, <1>2 DEF NewColumns, NewValue

LEMMA DocumentReconfigured ==
  ASSUME NEW s1, s1.op = "rename", s1.column = "html_content", s1.to = "content",
         NEW s2, s2.op = "add", s2.column = "format", s2.default = "markdown",
         NEW r \in RowsOf({"html_content"})
  PROVE  /\ NewRow(s2, NewRow(s1, r)) \in RowsOf({"content", "format"})
         /\ Notes(NewRow(s2, NewRow(s1, r))) = Notes(r)
<1>1. DOMAIN r = {"html_content"} /\ r["html_content"] \in {"notes"}
  BY RowMembers DEF Value
<1>3. PICK r1 : r1 = NewRow(s1, r)
  OBVIOUS
<1>4. DOMAIN r1 = {"content"} /\ r1["content"] = r["html_content"]
  <2>1. /\ DOMAIN r1 = (DOMAIN r \ {s1.column}) \cup {s1.to}
        /\ r1[s1.to] = r[s1.column]
    BY <1>3, RenamedColumn
  <2> QED
    BY <1>1, <2>1
<1>5. PICK r2 : r2 = NewRow(s2, r1)
  OBVIOUS
<1>6. /\ DOMAIN r2 = {"content", "format"} /\ r2["content"] = r["html_content"]
      /\ r2["format"] = "markdown" /\ r2 = [c \in DOMAIN r2 |-> r2[c]]
  <2>1. /\ DOMAIN r2 = DOMAIN r1 \cup {s2.column} /\ r2[s2.column] = s2.default
        /\ \A c \in DOMAIN r1 \ {s2.column} : r2[c] = r1[c]
    BY <1>5, AddedColumn
  <2>2. r2 = [c \in DOMAIN r2 |-> r2[c]]
    BY <1>5, NewRowColumns
  <2>3. DOMAIN r2 = {"content", "format"} /\ r2["format"] = "markdown"
    BY <1>4, <2>1
  <2>4. r2["content"] = r1["content"]
    BY <1>4, <2>1
  <2> QED
    BY <1>4, <2>2, <2>3, <2>4
<1>7. r2 \in RowsOf({"content", "format"})
  BY <1>1, <1>6, RowMembers DEF Value
<1>8. Notes(r2) = Notes(r)
  BY <1>1, <1>6 DEF Notes
<1> QED
  BY <1>3, <1>5, <1>7, <1>8

LEMMA FormatRemoved ==
  ASSUME NEW s, s.op = "drop", s.column = "format", NEW r \in RowsOf({"content", "format"})
  PROVE  NewRow(s, r) \in RowsOf({"content"}) /\ Notes(NewRow(s, r)) = Notes(r)
<1>1. DOMAIN r = {"content", "format"} /\ r["content"] \in {"notes"}
  BY RowMembers DEF Value
<1>3. PICK r1 : r1 = NewRow(s, r)
  OBVIOUS
<1>4. /\ DOMAIN r1 = {"content"} /\ r1["content"] = r["content"]
      /\ r1 = [c \in DOMAIN r1 |-> r1[c]]
  <2>1. /\ DOMAIN r1 = DOMAIN r \ {s.column}
        /\ \A c \in DOMAIN r \ {s.column} : r1[c] = r[c]
    BY <1>3, DroppedColumn
  <2>2. r1 = [c \in DOMAIN r1 |-> r1[c]]
    BY <1>3, NewRowColumns
  <2>3. DOMAIN r1 = {"content"} /\ r1["content"] = r["content"]
    BY <1>1, <2>1
  <2> QED
    BY <2>2, <2>3
<1>5. r1 \in RowsOf({"content"})
  BY <1>1, <1>4, RowMembers DEF Value
<1>6. Notes(r1) = Notes(r)
  BY <1>1, <1>4 DEF Notes
<1> QED
  BY <1>3, <1>5, <1>6

LEMMA ArtworkFlagged ==
  ASSUME NEW s1, s1.op = "add", s1.column = "has_artwork2",
         NEW s2, s2.op = "update", s2.column = "has_artwork2", s2.from = "artwork_path",
         NEW s3, s3.op = "drop", s3.column = "artwork_path",
         NEW s4, s4.op = "rename", s4.column = "has_artwork2", s4.to = "has_artwork",
         NEW r \in RowsOf({"artwork_path"})
  PROVE  LET new == NewRow(s4, NewRow(s3, NewRow(s2, NewRow(s1, r)))) IN
         new \in RowsOf({"has_artwork"}) /\ (HasArtwork(new) <=> HasArtwork(r))
<1>1. DOMAIN r = {"artwork_path"} /\ r["artwork_path"] \in {"blank", "path"}
  BY RowMembers DEF Value
<1>3. PICK r1 : r1 = NewRow(s1, r)
  OBVIOUS
<1>4. DOMAIN r1 = {"artwork_path", "has_artwork2"} /\ r1["artwork_path"] = r["artwork_path"]
  <2>1. /\ DOMAIN r1 = DOMAIN r \cup {s1.column}
        /\ \A c \in DOMAIN r \ {s1.column} : r1[c] = r[c]
    BY <1>3, AddedColumn
  <2> QED
    BY <1>1, <2>1
<1>5. PICK r2 : r2 = NewRow(s2, r1)
  OBVIOUS
<1>6. /\ DOMAIN r2 = {"artwork_path", "has_artwork2"}
      /\ r2["has_artwork2"] = Flag(r["artwork_path"])
  BY <1>4, <1>5, UpdatedColumn
<1>7. PICK r3 : r3 = NewRow(s3, r2)
  OBVIOUS
<1>8. DOMAIN r3 = {"has_artwork2"} /\ r3["has_artwork2"] = Flag(r["artwork_path"])
  <2>1. /\ DOMAIN r3 = DOMAIN r2 \ {s3.column}
        /\ \A c \in DOMAIN r2 \ {s3.column} : r3[c] = r2[c]
    BY <1>7, DroppedColumn
  <2> QED
    BY <1>6, <2>1
<1>9. PICK r4 : r4 = NewRow(s4, r3)
  OBVIOUS
<1>10. /\ DOMAIN r4 = {"has_artwork"} /\ r4["has_artwork"] = Flag(r["artwork_path"])
       /\ r4 = [c \in DOMAIN r4 |-> r4[c]]
  <2>1. /\ DOMAIN r4 = (DOMAIN r3 \ {s4.column}) \cup {s4.to}
        /\ r4[s4.to] = r3[s4.column]
    BY <1>9, RenamedColumn
  <2>2. r4 = [c \in DOMAIN r4 |-> r4[c]]
    BY <1>9, NewRowColumns
  <2>3. DOMAIN r4 = {"has_artwork"} /\ r4["has_artwork"] = r3["has_artwork2"]
    BY <1>8, <2>1
  <2> QED
    BY <1>8, <2>2, <2>3
<1>11. Flag(r["artwork_path"]) = IF r["artwork_path"] = "path" THEN "1" ELSE "0"
  BY <1>1 DEF Flag
<1>12. r4 \in RowsOf({"has_artwork"})
  BY <1>10, <1>11, RowMembers DEF Value
<1>13. HasArtwork(r4) <=> r["artwork_path"] = "path"
  BY <1>10, <1>11 DEF HasArtwork
<1>14. HasArtwork(r) <=> r["artwork_path"] = "path"
  BY <1>1 DEF HasArtwork
<1> QED
  BY <1>3, <1>5, <1>7, <1>9, <1>12, <1>13, <1>14

\* The columns after a statement.
LEMMA NewColumnSets ==
  ASSUME NEW s, NEW cs, NEW x, x = s.column
  PROVE  /\ s.op = "add" => NewColumns(s, cs) = cs \cup {x}
         /\ s.op = "rename" => NewColumns(s, cs) = (cs \ {x}) \cup {s.to}
         /\ s.op = "drop" => NewColumns(s, cs) = cs \ {x}
         /\ s.op = "update" => NewColumns(s, cs) = cs
  BY DEF NewColumns

LEMMA ArtworkStage ==
  ASSUME NEW db, WholeDatabase(db), NEW sv, RowsFit(db, sv, 3)
  PROVE  RowsFit(Migrated(ArtworkPathToHasArtwork, db), sv, 4)
<1> DEFINE m == ArtworkPathToHasArtwork
           C == Course(m.script, db)
<1>1. PICK s1, s2, s3, s4 :
        /\ Len(m.script) = 4
        /\ m.script[1] = s1 /\ m.script[2] = s2 /\ m.script[3] = s3 /\ m.script[4] = s4
        /\ s1.op = "add" /\ s1.table = "games" /\ s1.column = "has_artwork2"
        /\ s2.op = "update" /\ s2.table = "games" /\ s2.column = "has_artwork2"
        /\ s2.from = "artwork_path"
        /\ s3.op = "drop" /\ s3.table = "games" /\ s3.column = "artwork_path"
        /\ s4.op = "rename" /\ s4.table = "games" /\ s4.column = "has_artwork2"
        /\ s4.to = "has_artwork"
  <2>1. m.script = << AddColumn("games", "has_artwork2", "0"),
                      SetFlag("games", "has_artwork2", "artwork_path"),
                      DropColumn("games", "artwork_path"),
                      RenameColumn("games", "has_artwork2", "has_artwork") >>
    BY DEF ArtworkPathToHasArtwork
  <2> HIDE DEF m
  <2>2. /\ Len(m.script) = 4
        /\ m.script[1] = AddColumn("games", "has_artwork2", "0")
        /\ m.script[2] = SetFlag("games", "has_artwork2", "artwork_path")
        /\ m.script[3] = DropColumn("games", "artwork_path")
        /\ m.script[4] = RenameColumn("games", "has_artwork2", "has_artwork")
    BY <2>1
  <2> QED
    BY <2>2 DEF AddColumn, SetFlag, DropColumn, RenameColumn
<1> HIDE DEF m
<1>2. /\ C[0] = db /\ C[1] = Effect(s1, C[0]) /\ C[2] = Effect(s2, C[1])
      /\ C[3] = Effect(s3, C[2]) /\ C[4] = Effect(s4, C[3])
  <2>1. /\ C[0] = db
        /\ \A i \in 1..4 : C[i] = Effect(m.script[i], C[i - 1])
    BY <1>1, CourseSteps
  <2> QED
    BY <1>1, <2>1
<1>3. PICK d1, d2, d3, d4 :
        /\ d1 = Effect(s1, db) /\ d2 = Effect(s2, d1) /\ d3 = Effect(s3, d2)
        /\ d4 = Effect(s4, d3) /\ Migrated(m, db).tables = d4.tables
  <2>1. Migrated(m, db).tables = C[4].tables
    <3>1. Len(m.script) = 4 /\ Len(m.script) \in Nat
      BY <1>1
    <3>2. Migrated(m, db).tables = C[Len(m.script)].tables
      BY <3>1, MigratedTables
    <3> QED
      BY <3>1, <3>2
  <2> QED
    BY <1>2, <2>1
<1> HIDE DEF C
<1>4. PICK t0 : /\ t0 = db.tables["games"] /\ GamesFit(t0, sv, 3)
                /\ DOMAIN db.tables = Tables
                /\ DocumentsFit(db.tables["session_documents"], sv, 3)
  BY DEF RowsFit
<1>5. PICK t1, t2, t3, t4 :
        /\ t1 = NewTable(s1, t0) /\ t2 = NewTable(s2, t1) /\ t3 = NewTable(s3, t2)
        /\ t4 = NewTable(s4, t3)
  OBVIOUS
<1>6. /\ WholeDatabase(d1) /\ DOMAIN d1.tables = Tables /\ d1.tables["games"] = t1
      /\ d1.tables["session_documents"] = db.tables["session_documents"]
  BY <1>1, <1>3, <1>4, <1>5, AlteredTable DEF Tables
<1>7. /\ WholeDatabase(d2) /\ DOMAIN d2.tables = Tables /\ d2.tables["games"] = t2
      /\ d2.tables["session_documents"] = db.tables["session_documents"]
  BY <1>1, <1>3, <1>5, <1>6, AlteredTable DEF Tables
<1>8. /\ WholeDatabase(d3) /\ DOMAIN d3.tables = Tables /\ d3.tables["games"] = t3
      /\ d3.tables["session_documents"] = db.tables["session_documents"]
  BY <1>1, <1>3, <1>5, <1>7, AlteredTable DEF Tables
<1>9. /\ DOMAIN d4.tables = Tables /\ d4.tables["games"] = t4
      /\ d4.tables["session_documents"] = db.tables["session_documents"]
  BY <1>1, <1>3, <1>5, <1>8, AlteredTable DEF Tables
<1>10. t4.columns = {"has_artwork"}
  <2>1. t0.columns = {"artwork_path"}
    BY <1>4 DEF GamesFit, GameColumns
  <2>2. t1.columns = {"artwork_path", "has_artwork2"}
    BY <1>1, <1>5, <2>1, AlteredRows, NewColumnSets
  <2>3. t2.columns = {"artwork_path", "has_artwork2"}
    BY <1>1, <1>5, <2>2, AlteredRows, NewColumnSets
  <2>4. t3.columns = {"has_artwork2"}
    BY <1>1, <1>5, <2>3, AlteredRows, NewColumnSets
  <2> QED
    BY <1>1, <1>5, <2>4, AlteredRows, NewColumnSets
<1>11. /\ DOMAIN t4.rows = DOMAIN t0.rows
       /\ \A i \in DOMAIN t0.rows :
            t4.rows[i] = NewRow(s4, NewRow(s3, NewRow(s2, NewRow(s1, t0.rows[i]))))
  BY <1>5, AlteredRows
<1>12. GamesFit(t4, sv, 4)
  <2>1. DOMAIN t4.rows = DOMAIN sv
    BY <1>4, <1>11 DEF GamesFit
  <2>2. ASSUME NEW i \in DOMAIN sv
        PROVE  /\ t4.rows[i] \in RowsOf({"has_artwork"})
               /\ HasArtwork(t4.rows[i]) <=> sv[i].artwork
    <3>1. PICK r : /\ r = t0.rows[i] /\ r \in RowsOf({"artwork_path"})
                   /\ HasArtwork(r) <=> sv[i].artwork
                   /\ t4.rows[i] = NewRow(s4, NewRow(s3, NewRow(s2, NewRow(s1, r))))
      BY <1>4, <1>11 DEF GamesFit, GameColumns
    <3> QED
      BY <1>1, <3>1, ArtworkFlagged
  <2> QED
    BY <1>10, <2>1, <2>2 DEF GamesFit, GameColumns
<1>13. DocumentsFit(db.tables["session_documents"], sv, 4)
  BY <1>4 DEF DocumentsFit, DocumentColumns
<1> QED
  BY <1>3, <1>9, <1>12, <1>13 DEF RowsFit, m

LEMMA FormatStage ==
  ASSUME NEW db, WholeDatabase(db), NEW sv, RowsFit(db, sv, 2)
  PROVE  RowsFit(Migrated(RemoveFormat, db), sv, 3)
<1> DEFINE m == RemoveFormat
           C == Course(m.script, db)
<1>1. PICK s : /\ Len(m.script) = 1 /\ m.script[1] = s
               /\ s.op = "drop" /\ s.table = "session_documents" /\ s.column = "format"
  <2>1. m.script = << DropColumn("session_documents", "format") >>
    BY DEF RemoveFormat
  <2> HIDE DEF m
  <2>2. Len(m.script) = 1 /\ m.script[1] = DropColumn("session_documents", "format")
    BY <2>1
  <2> QED
    BY <2>2 DEF DropColumn
<1> HIDE DEF m
<1>2. PICK d : d = Effect(s, db) /\ Migrated(m, db).tables = d.tables
  <2>1. /\ C[0] = db
        /\ \A i \in 1..1 : C[i] = Effect(m.script[i], C[i - 1])
    BY <1>1, CourseSteps
  <2>2. C[1] = Effect(s, db)
    BY <1>1, <2>1
  <2>3. Migrated(m, db).tables = C[1].tables
    <3>1. Len(m.script) = 1 /\ Len(m.script) \in Nat
      BY <1>1
    <3>2. Migrated(m, db).tables = C[Len(m.script)].tables
      BY <3>1, MigratedTables
    <3> QED
      BY <3>1, <3>2
  <2> QED
    BY <2>2, <2>3
<1> HIDE DEF C
<1>3. PICK t0 : /\ t0 = db.tables["session_documents"] /\ DocumentsFit(t0, sv, 2)
                /\ DOMAIN db.tables = Tables /\ GamesFit(db.tables["games"], sv, 2)
  BY DEF RowsFit
<1>4. PICK t1 : t1 = NewTable(s, t0)
  OBVIOUS
<1>5. /\ DOMAIN d.tables = Tables /\ d.tables["session_documents"] = t1
      /\ d.tables["games"] = db.tables["games"]
  BY <1>1, <1>2, <1>3, <1>4, AlteredTable DEF Tables
<1>6. t1.columns = {"content"}
  <2>1. t0.columns = {"content", "format"}
    BY <1>3 DEF DocumentsFit, DocumentColumns
  <2> QED
    BY <1>1, <1>4, <2>1, AlteredRows, NewColumnSets
<1>7. /\ DOMAIN t1.rows = DOMAIN t0.rows
      /\ \A i \in DOMAIN t0.rows : t1.rows[i] = NewRow(s, t0.rows[i])
  BY <1>4, AlteredRows
<1>8. DocumentsFit(t1, sv, 3)
  <2>1. DOMAIN t1.rows = DOMAIN sv
    BY <1>3, <1>7 DEF DocumentsFit
  <2>2. ASSUME NEW i \in DOMAIN sv
        PROVE  t1.rows[i] \in RowsOf({"content"}) /\ Notes(t1.rows[i]) = sv[i].notes
    <3>1. PICK r : /\ r = t0.rows[i] /\ r \in RowsOf({"content", "format"})
                   /\ Notes(r) = sv[i].notes /\ t1.rows[i] = NewRow(s, r)
      BY <1>3, <1>7 DEF DocumentsFit, DocumentColumns
    <3> QED
      BY <1>1, <3>1, FormatRemoved
  <2> QED
    BY <1>6, <2>1, <2>2 DEF DocumentsFit, DocumentColumns
<1>9. GamesFit(db.tables["games"], sv, 3)
  BY <1>3 DEF GamesFit, GameColumns
<1> QED
  BY <1>2, <1>5, <1>8, <1>9 DEF RowsFit, m

LEMMA ReconfigStage ==
  ASSUME NEW db, WholeDatabase(db), NEW sv, RowsFit(db, sv, 1)
  PROVE  RowsFit(Migrated(ReconfigSessionDocuments, db), sv, 2)
<1> DEFINE m == ReconfigSessionDocuments
           C == Course(m.script, db)
<1>1. PICK s1, s2 :
        /\ Len(m.script) = 2 /\ m.script[1] = s1 /\ m.script[2] = s2
        /\ s1.op = "rename" /\ s1.table = "session_documents"
        /\ s1.column = "html_content" /\ s1.to = "content"
        /\ s2.op = "add" /\ s2.table = "session_documents"
        /\ s2.column = "format" /\ s2.default = "markdown"
  <2>1. m.script = << RenameColumn("session_documents", "html_content", "content"),
                      AddColumn("session_documents", "format", "markdown") >>
    BY DEF ReconfigSessionDocuments
  <2> HIDE DEF m
  <2>2. /\ Len(m.script) = 2
        /\ m.script[1] = RenameColumn("session_documents", "html_content", "content")
        /\ m.script[2] = AddColumn("session_documents", "format", "markdown")
    BY <2>1
  <2> QED
    BY <2>2 DEF RenameColumn, AddColumn
<1> HIDE DEF m
<1>2. PICK d1, d2 : /\ d1 = Effect(s1, db) /\ d2 = Effect(s2, d1)
                    /\ Migrated(m, db).tables = d2.tables
  <2>1. /\ C[0] = db
        /\ \A i \in 1..2 : C[i] = Effect(m.script[i], C[i - 1])
    BY <1>1, CourseSteps
  <2>2. C[1] = Effect(s1, db) /\ C[2] = Effect(s2, C[1])
    BY <1>1, <2>1
  <2>3. Migrated(m, db).tables = C[2].tables
    <3>1. Len(m.script) = 2 /\ Len(m.script) \in Nat
      BY <1>1
    <3>2. Migrated(m, db).tables = C[Len(m.script)].tables
      BY <3>1, MigratedTables
    <3> QED
      BY <3>1, <3>2
  <2> QED
    BY <2>2, <2>3
<1> HIDE DEF C
<1>3. PICK t0 : /\ t0 = db.tables["session_documents"] /\ DocumentsFit(t0, sv, 1)
                /\ DOMAIN db.tables = Tables /\ GamesFit(db.tables["games"], sv, 1)
  BY DEF RowsFit
<1>4. PICK t1, t2 : t1 = NewTable(s1, t0) /\ t2 = NewTable(s2, t1)
  OBVIOUS
<1>5. /\ WholeDatabase(d1) /\ DOMAIN d1.tables = Tables /\ d1.tables["session_documents"] = t1
      /\ d1.tables["games"] = db.tables["games"]
  BY <1>1, <1>2, <1>3, <1>4, AlteredTable DEF Tables
<1>6. /\ DOMAIN d2.tables = Tables /\ d2.tables["session_documents"] = t2
      /\ d2.tables["games"] = db.tables["games"]
  BY <1>1, <1>2, <1>4, <1>5, AlteredTable DEF Tables
<1>7. t2.columns = {"content", "format"}
  <2>1. t0.columns = {"html_content"}
    BY <1>3 DEF DocumentsFit, DocumentColumns
  <2>2. t1.columns = {"content"}
    BY <1>1, <1>4, <2>1, AlteredRows, NewColumnSets
  <2> QED
    BY <1>1, <1>4, <2>2, AlteredRows, NewColumnSets
<1>8. /\ DOMAIN t2.rows = DOMAIN t0.rows
      /\ \A i \in DOMAIN t0.rows : t2.rows[i] = NewRow(s2, NewRow(s1, t0.rows[i]))
  BY <1>4, AlteredRows
<1>9. DocumentsFit(t2, sv, 2)
  <2>1. DOMAIN t2.rows = DOMAIN sv
    BY <1>3, <1>8 DEF DocumentsFit
  <2>2. ASSUME NEW i \in DOMAIN sv
        PROVE  t2.rows[i] \in RowsOf({"content", "format"}) /\ Notes(t2.rows[i]) = sv[i].notes
    <3>1. PICK r : /\ r = t0.rows[i] /\ r \in RowsOf({"html_content"})
                   /\ Notes(r) = sv[i].notes /\ t2.rows[i] = NewRow(s2, NewRow(s1, r))
      BY <1>3, <1>8 DEF DocumentsFit, DocumentColumns
    <3> QED
      BY <1>1, <3>1, DocumentReconfigured
  <2> QED
    BY <1>7, <2>1, <2>2 DEF DocumentsFit, DocumentColumns
<1>10. GamesFit(db.tables["games"], sv, 2)
  BY <1>3 DEF GamesFit, GameColumns
<1> QED
  BY <1>2, <1>6, <1>9, <1>10 DEF RowsFit, m

LEMMA InitialStage ==
  ASSUME NEW db, WholeDatabase(db), NEW sv, RowsFit(db, sv, 0)
  PROVE  RowsFit(Migrated(InitialSchema, db), sv, 1)
<1> DEFINE m == InitialSchema
           C == Course(m.script, db)
<1>1. PICK s1, s2, s3, s4, s5 :
        /\ Len(m.script) = 5
        /\ m.script[1] = s1 /\ m.script[2] = s2 /\ m.script[3] = s3
        /\ m.script[4] = s4 /\ m.script[5] = s5
        /\ s1.op = "create" /\ s1.table = "games" /\ s1.columns = {"artwork_path"}
        /\ s2.op = "create" /\ s2.table = "sessions"
        /\ s3.op = "create" /\ s3.table = "session_documents"
        /\ s3.columns = {"html_content"}
        /\ s4.op = "index" /\ s5.op = "index"
  <2>1. m.script = << CreateTable("games", {"artwork_path"}), CreateTable("sessions", {}),
                      CreateTable("session_documents", {"html_content"}),
                      CreateIndex("one_active_session", "sessions"),
                      CreateIndex("sessions_by_game_and_start", "sessions") >>
    BY DEF InitialSchema
  <2> HIDE DEF m
  <2>2. /\ Len(m.script) = 5
        /\ m.script[1] = CreateTable("games", {"artwork_path"})
        /\ m.script[2] = CreateTable("sessions", {})
        /\ m.script[3] = CreateTable("session_documents", {"html_content"})
        /\ m.script[4] = CreateIndex("one_active_session", "sessions")
        /\ m.script[5] = CreateIndex("sessions_by_game_and_start", "sessions")
    BY <2>1
  <2> QED
    BY <2>2 DEF CreateTable, CreateIndex
<1> HIDE DEF m
<1>2. /\ C[0] = db /\ C[1] = Effect(s1, C[0]) /\ C[2] = Effect(s2, C[1])
      /\ C[3] = Effect(s3, C[2]) /\ C[4] = Effect(s4, C[3]) /\ C[5] = Effect(s5, C[4])
  <2>1. /\ C[0] = db
        /\ \A i \in 1..5 : C[i] = Effect(m.script[i], C[i - 1])
    BY <1>1, CourseSteps
  <2> QED
    BY <1>1, <2>1
<1>3. PICK d1, d2, d3, d4, d5 :
        /\ d1 = Effect(s1, db) /\ d2 = Effect(s2, d1) /\ d3 = Effect(s3, d2)
        /\ d4 = Effect(s4, d3) /\ d5 = Effect(s5, d4) /\ Migrated(m, db).tables = d5.tables
  <2>1. Migrated(m, db).tables = C[5].tables
    <3>1. Len(m.script) = 5 /\ Len(m.script) \in Nat
      BY <1>1
    <3>2. Migrated(m, db).tables = C[Len(m.script)].tables
      BY <3>1, MigratedTables
    <3> QED
      BY <3>1, <3>2
  <2> QED
    BY <1>2, <2>1
<1> HIDE DEF C
<1>4. DOMAIN db.tables = {} /\ DOMAIN sv = {}
  BY DEF RowsFit
<1>5. PICK g : /\ WholeDatabase(d1) /\ DOMAIN d1.tables = {"games"}
               /\ g = d1.tables["games"]
               /\ g.columns = {"artwork_path"} /\ DOMAIN g.rows = {}
  <2>1. /\ WholeDatabase(d1) /\ DOMAIN d1.tables = DOMAIN db.tables \cup {"games"}
        /\ d1.tables["games"].columns = s1.columns /\ DOMAIN d1.tables["games"].rows = {}
    <3>1. s1.op = "create" /\ "games" = s1.table /\ d1 = Effect(s1, db)
      BY <1>1, <1>3
    <3> QED
      BY <3>1, CreatedTable
  <2> QED
    BY <1>1, <1>4, <2>1
<1>6. /\ WholeDatabase(d2) /\ DOMAIN d2.tables = {"games", "sessions"}
      /\ d2.tables["games"] = g
  <2>1. /\ WholeDatabase(d2) /\ DOMAIN d2.tables = DOMAIN d1.tables \cup {"sessions"}
        /\ \A t \in DOMAIN d1.tables \ {"sessions"} : d2.tables[t] = d1.tables[t]
    BY <1>1, <1>3, <1>5, CreatedTable
  <2> QED
    BY <1>5, <2>1
<1>7. PICK d : /\ WholeDatabase(d3) /\ DOMAIN d3.tables = Tables
               /\ d3.tables["games"] = g /\ d = d3.tables["session_documents"]
               /\ d.columns = {"html_content"} /\ DOMAIN d.rows = {}
  <2>1. /\ WholeDatabase(d3) /\ DOMAIN d3.tables = DOMAIN d2.tables \cup {"session_documents"}
        /\ d3.tables["session_documents"].columns = s3.columns
        /\ DOMAIN d3.tables["session_documents"].rows = {}
        /\ \A t \in DOMAIN d2.tables \ {"session_documents"} : d3.tables[t] = d2.tables[t]
    BY <1>1, <1>3, <1>6, CreatedTable
  <2> QED
    BY <1>1, <1>6, <2>1 DEF Tables
<1>8. WholeDatabase(d4) /\ d4.tables = d3.tables
  BY <1>1, <1>3, <1>7, IndexedTables
<1>9. d5.tables = d3.tables
  BY <1>1, <1>3, <1>8, IndexedTables
<1>10. GamesFit(g, sv, 1) /\ DocumentsFit(d, sv, 1)
  BY <1>4, <1>5, <1>7 DEF GamesFit, DocumentsFit, GameColumns, DocumentColumns
<1> QED
  BY <1>3, <1>7, <1>9, <1>10 DEF RowsFit, m

LEMMA StagesKeepRows ==
  ASSUME NEW k \in 0..3, NEW db, WholeDatabase(db), NEW sv, RowsFit(db, sv, k)
  PROVE  RowsFit(Migrated(knownMigrations[k + 1], db), sv, k + 1)
<1>1. /\ knownMigrations[1] = InitialSchema
      /\ knownMigrations[2] = ReconfigSessionDocuments
      /\ knownMigrations[3] = RemoveFormat
      /\ knownMigrations[4] = ArtworkPathToHasArtwork
  BY DEF knownMigrations
<1>2. CASE k = 0
  BY <1>1, <1>2, InitialStage
<1>3. CASE k = 1
  BY <1>1, <1>3, ReconfigStage
<1>4. CASE k = 2
  BY <1>1, <1>4, FormatStage
<1>5. CASE k = 3
  BY <1>1, <1>5, ArtworkStage
<1> QED
  BY <1>2, <1>3, <1>4, <1>5

\* A row stored fits its table, and the rest of the table is as it was.
LEMMA StoredRowFits ==
  ASSUME NEW db, WholeDatabase(db), NEW sv, NEW k \in 1..4, RowsFit(db, sv, k), NEW i,
         NEW g \in RowsOf(db.tables["games"].columns),
         NEW d \in RowsOf(db.tables["session_documents"].columns),
         NEW new, new.tables = RowStored(db.tables, i, g, d),
         NEW newSaved,
         newSaved = WithRow(sv, i, [artwork |-> HasArtwork(g), notes |-> Notes(d)])
  PROVE  RowsFit(new, newSaved, k)
<1>1. PICK gt, dt : /\ gt = db.tables["games"] /\ dt = db.tables["session_documents"]
                    /\ GamesFit(gt, sv, k) /\ DocumentsFit(dt, sv, k)
                    /\ DOMAIN db.tables = Tables
                    /\ DOMAIN gt = {"columns", "rows"} /\ DOMAIN dt = {"columns", "rows"}
  <2>1. /\ DOMAIN db.tables = Tables
        /\ GamesFit(db.tables["games"], sv, k)
        /\ DocumentsFit(db.tables["session_documents"], sv, k)
    BY DEF RowsFit
  <2>2. /\ DOMAIN db.tables["games"] = {"columns", "rows"}
        /\ DOMAIN db.tables["session_documents"] = {"columns", "rows"}
    BY <2>1 DEF WholeDatabase, Tables
  <2> QED
    BY <2>1, <2>2
<1>2. PICK gt2, dt2 : /\ gt2 = [gt EXCEPT !.rows = WithRow(gt.rows, i, g)]
                      /\ dt2 = [dt EXCEPT !.rows = WithRow(dt.rows, i, d)]
  OBVIOUS
<1>3. /\ DOMAIN new.tables = Tables
      /\ new.tables["games"] = gt2 /\ new.tables["session_documents"] = dt2
  BY <1>1, <1>2 DEF RowStored, SavedTable, Tables
<1>4. /\ gt2.columns = gt.columns /\ gt2.rows = WithRow(gt.rows, i, g)
      /\ dt2.columns = dt.columns /\ dt2.rows = WithRow(dt.rows, i, d)
  BY <1>1, <1>2
<1>5. \A rows, r : /\ DOMAIN WithRow(rows, i, r) = DOMAIN rows \cup {i}
                   /\ \A j \in DOMAIN rows \cup {i} :
                        WithRow(rows, i, r)[j] = IF j = i THEN r ELSE rows[j]
  BY DEF WithRow
<1>6. /\ DOMAIN newSaved = DOMAIN sv \cup {i}
      /\ newSaved[i].artwork <=> HasArtwork(g)
      /\ newSaved[i].notes = Notes(d)
      /\ \A j \in DOMAIN sv : j # i => newSaved[j] = sv[j]
  <2>1. PICK e : e = [artwork |-> HasArtwork(g), notes |-> Notes(d)]
    OBVIOUS
  <2>2. (e.artwork <=> HasArtwork(g)) /\ e.notes = Notes(d)
    BY <2>1
  <2>3. newSaved = WithRow(sv, i, e)
    BY <2>1
  <2>4. /\ DOMAIN WithRow(sv, i, e) = DOMAIN sv \cup {i} /\ WithRow(sv, i, e)[i] = e
        /\ \A j \in DOMAIN sv : j # i => WithRow(sv, i, e)[j] = sv[j]
    <3>1. DOMAIN WithRow(sv, i, e) = DOMAIN sv \cup {i}
      BY DEF WithRow
    <3>2. WithRow(sv, i, e)[i] = e
      BY DEF WithRow
    <3>3. ASSUME NEW j \in DOMAIN sv, j # i
          PROVE  WithRow(sv, i, e)[j] = sv[j]
      BY <3>3 DEF WithRow
    <3> QED
      BY <3>1, <3>2, <3>3
  <2>5. /\ DOMAIN newSaved = DOMAIN sv \cup {i} /\ newSaved[i] = e
        /\ \A j \in DOMAIN sv : j # i => newSaved[j] = sv[j]
    BY <2>3, <2>4
  <2> QED
    BY <2>2, <2>5
<1>7. GamesFit(gt2, newSaved, k)
  <2>1. DOMAIN gt2.rows = DOMAIN newSaved
    <3>1. DOMAIN gt.rows = DOMAIN sv
      BY <1>1 DEF GamesFit
    <3>2. DOMAIN gt2.rows = DOMAIN gt.rows \cup {i}
      BY <1>4, <1>5
    <3> QED
      BY <1>6, <3>1, <3>2
  <2>2. ASSUME NEW j \in DOMAIN newSaved
        PROVE  /\ gt2.rows[j] \in RowsOf(GameColumns(k))
               /\ HasArtwork(gt2.rows[j]) <=> newSaved[j].artwork
    <3>1. CASE j = i
      <4>1. gt2.rows[j] = g
        BY <1>4, <1>5, <3>1
      <4> QED
        BY <1>1, <1>6, <3>1, <4>1 DEF GamesFit
    <3>2. CASE j # i
      <4>1. j \in DOMAIN sv /\ newSaved[j] = sv[j] /\ j \in DOMAIN gt.rows
        BY <1>1, <1>6, <3>2 DEF GamesFit
      <4>2. gt2.rows[j] = gt.rows[j]
        BY <1>4, <1>5, <3>2, <4>1
      <4> QED
        BY <1>1, <4>1, <4>2 DEF GamesFit
    <3> QED
      BY <3>1, <3>2
  <2> QED
    BY <1>1, <1>4, <2>1, <2>2 DEF GamesFit
<1>8. DocumentsFit(dt2, newSaved, k)
  <2>1. DOMAIN dt2.rows = DOMAIN newSaved
    <3>1. DOMAIN dt.rows = DOMAIN sv
      BY <1>1 DEF DocumentsFit
    <3>2. DOMAIN dt2.rows = DOMAIN dt.rows \cup {i}
      BY <1>4, <1>5
    <3> QED
      BY <1>6, <3>1, <3>2
  <2>2. ASSUME NEW j \in DOMAIN newSaved
        PROVE  /\ dt2.rows[j] \in RowsOf(DocumentColumns(k))
               /\ Notes(dt2.rows[j]) = newSaved[j].notes
    <3>1. CASE j = i
      <4>1. dt2.rows[j] = d
        BY <1>4, <1>5, <3>1
      <4> QED
        BY <1>1, <1>6, <3>1, <4>1 DEF DocumentsFit
    <3>2. CASE j # i
      <4>1. j \in DOMAIN sv /\ newSaved[j] = sv[j] /\ j \in DOMAIN dt.rows
        BY <1>1, <1>6, <3>2 DEF DocumentsFit
      <4>2. dt2.rows[j] = dt.rows[j]
        BY <1>4, <1>5, <3>2, <4>1
      <4> QED
        BY <1>1, <4>1, <4>2 DEF DocumentsFit
    <3> QED
      BY <3>1, <3>2
  <2> QED
    BY <1>1, <1>4, <2>1, <2>2 DEF DocumentsFit
<1> QED
  BY <1>3, <1>7, <1>8 DEF RowsFit

LEMMA SavedStep == [Next]_vars => saved' = saved \/ \E p \in Process : Store(p)
  BY DEF Next, Install, vars

LEMMA RowsKept ==
  ASSUME ReleasedBuilds, IInv, RowsInv, [Next]_vars
  PROVE  RowsInv'
<1>1. PICK k \in 0..4 : DOMAIN disk.ledger = 1..k /\ RowsFit(disk, saved, k)
  BY DEF RowsInv
<1>2. WholeDatabase(disk) /\ HistoryInv
  BY DEF IInv, ProgramInv, ConnectionInv
<1>3. CASE \E p \in Process : Store(p)
  <2>1. PICK p \in Process : Store(p)
    BY <1>3
  <2>2. PICK n \in Nat : StandsAt(n)
    BY <1>2 DEF HistoryInv
  <2>3. n = k
    BY <1>1, <2>2 DEF StandsAt, IsStage
  <2>4. conn[p].at = "ready" /\ conn[p].build \in Builds
    BY <2>1 DEF Store, IInv, ProgramInv, ConnectionInv, GoodConnection
  <2>5. k \in 1..4
    BY <2>2, <2>3, <2>4 DEF StandsAt, Walks, ReleasedBuilds
  <2>6. PICK i \in Key : \E g \in RowsOf(disk.tables["games"].columns),
                            d \in RowsOf(disk.tables["session_documents"].columns) :
          /\ disk'.tables = RowStored(disk.tables, i, g, d)
          /\ saved' = WithRow(saved, i, [artwork |-> HasArtwork(g), notes |-> Notes(d)])
    BY <1>2, <2>1, StoredRow
  <2>7. RowsFit(disk', saved', k)
    BY <1>1, <1>2, <2>5, <2>6, StoredRowFits
  <2>8. disk'.ledger = disk.ledger
    BY <1>2, <2>1, StoredRow DEF SameLayout
  <2> QED
    BY <1>1, <2>7, <2>8 DEF RowsInv
<1>4. CASE saved' = saved /\ disk' = disk
  BY <1>4 DEF RowsInv
<1>5. ASSUME saved' = saved, NEW b, Migrates(b) PROVE RowsInv'
  <2>1. PICK n \in Nat : /\ IsStage(disk, n) /\ n + 1 \in 1..Len(b)
                         /\ disk' = Migrated(b[n + 1], disk)
    BY <1>5 DEF Migrates
  <2>2. n = k
    BY <1>1, <2>1 DEF IsStage
  <2>3. b \in Builds /\ Agrees(b, disk.ledger) /\ Len(b) \in 1..4
        /\ b[k + 1] = knownMigrations[k + 1]
    BY <1>5, <2>1, <2>2 DEF Migrates, ReleasedBuilds
  <2>4. k \in 0..3 /\ k + 1 \in 0..4
    BY <2>1, <2>2, <2>3
  <2>5. RowsFit(disk', saved, k + 1)
    BY <1>1, <1>2, <2>1, <2>2, <2>3, <2>4, StagesKeepRows
  <2>6. DOMAIN disk'.ledger = 1..k + 1
    BY <1>2, <2>1, <2>2, <2>3, MigratedIsNextStage DEF IsStage
  <2> QED
    BY <1>5, <2>4, <2>5, <2>6 DEF RowsInv
<1>6. SchemaStep \/ UNCHANGED vars
  BY NextKeeps
<1>7. saved' = saved \/ \E p \in Process : Store(p)
  BY SavedStep
<1> QED
  BY <1>3, <1>4, <1>5, <1>6, <1>7 DEF SchemaStep, vars

(* Through the migrations released so far, and whatever cuts them off, no   *)
(* row is lost or made up: a game has artwork if and only if its last       *)
(* stored row said so, and a session's notes are the stored ones.           *)
THEOREM NoRowIsLost == ASSUME ReleasedBuilds PROVE Spec => []RowsSurvive
<1>1. Init => RowsInv
  <2>1. ASSUME Init PROVE DOMAIN disk.ledger = 1..0 /\ RowsFit(disk, saved, 0)
    BY <2>1 DEF Init, EmptyDatabase, RowsFit
  <2> QED
    BY <2>1 DEF RowsInv
<1>2. IInv /\ RowsInv /\ [Next]_vars => RowsInv'
  BY RowsKept
<1>3. RowsInv => RowsSurvive
  <2>1. ASSUME RowsInv, NEW t \in SavedTable \cap DOMAIN disk.tables
        PROVE  LET rows == disk.tables[t].rows IN
               /\ DOMAIN rows = DOMAIN saved
               /\ \A k \in DOMAIN rows :
                     IF t = "games" THEN HasArtwork(rows[k]) <=> saved[k].artwork
                                    ELSE Notes(rows[k]) = saved[k].notes
    <3>1. PICK k \in 0..4 : RowsFit(disk, saved, k)
      BY <2>1 DEF RowsInv
    <3>2. /\ GamesFit(disk.tables["games"], saved, k)
          /\ DocumentsFit(disk.tables["session_documents"], saved, k)
      BY <2>1, <3>1 DEF RowsFit
    <3>3. CASE t = "games"
      BY <3>2, <3>3 DEF GamesFit
    <3>4. CASE t = "session_documents"
      BY <3>2, <3>4 DEF DocumentsFit
    <3> QED
      BY <2>1, <3>3, <3>4 DEF SavedTable
  <2> QED
    BY <2>1 DEF RowsSurvive
<1> QED
  BY <1>1, <1>2, <1>3, Invariant, PTL DEF Spec
=============================================================================
