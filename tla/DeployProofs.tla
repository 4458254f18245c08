---------------------------- MODULE DeployProofs ----------------------------
(***************************************************************************)
(* Proofs about Deploy for any number of processes, tables, indexes and    *)
(* columns, on both databases.                                             *)
(***************************************************************************)
EXTENDS Deploy, TLAPS

USE DEF Tables, Indexes, Columns, Whole

-----------------------------------------------------------------------------
(* Types.                                                                  *)

\* Where Migrate may have come to, and where it goes from there.
LEMMA AdvanceType ==
  ASSUME TypeOK, NEW r \in Replicas, Advance(r)
  PROVE  pc' \in [Replicas -> Labels] /\ at' \in [Replicas -> Tables \cup Indexes]
<1>1. 1 \in Tables
  BY DeployAssumption
<1>2. \A l \in {"exists", "index", "unlock", "build"} : l \in Labels
  BY DEF Labels, Migrating
<1>3. CASE at[r] + 1 \in Tables \cup Indexes
  <2>1. /\ at' = [at EXCEPT ![r] = at[r] + 1]
        /\ Goto(r, IF at[r] + 1 \in Tables THEN "exists" ELSE "index")
    BY <1>3 DEF Advance
  <2>. QED  BY <1>2, <1>3, <2>1 DEF TypeOK, Goto
<1>4. CASE at[r] + 1 \notin Tables \cup Indexes
  <2>1. /\ at' = [at EXCEPT ![r] = 1]
        /\ Goto(r, IF dialect = "postgres" THEN "unlock" ELSE "build")
    BY <1>4 DEF Advance
  <2>. QED  BY <1>1, <1>2, <2>1 DEF TypeOK, Goto
<1>. QED  BY <1>3, <1>4

\* What makes a table or an index.
LEMMA MakeType ==
  ASSUME TypeOK, NEW p \in Tables \cup Indexes, Make(p)
  PROVE  columns' \in [Tables -> SUBSET Columns] /\ indexes' \in SUBSET Indexes
BY DEF TypeOK, Make, MakeTable, MakeIndex

\* The end of a process.
LEMMA GoneType ==
  ASSUME TypeOK, NEW r \in Replicas, Gone(r)
  PROVE  /\ pc' \in [Replicas -> Labels] /\ at' \in [Replicas -> Tables \cup Indexes]
         /\ missing' \in [Replicas -> SUBSET Columns] /\ cancelled' \in [Replicas -> BOOLEAN]
         /\ worker' \in [Replicas -> {"none", "running", "done"}]
         /\ requests' \in [Replicas -> 0 .. MaxRequests]
         /\ open' \in [Replicas -> SUBSET Resources] /\ abandoned' \in [Replicas -> BOOLEAN]
BY DeployAssumption DEF TypeOK, Gone, Goto, Labels

\* A statement that outlives its client.
LEMMA OrphanedType ==
  ASSUME TypeOK, NEW r \in Replicas, Orphaned(r)
  PROVE  /\ orphans' \in SUBSET ((Tables \cup Indexes) \X (0 .. NumColumns))
         /\ torn' \in BOOLEAN
<1>1. InFlight(r) \subseteq (Tables \cup Indexes) \X (0 .. NumColumns)
  BY DeployAssumption DEF TypeOK, InFlight
<1>. QED  BY <1>1 DEF TypeOK, Orphaned

\* The steps of Migrate,
LEMMA MigrateType ==
  ASSUME TypeOK, NEW r \in Replicas, Migrate(r)
  PROVE  TypeOK'
<1>. USE DEF database, schema, history, migration, service
<1>1. CASE TableExists(r)
  BY <1>1 DEF TypeOK, TableExists, Goto, Labels, Migrating
<1>2. CASE Create(r)
  <2>1. at[r] \in Tables \cup Indexes
    BY DEF TypeOK
  <2>2. CASE Make(at[r]) /\ Advance(r)
    BY <1>2, <2>1, <2>2, AdvanceType, MakeType DEF TypeOK, Create
  <2>3. CASE Advance(r) /\ UNCHANGED <<columns, indexes>>
    BY <1>2, <2>3, AdvanceType DEF TypeOK, Create
  <2>4. CASE Goto(r, IF at[r] \in Tables THEN "creating" ELSE "indexing")
             /\ UNCHANGED <<columns, indexes, at>>
    BY <1>2, <2>4 DEF TypeOK, Create, Goto, Labels, Migrating, Creating
  <2>. QED  BY <1>2, <2>2, <2>3, <2>4 DEF Create
<1>3. CASE Commit(r)
  <2>1. at[r] \in Tables \cup Indexes
    BY DEF TypeOK
  <2>. QED  BY <1>3, <2>1, AdvanceType, MakeType DEF TypeOK, Commit
<1>4. CASE AddMissingColumns(r)
  <2>1. missing' \in [Replicas -> SUBSET Columns]
    BY <1>4 DEF TypeOK, AddMissingColumns, Missing
  <2>2. pc' \in [Replicas -> Labels] /\ at' \in [Replicas -> Tables \cup Indexes]
    BY <1>4, AdvanceType DEF TypeOK, AddMissingColumns, Goto, Labels, Migrating
  <2>. QED  BY <1>4, <2>1, <2>2 DEF TypeOK, AddMissingColumns
<1>5. CASE AddColumn(r)
  <2>1. /\ missing' \in [Replicas -> SUBSET Columns]
        /\ columns' \in [Tables -> SUBSET Columns]
    <3>1. PICK c \in Columns : /\ columns' = [columns EXCEPT ![at[r]] = @ \cup {c}]
                               /\ missing' = [missing EXCEPT ![r] = @ \ {c}]
      BY <1>5 DEF AddColumn
    <3>2. missing[r] \ {c} \in SUBSET Columns
      BY DEF TypeOK
    <3>3. \A t \in Tables : columns[t] \cup {c} \in SUBSET Columns
      BY DEF TypeOK
    <3>. QED  BY <3>1, <3>2, <3>3 DEF TypeOK
  <2>2. pc' \in [Replicas -> Labels] /\ at' \in [Replicas -> Tables \cup Indexes]
    BY <1>5, AdvanceType DEF TypeOK, AddColumn
  <2>. QED  BY <1>5, <2>1, <2>2 DEF TypeOK, AddColumn
<1>. QED  BY <1>1, <1>2, <1>3, <1>4, <1>5 DEF Migrate

\* the other steps of a process, which leave the schema alone,
LEMMA ProcessType ==
  ASSUME TypeOK, NEW r \in Replicas,
         \/ Unlock(r) \/ Build(r) \/ WorkerReturns(r) \/ Stop(r) \/ Fail(r) \/ AcquireLock(r)
         \/ Open(r) \/ Arrive(r) \/ Finish(r) \/ Signal(r) \/ ListenFails(r)
  PROVE  TypeOK'
<1>. USE DEF database, schema, history, migration, service, Goto, Labels, Migrating, Stopping
<1>1. CASE Unlock(r) \/ AcquireLock(r)
  BY <1>1 DEF TypeOK, Unlock, Unlocked, AcquireLock
<1>2. CASE Build(r) \/ WorkerReturns(r) \/ Open(r) \/ Release(r)
  <2>1. {"db"} \in SUBSET Resources /\ Resources \in SUBSET Resources
    BY DEF Resources
  <2>2. open' \in [Replicas -> SUBSET Resources]
    BY <1>2, <2>1 DEF TypeOK, Build, WorkerReturns, Open, Release
  <2>3. worker' \in [Replicas -> {"none", "running", "done"}]
    BY <1>2 DEF TypeOK, Build, WorkerReturns, Open, Release
  <2>4. pc' \in [Replicas -> Labels]
    BY <1>2 DEF TypeOK, Build, WorkerReturns, Open, Release
  <2>. QED  BY <1>2, <2>2, <2>3, <2>4 DEF TypeOK, Build, WorkerReturns, Open, Release
<1>3. CASE Arrive(r) \/ Finish(r)
  <2>1. requests' \in [Replicas -> 0 .. MaxRequests]
    <3>1. requests[r] \in 0 .. MaxRequests
      BY DEF TypeOK
    <3>2. CASE Arrive(r)
      <4>1. requests[r] + 1 \in 0 .. MaxRequests
        BY <3>1, <3>2, DeployAssumption DEF Arrive
      <4>. QED  BY <3>2, <4>1 DEF TypeOK, Arrive
    <3>3. CASE Finish(r)
      <4>1. requests[r] - 1 \in 0 .. MaxRequests
        BY <3>1, <3>3, DeployAssumption DEF Finish
      <4>. QED  BY <3>3, <4>1 DEF TypeOK, Finish
    <3>. QED  BY <1>3, <3>2, <3>3
  <2>. QED  BY <1>3, <2>1 DEF TypeOK, Arrive, Finish
<1>4. CASE Signal(r) \/ ListenFails(r)
  BY <1>4 DEF TypeOK, Signal, ListenFails, BeforeRelease
<1>5. CASE Shutdown(r) \/ Drained(r) \/ Wait(r)
  <2>1. pc' \in [Replicas -> Labels]
    BY <1>5 DEF TypeOK, Shutdown, Drained, Wait, BeforeRelease
  <2>2. abandoned' \in [Replicas -> BOOLEAN]
    <3>1. (requests[r] > 0) \in BOOLEAN
      OBVIOUS
    <3>. QED  BY <1>5, <3>1, Zenon DEF TypeOK, Shutdown, Drained, Wait
  <2>. QED  BY <1>5, <2>1, <2>2 DEF TypeOK, Shutdown, Drained, Wait
<1>6. CASE CloseDB(r)
  BY <1>6, GoneType DEF TypeOK, CloseDB
<1>7. CASE Fail(r)
  <2>1. /\ orphans' \in SUBSET ((Tables \cup Indexes) \X (0 .. NumColumns))
        /\ torn' \in BOOLEAN
    BY <1>7, OrphanedType DEF TypeOK, Fail
  <2>2. collided' \in BOOLEAN
    BY <1>7 DEF TypeOK, Fail
  <2>3. 1 \in Tables
    BY DeployAssumption
  <2>. QED  BY <1>7, <2>1, <2>2, <2>3 DEF TypeOK, Fail, Unlocked
<1>. QED  BY <1>1, <1>2, <1>3, <1>4, <1>5, <1>6, <1>7 DEF Stop

\* and the faults.
LEMMA FaultType ==
  ASSUME TypeOK,
         \/ SessionEnds \/ OrphanEnds
         \/ \E r \in Replicas : Crash(r) \/ LoseConnection(r)
  PROVE  TypeOK'
<1>. USE DEF database, schema, history, migration, service
<1>1. CASE SessionEnds
  BY <1>1 DEF TypeOK, SessionEnds
<1>2. CASE OrphanEnds
  <2>1. PICK s \in orphans :
          /\ orphans' = orphans \ {s}
          /\ \/ UNCHANGED <<columns, indexes>>
             \/ s[2] = Whole /\ ~Made(s[1]) /\ Make(s[1])
             \/ /\ s[2] # Whole /\ UNCHANGED indexes
                /\ columns' = [columns EXCEPT ![s[1]] = @ \cup {s[2]}]
    BY <1>2 DEF OrphanEnds
  <2>2. s[1] \in Tables \cup Indexes /\ s[2] \in 0 .. NumColumns
    BY DEF TypeOK
  <2>3. columns' \in [Tables -> SUBSET Columns] /\ indexes' \in SUBSET Indexes
    <3>1. CASE s[2] = Whole /\ ~Made(s[1]) /\ Make(s[1])
      BY <2>2, <3>1, MakeType
    <3>2. CASE s[2] # Whole /\ UNCHANGED indexes
               /\ columns' = [columns EXCEPT ![s[1]] = @ \cup {s[2]}]
      <4>1. s[2] \in Columns
        BY <2>2, <3>2, DeployAssumption
      <4>. QED  BY <3>2, <4>1 DEF TypeOK
    <3>. QED  BY <2>1, <3>1, <3>2 DEF TypeOK
  <2>. QED  BY <1>2, <2>1, <2>3 DEF TypeOK, OrphanEnds
<1>3. ASSUME NEW r \in Replicas, Crash(r) PROVE TypeOK'
  <2>1. /\ orphans' \in SUBSET ((Tables \cup Indexes) \X (0 .. NumColumns))
        /\ torn' \in BOOLEAN
    BY <1>3, OrphanedType DEF TypeOK, Crash
  <2>. QED  BY <1>3, <2>1, GoneType DEF TypeOK, Crash
<1>4. ASSUME NEW r \in Replicas, LoseConnection(r) PROVE TypeOK'
  BY <1>4 DEF TypeOK, LoseConnection
<1>. QED  BY <1>1, <1>2, <1>3, <1>4

LEMMA NextType == TypeOK /\ [Next]_vars => TypeOK'
<1>. SUFFICES ASSUME TypeOK, [Next]_vars PROVE TypeOK'
  OBVIOUS
<1>1. CASE UNCHANGED vars
  BY <1>1 DEF TypeOK, vars
<1>2. CASE Next
  BY <1>2, MigrateType, ProcessType, FaultType DEF Next, Run
<1>. QED  BY <1>1, <1>2

LEMMA InitType == Init => TypeOK
<1>. SUFFICES ASSUME Init PROVE TypeOK
  OBVIOUS
<1>1. 1 \in Tables /\ 0 \in 0 .. MaxRequests
  BY DeployAssumption
<1>2. "down" \in Labels
  BY DEF Labels
<1>3. pc \in [Replicas -> Labels] /\ at \in [Replicas -> Tables \cup Indexes]
  BY <1>1, <1>2 DEF Init
<1>4. /\ missing \in [Replicas -> SUBSET Columns]
      /\ worker \in [Replicas -> {"none", "running", "done"}]
      /\ requests \in [Replicas -> 0 .. MaxRequests]
      /\ open \in [Replicas -> SUBSET Resources]
  BY <1>1 DEF Init
<1>5. cancelled \in [Replicas -> BOOLEAN] /\ abandoned \in [Replicas -> BOOLEAN]
  BY DEF Init
<1>6. orphans \in SUBSET ((Tables \cup Indexes) \X (0 .. NumColumns))
  BY DEF Init
<1>. QED  BY <1>3, <1>4, <1>5, <1>6 DEF Init, TypeOK

-----------------------------------------------------------------------------
(* The schema only grows.                                                  *)

\* A table is made whole, and nothing is ever dropped.
Grows ==
  /\ \A t \in Tables : columns[t] \subseteq columns'[t]
  /\ \A t \in Tables : columns'[t] \in {{}, Columns} \/ columns[t] # {}
  /\ indexes \subseteq indexes'

LEMMA MakeGrows ==
  ASSUME TypeOK, NEW p \in Tables \cup Indexes, Make(p)
  PROVE  Grows /\ Ready(p)'
BY DEF TypeOK, Make, MakeTable, MakeIndex, Grows, Ready

LEMMA StepGrows ==
  ASSUME TypeOK, OrphansInv, \A r \in Replicas : SchemaInv(r), [Next]_vars
  PROVE  Grows
<1>. USE DEF database, schema, history, migration, service
<1>0. UNCHANGED <<columns, indexes>> => Grows
  BY DEF Grows, TypeOK
<1>1. CASE UNCHANGED vars
  BY <1>0, <1>1 DEF vars
<1>2. ASSUME NEW r \in Replicas, Create(r) \/ Commit(r) PROVE Grows
  <2>1. at[r] \in Tables \cup Indexes
    BY DEF TypeOK
  <2>. QED  BY <1>0, <1>2, <2>1, MakeGrows DEF Create, Commit
<1>3. ASSUME NEW r \in Replicas, AddColumn(r) PROVE Grows
  <2>1. PICK c \in Columns : columns' = [columns EXCEPT ![at[r]] = @ \cup {c}]
    BY <1>3 DEF AddColumn
  <2>2. at[r] \in Tables /\ columns[at[r]] # {}
    BY <1>3 DEF SchemaInv, AddColumn, Runs, Migrating, AtTable
  <2>3. \A t \in Tables : columns'[t] = IF t = at[r] THEN columns[t] \cup {c} ELSE columns[t]
    BY <2>1, <2>2 DEF TypeOK
  <2>4. \A t \in Tables : columns[t] = {} => columns'[t] = {}
    BY <2>2, <2>3
  <2>. QED  BY <1>3, <2>3, <2>4 DEF Grows, AddColumn
<1>4. CASE OrphanEnds
  <2>1. PICK s \in orphans :
          \/ UNCHANGED <<columns, indexes>>
          \/ s[2] = Whole /\ ~Made(s[1]) /\ Make(s[1])
          \/ /\ s[2] # Whole /\ UNCHANGED indexes
             /\ columns' = [columns EXCEPT ![s[1]] = @ \cup {s[2]}]
    BY <1>4 DEF OrphanEnds
  <2>2. s[1] \in Tables \cup Indexes
    BY DEF TypeOK
  <2>3. CASE s[2] # Whole /\ UNCHANGED indexes
             /\ columns' = [columns EXCEPT ![s[1]] = @ \cup {s[2]}]
    <3>1. s[1] \in Tables /\ columns[s[1]] # {}
      BY <2>3 DEF OrphansInv
    <3>2. \A t \in Tables : columns'[t] = IF t = s[1] THEN columns[t] \cup {s[2]} ELSE columns[t]
      BY <2>3, <3>1 DEF TypeOK
    <3>3. \A t \in Tables : columns[t] = {} => columns'[t] = {}
      BY <3>1, <3>2
    <3>. QED  BY <2>3, <3>2, <3>3 DEF Grows
  <2>. QED  BY <1>0, <2>1, <2>2, <2>3, MakeGrows
<1>5. ASSUME NEW r \in Replicas,
             \/ TableExists(r) \/ AddMissingColumns(r) \/ Unlock(r) \/ Build(r)
             \/ WorkerReturns(r) \/ Stop(r) \/ Fail(r) \/ AcquireLock(r) \/ Open(r)
             \/ Arrive(r) \/ Finish(r) \/ Signal(r) \/ ListenFails(r) \/ Crash(r)
             \/ LoseConnection(r)
      PROVE  UNCHANGED <<columns, indexes>>
  BY <1>5 DEF TableExists, AddMissingColumns, Unlock, Build, WorkerReturns, Stop, Shutdown,
              Drained, Wait, Release, CloseDB, Fail, AcquireLock, Open, Arrive, Finish, Signal,
              ListenFails, Crash, LoseConnection
<1>6. SessionEnds => UNCHANGED <<columns, indexes>>
  BY DEF SessionEnds
<1>. QED  BY <1>0, <1>1, <1>2, <1>3, <1>4, <1>5, <1>6 DEF Next, Run, Migrate

-----------------------------------------------------------------------------
(* What a migration has passed is complete.                                *)

\* What is complete stays so.
LEMMA ReadyKept ==
  ASSUME TypeOK, TypeOK', Grows
  PROVE  /\ \A p \in Tables \cup Indexes : Ready(p) => Ready(p)'
         /\ Complete => Complete'
<1>1. \A p \in Tables \cup Indexes : Ready(p) => Ready(p)'
  BY DEF TypeOK, Grows, Ready
<1>2. Complete => Complete'
  BY DEF TypeOK, Grows, Complete
<1>. QED  BY <1>1, <1>2

\* A process that does nothing keeps what it relies on.
LEMMA SchemaKept ==
  ASSUME TypeOK, TypeOK', Grows, NEW q \in Replicas, SchemaInv(q),
         pc'[q] = pc[q], at'[q] = at[q], missing'[q] = missing[q],
         requests'[q] > 0 => requests[q] > 0 \/ pc[q] = "serve",
         worker'[q] = "running" => worker[q] = "running"
  PROVE  SchemaInv(q)'
<1>1. at[q] \in Tables \cup Indexes
  BY DEF TypeOK
<1>2. pc[q] \in Migrating => \A p \in 1 .. at[q] - 1 : Ready(p)'
  <2>1. \A p \in 1 .. at[q] - 1 : p \in Tables \cup Indexes
    BY <1>1, DeployAssumption
  <2>. QED  BY <2>1, ReadyKept DEF SchemaInv
<1>3. pc[q] \in {"create", "creating"} => columns'[at[q]] \in {{}, Columns}
  <2>1. pc[q] \in {"create", "creating"} => at[q] \in Tables
    BY DEF SchemaInv, Migrating, Creating, AtTable
  <2>. QED  BY <2>1 DEF SchemaInv, Grows, TypeOK
<1>4. pc[q] \in {"columns", "alter"} => columns[at[q]] \subseteq columns'[at[q]]
  BY DEF SchemaInv, Migrating, AtTable, Grows
<1>. QED  BY <1>2, <1>3, <1>4, ReadyKept DEF SchemaInv

\* Nor does one that has left Migrate without having come through rely on anything.
LEMMA SchemaLeft ==
  ASSUME TypeOK, TypeOK', Grows, NEW r \in Replicas, SchemaInv(r),
         pc'[r] \notin Migrating, at'[r] = 1, pc'[r] \in {"unlock", "build", "serve"} => Complete,
         requests'[r] > 0 => requests[r] > 0, worker'[r] = "running" => worker[r] = "running"
            \/ Complete
  PROVE  SchemaInv(r)'
BY ReadyKept DEF SchemaInv, Migrating, Creating

\* One that is through with a table or index goes on to the next, and behind the last
\* one everything is complete.
LEMMA AdvanceInv ==
  ASSUME TypeOK, TypeOK', Grows, NEW r \in Replicas, SchemaInv(r), pc[r] \in Migrating,
         NEW here, here = at[r], Ready(here)', Advance(r),
         requests'[r] = requests[r], worker'[r] = worker[r]
  PROVE  SchemaInv(r)'
<1>1. at[r] \in Tables \cup Indexes
  BY DEF TypeOK
<1>2. \A p \in 1 .. at[r] : Ready(p)'
  <2>1. \A p \in 1 .. at[r] - 1 : Ready(p)
    BY DEF SchemaInv
  <2>2. \A p \in 1 .. at[r] : p \in Tables \cup Indexes /\ (p \in 1 .. at[r] - 1 \/ p = at[r])
    BY <1>1, DeployAssumption
  <2>. QED  BY <2>1, <2>2, ReadyKept
<1>3. CASE at[r] + 1 \in Tables \cup Indexes
  <2>1. /\ at'[r] = at[r] + 1
        /\ pc'[r] = IF at[r] + 1 \in Tables THEN "exists" ELSE "index"
    BY <1>3 DEF Advance, Goto, TypeOK
  <2>2. \A p \in 1 .. at'[r] - 1 : Ready(p)'
    BY <1>1, <1>2, <2>1, DeployAssumption
  <2>3. at'[r] \in IF pc'[r] \in AtTable THEN Tables ELSE Indexes
    BY <1>3, <2>1 DEF AtTable
  <2>4. pc'[r] \in Migrating
    BY <2>1 DEF Migrating
  <2>. QED  BY <2>1, <2>2, <2>3, <2>4, ReadyKept DEF SchemaInv
<1>4. CASE at[r] + 1 \notin Tables \cup Indexes
  <2>1. pc'[r] \in {"unlock", "build"} /\ at'[r] = 1
    BY <1>4 DEF Advance, Goto, TypeOK
  <2>2. Complete'
    <3>1. \A p \in Tables \cup Indexes : p \in 1 .. at[r]
      BY <1>1, <1>4, DeployAssumption
    <3>2. \A p \in Tables \cup Indexes : Ready(p)'
      BY <1>2, <3>1
    <3>3. \A p \in Indexes : p \notin Tables
      BY DeployAssumption
    <3>. QED  BY <3>2, <3>3 DEF Complete, Ready, TypeOK
  <2>. QED  BY <2>1, <2>2 DEF SchemaInv, Migrating, Creating
<1>. QED  BY <1>3, <1>4

\* The steps of Migrate.
LEMMA MigrateSchema ==
  ASSUME TypeOK, TypeOK', Grows, NEW r \in Replicas, SchemaInv(r), Migrate(r)
  PROVE  SchemaInv(r)'
<1>. USE DEF database, schema, history, migration, service, Goto
<1>0. PICK here \in Tables \cup Indexes : here = at[r]
  BY DEF TypeOK
<1>1. CASE TableExists(r)
  <2>1. /\ pc[r] = "exists" /\ UNCHANGED <<columns, indexes, at, missing, requests, worker>>
        /\ pc'[r] = IF columns[at[r]] # {} THEN "columns" ELSE "create"
    BY <1>1 DEF TableExists, Runs, TypeOK
  <2>. QED  BY <2>1, ReadyKept DEF SchemaInv, Ready, Complete, Migrating, Creating, AtTable
<1>2. CASE Create(r)
  <2>1. pc[r] \in Migrating /\ pc[r] \in {"create", "index"} /\ UNCHANGED <<requests, worker>>
    BY <1>2 DEF Create, Runs, Migrating
  <2>2. CASE Made(at[r]) /\ Advance(r) /\ UNCHANGED <<columns, indexes>>
    <3>1. Ready(here)
      <4>1. here \in Tables => pc[r] = "create"
        BY <1>0, <2>1, DeployAssumption DEF SchemaInv, AtTable
      <4>. QED  BY <1>0, <2>1, <2>2, <4>1 DEF Made, Ready, SchemaInv
    <3>. QED  BY <1>0, <2>1, <2>2, <3>1, AdvanceInv, ReadyKept
  <2>3. CASE Make(at[r]) /\ Advance(r)
    BY <1>0, <2>1, <2>3, AdvanceInv, MakeGrows
  <2>4. CASE /\ ~Made(at[r]) /\ UNCHANGED <<columns, indexes, at>>
             /\ Goto(r, IF at[r] \in Tables THEN "creating" ELSE "indexing")
    <3>1. pc'[r] = IF at[r] \in Tables THEN "creating" ELSE "indexing"
      BY <2>4 DEF TypeOK
    <3>2. at[r] \in Tables <=> pc[r] = "create"
      BY <1>0, <2>1, DeployAssumption DEF SchemaInv, AtTable
    <3>3. at'[r] \in IF pc'[r] \in AtTable THEN Tables ELSE Indexes
      <4>1. at'[r] = here
        BY <1>0, <2>4
      <4>2. pc'[r] \in AtTable <=> here \in Tables
        BY <1>0, <3>1 DEF AtTable
      <4>. QED  BY <1>0, <4>1, <4>2
    <3>4. \A p \in 1 .. at[r] - 1 : Ready(p)'
      BY <2>1, <2>4 DEF SchemaInv, Ready
    <3>5. Complete <=> Complete'
      BY <2>4 DEF Complete
    <3>6. pc'[r] \in Migrating
      BY <3>1 DEF Migrating, Creating
    <3>. QED  BY <2>1, <2>4, <3>1, <3>2, <3>3, <3>4, <3>5, <3>6 DEF SchemaInv
  <2>. QED  BY <1>2, <2>2, <2>3, <2>4 DEF Create
<1>3. CASE Commit(r)
  <2>1. pc[r] \in Migrating /\ UNCHANGED <<requests, worker>>
    BY <1>3 DEF Commit, Runs, Migrating, Creating
  <2>. QED  BY <1>0, <1>3, <2>1, AdvanceInv, MakeGrows DEF Commit
<1>4. CASE AddMissingColumns(r)
  <2>1. /\ pc[r] = "columns" /\ at[r] \in Tables /\ missing'[r] = Columns \ columns[at[r]]
        /\ UNCHANGED <<columns, indexes, requests, worker>>
    BY <1>4 DEF AddMissingColumns, Missing, Runs, TypeOK, SchemaInv, Migrating, AtTable
  <2>2. CASE missing'[r] = {} /\ Advance(r)
    <3>1. Ready(here)'
      BY <1>0, <2>1, <2>2 DEF Ready, TypeOK
    <3>. QED  BY <1>0, <2>1, <2>2, <3>1, AdvanceInv DEF Migrating
  <2>3. CASE missing'[r] # {} /\ Goto(r, "alter") /\ UNCHANGED at
    <3>1. pc'[r] = "alter"
      BY <2>3 DEF TypeOK
    <3>. QED  BY <2>1, <2>3, <3>1 DEF SchemaInv, Ready, Complete, Migrating, Creating, AtTable
  <2>. QED  BY <1>4, <2>2, <2>3 DEF AddMissingColumns
<1>5. CASE AddColumn(r)
  <2>1. PICK c \in Columns : /\ columns' = [columns EXCEPT ![at[r]] = @ \cup {c}]
                             /\ missing' = [missing EXCEPT ![r] = @ \ {c}]
    BY <1>5 DEF AddColumn
  <2>2. /\ pc[r] = "alter" /\ at[r] \in Tables /\ columns[at[r]] # {}
        /\ Columns \ missing[r] \subseteq columns[at[r]]
        /\ UNCHANGED <<indexes, requests, worker>>
    BY <1>5 DEF AddColumn, Runs, SchemaInv, Migrating, AtTable
  <2>3. /\ columns'[here] = columns[here] \cup {c}
        /\ missing'[r] = missing[r] \ {c}
    BY <1>0, <2>1, <2>2 DEF TypeOK
  <2>4. Columns \ missing'[r] \subseteq columns'[here]
    BY <1>0, <2>2, <2>3
  <2>5. CASE missing'[r] = {} /\ Advance(r)
    <3>1. Ready(here)'
      <4>1. columns'[here] = Columns
        BY <1>0, <2>2, <2>4, <2>5 DEF TypeOK
      <4>. QED  BY <1>0, <2>2, <4>1 DEF Ready
    <3>. QED  BY <1>0, <2>2, <2>5, <3>1, AdvanceInv DEF Migrating
  <2>6. CASE missing'[r] # {} /\ UNCHANGED <<pc, at>>
    <3>1. \A p \in 1 .. at[r] - 1 : Ready(p)'
      <4>1. \A p \in 1 .. at[r] - 1 : p \in Tables \cup Indexes
        BY <1>0, DeployAssumption
      <4>. QED  BY <2>2, <4>1, ReadyKept DEF SchemaInv, Migrating
    <3>2. columns'[at[r]] # {} /\ Columns \ missing'[r] \subseteq columns'[at[r]]
      BY <1>0, <2>2, <2>3, <2>4
    <3>3. at'[r] \in IF pc'[r] \in AtTable THEN Tables ELSE Indexes
      BY <2>2, <2>6 DEF AtTable
    <3>4. pc'[r] = "alter" /\ at'[r] = at[r]
      BY <2>2, <2>6
    <3>. QED  BY <2>2, <2>6, <3>1, <3>2, <3>3, <3>4, ReadyKept DEF SchemaInv
  <2>. QED  BY <1>5, <2>5, <2>6 DEF AddColumn
<1>. QED  BY <1>1, <1>2, <1>3, <1>4, <1>5 DEF Migrate

\* No step of another process takes away what a process relies on, and its own keep
\* it up.
LEMMA NextSchema ==
  ASSUME TypeOK, TypeOK', OrphansInv, \A r \in Replicas : SchemaInv(r), [Next]_vars,
         NEW q \in Replicas
  PROVE  SchemaInv(q)'
<1>. USE DEF database, schema, history, migration, service, Goto
<1>0. Grows
  BY StepGrows
<1>1. CASE UNCHANGED vars
  BY <1>0, <1>1, SchemaKept DEF vars
<1>2. CASE SessionEnds \/ OrphanEnds
  BY <1>0, <1>2, SchemaKept DEF SessionEnds, OrphanEnds
<1>3. ASSUME NEW r \in Replicas, Migrate(r) PROVE SchemaInv(q)'
  <2>1. CASE q = r
    BY <1>0, <1>3, <2>1, MigrateSchema
  <2>2. CASE q # r
    <3>1. /\ pc'[q] = pc[q] /\ at'[q] = at[q] /\ missing'[q] = missing[q]
          /\ UNCHANGED <<requests, worker>>
      BY <1>3, <2>2 DEF TypeOK, Migrate, TableExists, Create, Commit, AddMissingColumns,
                        AddColumn, Advance
    <3>. QED  BY <1>0, <3>1, SchemaKept
  <2>. QED  BY <2>1, <2>2
<1>4. ASSUME NEW r \in Replicas,
             Arrive(r) \/ Finish(r) \/ Signal(r) \/ WorkerReturns(r) \/ LoseConnection(r)
      PROVE  SchemaInv(q)'
  <2>1. UNCHANGED <<pc, at, missing>>
    BY <1>4 DEF Arrive, Finish, Signal, WorkerReturns, LoseConnection
  <2>2. requests'[q] > 0 => requests[q] > 0 \/ pc[q] = "serve"
    <3>1. requests[q] \in Nat
      BY DeployAssumption DEF TypeOK
    <3>. QED  BY <1>4, <3>1 DEF TypeOK, Arrive, Finish, Signal, WorkerReturns, LoseConnection
  <2>3. worker'[q] = "running" => worker[q] = "running"
    BY <1>4 DEF TypeOK, Arrive, Finish, Signal, WorkerReturns, LoseConnection
  <2>. QED  BY <1>0, <2>1, <2>2, <2>3, SchemaKept
<1>5. ASSUME NEW r \in Replicas,
             \/ Unlock(r) \/ Build(r) \/ Stop(r) \/ Fail(r) \/ ListenFails(r) \/ Crash(r)
      PROVE  SchemaInv(q)'
  <2>1. CASE q = r
    <3>1. pc'[r] \notin Migrating /\ at'[r] = 1
      BY <1>5 DEF TypeOK, Unlock, Build, Stop, Shutdown, Drained, Wait, Release, CloseDB, Fail,
                  ListenFails, Crash, Gone, BeforeRelease, Migrating, Creating,
                  SchemaInv
    <3>2. pc'[r] \in {"unlock", "build", "serve"} => Complete
      BY <1>5 DEF TypeOK, Unlock, Build, Stop, Shutdown, Drained, Wait, Release, CloseDB, Fail,
                  ListenFails, Crash, Gone, BeforeRelease, SchemaInv
    <3>3. requests'[r] > 0 => requests[r] > 0
      BY <1>5 DEF TypeOK, Unlock, Build, Stop, Shutdown, Drained, Wait, Release, CloseDB, Fail,
                  ListenFails, Crash, Gone
    <3>4. worker'[r] = "running" => worker[r] = "running" \/ Complete
      BY <1>5 DEF TypeOK, Unlock, Build, Stop, Shutdown, Drained, Wait, Release, CloseDB, Fail,
                  ListenFails, Crash, Gone, SchemaInv
    <3>. QED  BY <1>0, <2>1, <3>1, <3>2, <3>3, <3>4, SchemaLeft
  <2>2. CASE q # r
    <3>1. /\ pc'[q] = pc[q] /\ at'[q] = at[q] /\ missing'[q] = missing[q]
          /\ requests'[q] = requests[q] /\ worker'[q] = worker[q]
      BY <1>5, <2>2 DEF TypeOK, Unlock, Build, Stop, Shutdown, Drained, Wait, Release, CloseDB,
                        Fail, ListenFails, Crash, Gone
    <3>. QED  BY <1>0, <3>1, SchemaKept
  <2>. QED  BY <2>1, <2>2
<1>6. ASSUME NEW r \in Replicas, Open(r) \/ AcquireLock(r) PROVE SchemaInv(q)'
  <2>1. UNCHANGED <<columns, indexes, at, missing, requests, worker>>
    BY <1>6 DEF Open, AcquireLock
  <2>2. CASE q = r
    <3>1. at'[r] = 1 /\ pc'[r] \in {"lock", "exists"}
      BY <1>6, <2>1 DEF TypeOK, Open, AcquireLock, SchemaInv, Migrating, Creating
    <3>2. 1 \in Tables /\ \A p \in 1 .. 1 - 1 : Ready(p)'
      BY DeployAssumption
    <3>3. requests'[r] > 0 \/ worker'[r] = "running" => Complete'
      BY <2>1 DEF SchemaInv, Complete
    <3>. QED  BY <2>2, <3>1, <3>2, <3>3 DEF SchemaInv, Migrating, Creating, AtTable
  <2>3. CASE q # r
    <3>1. pc'[q] = pc[q]
      BY <1>6, <2>3 DEF TypeOK, Open, AcquireLock
    <3>. QED  BY <1>0, <2>1, <3>1, SchemaKept
  <2>. QED  BY <2>2, <2>3
<1>. QED  BY <1>1, <1>2, <1>3, <1>4, <1>5, <1>6 DEF Next, Run

\* A statement that outlives its client adds to a table that is there.
LEMMA NextOrphans ==
  ASSUME TypeOK, OrphansInv, \A r \in Replicas : SchemaInv(r), [Next]_vars
  PROVE  OrphansInv'
<1>. USE DEF database, schema, history, migration, service
<1>1. ASSUME NEW s \in orphans', s[2] # Whole, s \in orphans
      PROVE  s[1] \in Tables /\ columns'[s[1]] # {}
  BY <1>1, StepGrows DEF OrphansInv, Grows
<1>2. ASSUME NEW s \in orphans', s[2] # Whole, NEW r \in Replicas, s \in InFlight(r)
      PROVE  s[1] \in Tables /\ columns'[s[1]] # {}
  <2>1. pc[r] = "alter" /\ s[1] = at[r]
    BY <1>2 DEF InFlight
  <2>2. s[1] \in Tables /\ columns[s[1]] # {}
    BY <2>1 DEF SchemaInv, Migrating, AtTable
  <2>. QED  BY <2>2, StepGrows DEF Grows
<1>3. \/ orphans' \subseteq orphans
      \/ \E r \in Replicas : orphans' \subseteq orphans \cup InFlight(r)
  <2>1. ASSUME NEW r \in Replicas, Orphaned(r)
        PROVE  orphans' \subseteq orphans \cup InFlight(r)
    BY <2>1 DEF Orphaned
  <2>2. ASSUME NEW r \in Replicas, Fail(r) \/ Crash(r)
        PROVE  orphans' = orphans \/ Orphaned(r)
    BY <2>2 DEF Fail, Crash
  <2>3. OrphanEnds => orphans' \subseteq orphans
    BY DEF OrphanEnds
  <2>4. SessionEnds \/ UNCHANGED vars => orphans' = orphans
    BY DEF SessionEnds, vars
  <2>5. ASSUME NEW r \in Replicas,
               \/ Migrate(r) \/ Unlock(r) \/ Build(r) \/ WorkerReturns(r) \/ Stop(r)
               \/ AcquireLock(r) \/ Open(r) \/ Arrive(r) \/ Finish(r) \/ Signal(r)
               \/ ListenFails(r) \/ LoseConnection(r)
        PROVE  orphans' = orphans
    BY <2>5 DEF Migrate, TableExists, Create, Commit, AddMissingColumns, AddColumn, Unlock,
                Build, WorkerReturns, Stop, Shutdown, Drained, Wait, Release, CloseDB,
                AcquireLock, Open, Arrive, Finish, Signal, ListenFails, LoseConnection
  <2>. QED  BY <2>1, <2>2, <2>3, <2>4, <2>5 DEF Next, Run
<1>. QED  BY <1>1, <1>2, <1>3 DEF OrphansInv

-----------------------------------------------------------------------------
(* Who migrates has the lock.                                              *)

\* Steps that leave the schema alone and let nobody into Migrate on Postgres.
LEMMA LockKept ==
  ASSUME TypeOK, LockInv, ~collided',
         UNCHANGED <<dialect, columns, indexes>>, ~torn' => ~torn /\ orphans' = orphans,
         \A q \in Replicas : pc'[q] \in Migrating =>
           \/ pc'[q] = pc[q] /\ at'[q] = at[q] /\ (lock = q => lock' = q)
           \/ pc'[q] \notin Creating /\ dialect = "sqlite"
  PROVE  LockInv'
<1>1. ASSUME ~torn', NEW q \in Replicas, dialect' = "postgres", pc'[q] \in Migrating
      PROVE  lock' = q
  BY <1>1 DEF LockInv
<1>2. ASSUME ~torn', NEW q \in Replicas, pc'[q] \in Creating
      PROVE  dialect' = "postgres" /\ ~Made(at[q])' /\ at'[q] = at[q]
  BY <1>2 DEF LockInv, Made, Migrating
<1>3. ASSUME ~torn', NEW q \in Replicas, pc'[q] \in Creating
      PROVE  dialect' = "postgres" /\ ~Made(at[q])'
  BY <1>2, <1>3
<1>. QED  BY <1>1, <1>3 DEF LockInv

\* On Postgres nobody else migrates next to a migration, so what is being made is not
\* made meanwhile.
LEMMA MigrateLock ==
  ASSUME TypeOK, TypeOK', LockInv, NEW r \in Replicas, Migrate(r)
  PROVE  LockInv'
<1>. USE DEF database, schema, history, migration, service, Goto
<1>1. /\ UNCHANGED <<dialect, lock, orphans, collided, torn>>
      /\ pc[r] \in Migrating
      /\ \A q \in Replicas \ {r} : pc'[q] = pc[q]
  BY DEF TypeOK, Migrate, TableExists, Create, Commit, AddMissingColumns, AddColumn, Advance,
         Runs, Migrating, Creating
<1>2. ASSUME ~torn, NEW q \in Replicas, dialect = "postgres", pc'[q] \in Migrating
      PROVE  lock' = q
  <2>1. lock = r
    BY <1>1, <1>2 DEF LockInv
  <2>. QED  BY <1>1, <1>2, <2>1 DEF LockInv
<1>3. ASSUME ~torn, NEW q \in Replicas, pc'[q] \in Creating
      PROVE  dialect = "postgres" /\ ~Made(at[q])'
  <2>1. CASE q = r
    <3>1. /\ dialect = "postgres" /\ ~Made(at[r]) /\ UNCHANGED <<columns, indexes, at>>
      BY <1>3, <2>1 DEF TypeOK, Migrate, TableExists, Create, Commit, AddMissingColumns,
                        AddColumn, Advance, Runs, Creating
    <3>. QED  BY <2>1, <3>1 DEF Made
  <2>2. CASE q # r
    <3>1. pc[q] \in Creating /\ dialect = "postgres"
      BY <1>1, <1>3, <2>2 DEF LockInv
    <3>2. lock = q /\ lock = r
      BY <1>1, <1>3, <3>1 DEF LockInv, Migrating
    <3>. QED  BY <2>2, <3>2
  <2>. QED  BY <2>1, <2>2
<1>. QED  BY <1>1, <1>2, <1>3 DEF LockInv

\* Nobody takes the lock while another one migrates, and nobody gives it up too early
\* unless a fault makes him.
LEMMA NextLock ==
  ASSUME TypeOK, TypeOK', LockInv, [Next]_vars
  PROVE  LockInv'
<1>. USE DEF database, schema, history, migration, service, Goto
<1>1. CASE UNCHANGED vars
  BY <1>1, LockKept DEF vars, LockInv
<1>2. CASE SessionEnds
  BY <1>2, LockKept, DeployAssumption DEF SessionEnds, LockInv
<1>3. CASE OrphanEnds
  <2>1. torn /\ torn' /\ ~collided'
    BY <1>3 DEF OrphanEnds, LockInv
  <2>. QED  BY <2>1 DEF LockInv
<1>4. ASSUME NEW r \in Replicas, Migrate(r) PROVE LockInv'
  BY <1>4, MigrateLock
<1>5. ASSUME NEW r \in Replicas, AcquireLock(r) PROVE LockInv'
  <2>1. CASE torn
    BY <1>5, <2>1 DEF AcquireLock, LockInv
  <2>2. CASE ~torn
    <3>1. lock = Free /\ lock' = r /\ pc' = [pc EXCEPT ![r] = "exists"]
          /\ UNCHANGED <<dialect, columns, indexes, orphans, torn, collided, at>>
      BY <1>5 DEF AcquireLock
    <3>2. \A q \in Replicas : dialect = "postgres" => pc[q] \notin Migrating
      BY <2>2, <3>1, DeployAssumption DEF LockInv
    <3>3. \A q \in Replicas : pc'[q] = IF q = r THEN "exists" ELSE pc[q]
      BY <3>1 DEF TypeOK
    <3>4. \A q \in Replicas : pc'[q] \notin Creating
      BY <2>2, <3>2, <3>3 DEF LockInv, Migrating, Creating
    <3>. QED  BY <2>2, <3>1, <3>2, <3>3, <3>4 DEF LockInv
  <2>. QED  BY <2>1, <2>2
<1>6. ASSUME NEW r \in Replicas, LoseConnection(r) PROVE LockInv'
  BY <1>6 DEF LoseConnection, LockInv
<1>7. ASSUME NEW r \in Replicas, Fail(r) \/ Crash(r) PROVE LockInv'
  <2>1. ~collided'
    BY <1>7 DEF Fail, Crash, Beaten, LockInv
  <2>2. ~torn' => ~torn /\ orphans' = orphans
    BY <1>7 DEF Fail, Crash, Orphaned, TypeOK
  <2>3. pc'[r] \in {"release", "down"}
        /\ \A q \in Replicas \ {r} : /\ pc'[q] = pc[q] /\ at'[q] = at[q]
                                     /\ lock = q => lock' = q
    BY <1>7 DEF TypeOK, Fail, Crash, Gone, Unlocked
  <2>4. UNCHANGED <<dialect, columns, indexes>>
    BY <1>7 DEF Fail, Crash
  <2>. QED  BY <2>1, <2>2, <2>3, <2>4, LockKept DEF Migrating, Creating
<1>8. ASSUME NEW r \in Replicas,
             \/ Unlock(r) \/ Build(r) \/ WorkerReturns(r) \/ Stop(r) \/ Open(r) \/ Arrive(r)
             \/ Finish(r) \/ Signal(r) \/ ListenFails(r)
      PROVE  LockInv'
  <2>1. UNCHANGED <<dialect, columns, indexes, orphans, torn, collided>>
    BY <1>8 DEF Unlock, Build, WorkerReturns, Stop, Shutdown, Drained, Wait, Release, CloseDB,
                Open, Arrive, Finish, Signal, ListenFails
  <2>2. ASSUME NEW q \in Replicas, q # r
        PROVE  pc'[q] = pc[q] /\ at'[q] = at[q] /\ (lock = q => lock' = q)
    BY <1>8, <2>2 DEF TypeOK, Unlock, Unlocked, Build, WorkerReturns, Stop, Shutdown, Drained,
         Wait, Release, CloseDB, Gone, Open, Arrive, Finish, Signal, ListenFails
  <2>3. pc'[r] \in Migrating =>
          \/ pc'[r] = pc[r] /\ at'[r] = at[r] /\ lock' = lock
          \/ pc'[r] = "exists" /\ dialect = "sqlite"
    BY <1>8 DEF TypeOK, Unlock, Unlocked, Build, WorkerReturns, Stop, Shutdown, Drained,
         Wait, Release, CloseDB, Gone, Open, Arrive, Finish, Signal, ListenFails, BeforeRelease,
         Migrating, Creating
  <2>. QED  BY <2>1, <2>2, <2>3, LockKept DEF LockInv, Creating
<1>. QED  BY <1>1, <1>2, <1>3, <1>4, <1>5, <1>6, <1>7, <1>8 DEF Next, Run

-----------------------------------------------------------------------------
(* Nothing is closed too early.                                            *)

LEMMA NextService ==
  ASSUME TypeOK, TypeOK', \A r \in Replicas : ServiceInv(r), [Next]_vars, NEW q \in Replicas
  PROVE  ServiceInv(q)'
<1>. USE DEF database, schema, history, migration, service, Goto
<1>1. CASE /\ pc'[q] = pc[q] /\ worker'[q] = worker[q] /\ requests'[q] = requests[q]
           /\ open'[q] = open[q] /\ abandoned'[q] = abandoned[q]
  BY <1>1 DEF ServiceInv
<1>2. CASE SessionEnds \/ OrphanEnds \/ UNCHANGED vars
  BY <1>1, <1>2 DEF SessionEnds, OrphanEnds, vars
<1>3. ASSUME NEW r \in Replicas, Migrate(r) PROVE ServiceInv(q)'
  <2>1. UNCHANGED <<worker, requests, open, abandoned>>
    BY <1>3 DEF Migrate, TableExists, Create, Commit, AddMissingColumns, AddColumn
  <2>2. CASE q = r
    <3>1. pc[r] \in Migrating /\ pc'[r] \in Migrating \cup {"unlock", "build"}
      BY <1>3 DEF TypeOK, Migrate, TableExists, Create, Commit, AddMissingColumns, AddColumn,
                  Advance, Runs, Migrating, Creating
    <3>. QED  BY <2>1, <2>2, <3>1 DEF ServiceInv, Migrating, Creating
  <2>3. CASE q # r
    <3>1. pc'[q] = pc[q]
      BY <1>3, <2>3 DEF TypeOK, Migrate, TableExists, Create, Commit, AddMissingColumns,
                        AddColumn, Advance
    <3>. QED  BY <1>1, <2>1, <3>1
  <2>. QED  BY <2>2, <2>3
<1>4. ASSUME NEW r \in Replicas, q # r,
             \/ Unlock(r) \/ Build(r) \/ WorkerReturns(r) \/ Stop(r) \/ Fail(r) \/ AcquireLock(r)
             \/ Open(r) \/ Arrive(r) \/ Finish(r) \/ Signal(r) \/ ListenFails(r) \/ Crash(r)
             \/ LoseConnection(r)
      PROVE  ServiceInv(q)'
  <2>. USE DEF Unlock, Build, WorkerReturns, Stop, Shutdown, Drained, Wait, Release, CloseDB, Fail,
         AcquireLock, Open, Arrive, Finish, Signal, ListenFails, Crash, Gone, LoseConnection
  <2>1. pc'[q] = pc[q]
    BY <1>4 DEF TypeOK
  <2>2. worker'[q] = worker[q] /\ open'[q] = open[q]
    BY <1>4 DEF TypeOK
  <2>3. requests'[q] = requests[q]
    BY <1>4 DEF TypeOK
  <2>4. abandoned'[q] = abandoned[q]
    BY <1>4 DEF TypeOK
  <2>. QED  BY <1>1, <2>1, <2>2, <2>3, <2>4
<1>5. CASE Unlock(q) \/ Fail(q) \/ AcquireLock(q) \/ Open(q) \/ LoseConnection(q) \/ Signal(q)
  BY <1>5 DEF TypeOK, ServiceInv, Unlock, Fail, AcquireLock, Open, LoseConnection, Signal,
              Migrating, Creating
<1>6. CASE Build(q) \/ WorkerReturns(q)
  BY <1>6 DEF TypeOK, ServiceInv, Build, WorkerReturns
<1>7. CASE Arrive(q) \/ Finish(q)
  <2>1. requests[q] \in Nat
    BY DeployAssumption DEF TypeOK
  <2>. QED  BY <1>7, <2>1 DEF TypeOK, ServiceInv, Arrive, Finish
<1>8. CASE ListenFails(q) \/ Shutdown(q)
  BY <1>8 DEF TypeOK, ServiceInv, ListenFails, BeforeRelease, Shutdown
<1>9. CASE Drained(q)
  BY <1>9 DEF TypeOK, ServiceInv, Drained, BeforeRelease
<1>10. CASE Wait(q) \/ Release(q)
  BY <1>10 DEF TypeOK, ServiceInv, Wait, Release
<1>11. CASE CloseDB(q) \/ Crash(q)
  <2>1. pc'[q] = "down" /\ worker'[q] = "none" /\ requests'[q] = 0
    BY <1>11 DEF TypeOK, CloseDB, Crash, Gone
  <2>. QED  BY <2>1 DEF ServiceInv
<1>. QED  BY <1>2, <1>3, <1>4, <1>5, <1>6, <1>7, <1>8, <1>9, <1>10, <1>11 DEF Next, Run, Stop

-----------------------------------------------------------------------------
(* The theorems.                                                           *)

LEMMA InitInv == Init => DeployInv
<1>. SUFFICES ASSUME Init PROVE DeployInv
  OBVIOUS
<1>1. TypeOK
  BY InitType
<1>2. OrphansInv /\ LockInv
  BY DEF Init, OrphansInv, LockInv, Migrating, Creating
<1>3. ASSUME NEW r \in Replicas PROVE SchemaInv(r) /\ ServiceInv(r)
  BY DEF Init, SchemaInv, ServiceInv, Migrating, Creating
<1>. QED  BY <1>1, <1>2, <1>3 DEF DeployInv

\* Every step of every process, every fault among them, keeps the invariant.
THEOREM DeployInvariant == Spec => []DeployInv
<1>1. DeployInv /\ [Next]_vars => DeployInv'
  BY NextType, NextSchema, NextOrphans, NextLock, NextService DEF DeployInv
<1>. QED  BY <1>1, InitInv, PTL DEF Spec

\* Migrate: nothing is served, and no sweep is run, on a database that lacks a table, a
\* column or an index, whoever else migrates, crashes or is cancelled.
THEOREM OnlyCompleteSchemasServed == Spec => []ServesCompleteSchema
<1>1. DeployInv => ServesCompleteSchema
  BY DEF DeployInv, SchemaInv, ServesCompleteSchema
<1>. QED  BY <1>1, DeployInvariant, PTL

\* Migrate: the lock keeps one start from failing on what another one makes.
THEOREM NoStartCollides == Spec => []StartsDoNotCollide
<1>1. DeployInv => StartsDoNotCollide
  BY DEF DeployInv, LockInv, StartsDoNotCollide
<1>. QED  BY <1>1, DeployInvariant, PTL

\* run: the worker and the requests shutdown waits for find everything open.
THEOREM NothingClosedInUse == Spec => []NothingUsedAfterClose
<1>1. DeployInv => NothingUsedAfterClose
  BY DEF DeployInv, ServiceInv, NothingUsedAfterClose
<1>. QED  BY <1>1, DeployInvariant, PTL

=============================================================================
