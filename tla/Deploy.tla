------------------------------ MODULE Deploy ------------------------------
(***************************************************************************)
(* The life of a process, run() of cmd/redrx/main.go, several of them on   *)
(* one database as a rolling deploy has them: each opens the database,     *)
(* migrates it (internal/store/migrate.go) while others may do the same or *)
(* serve already, serves next to its background worker, and releases what  *)
(* it holds.  A table is its set of columns, none when it does not exist;  *)
(* tables and indexes have a position in the order Migrate goes through    *)
(* them.  The rows and what is served are the matter of other modules.     *)
(***************************************************************************)
EXTENDS Naturals, FiniteSets

CONSTANTS
  Replicas,     \* processes; each is started again and again
  NumTables, NumIndexes,
  NumColumns,   \* of every table, as this version declares it
  MaxRequests,  \* bound: requests in flight at one replica
  MaxOrphans,   \* bound: statements at once whose client is gone
  Free, Dead    \* the advisory lock has no holder, or one that crashed

ASSUME DeployAssumption ==
  /\ NumTables \in Nat \ {0} /\ NumIndexes \in Nat \ {0} /\ NumColumns \in Nat \ {0}
  /\ MaxRequests \in Nat \ {0} /\ MaxOrphans \in Nat
  /\ Free # Dead /\ Free \notin Replicas /\ Dead \notin Replicas

Tables == 1 .. NumTables
Indexes == NumTables + 1 .. NumTables + NumIndexes
Columns == 1 .. NumColumns
Whole == 0      \* what a CREATE makes, next to the column of an ALTER
Resources == {"db", "limiter", "geo"}

VARIABLES
  dialect,
  columns,      \* columns[t]: the columns table t has; {}: there is no such table
  indexes,      \* the indexes there are
  lock,         \* pg_advisory_lock: a replica's session, Dead or Free
  orphans,      \* statements the server still executes for a client that is gone
  pc,           \* pc[r]: where run() is
  at,           \* at[r]: the table or index Migrate has come to
  missing,      \* missing[r]: columns of that table to be added
  cancelled,    \* cancelled[r]: the context of run()
  worker,       \* worker[r]: maintainBlocklist
  requests,     \* requests[r]: in flight
  open,         \* open[r]: what is not closed
  abandoned,    \* abandoned[r], history: nobody waits for the requests any more
  torn,         \* history: the lock was given up with a migration or one of its
                \* statements still going on
  collided      \* history: a statement failed on what another start had made, and
                \* the lock had never been given up like that

schema == <<dialect, columns, indexes>>
history == <<torn, collided>>
database == <<schema, lock, orphans, history>>
migration == <<at, missing>>
service == <<worker, requests, open, abandoned>>
vars == <<dialect, columns, indexes, lock, orphans, pc, at, missing, cancelled, worker,
          requests, open, abandoned, torn, collided>>

Creating == {"creating", "indexing"}    \* a CREATE is being executed
Migrating == {"exists", "create", "columns", "alter", "index"} \cup Creating
Stopping == {"drain", "wait", "release", "closeDB"}
Labels == {"down", "lock", "unlock", "build", "serve"} \cup Migrating \cup Stopping

Goto(r, label) == pc' = [pc EXCEPT ![r] = label]

Init ==
  /\ dialect \in {"sqlite", "postgres"}
  /\ columns \in [Tables -> SUBSET Columns]     \* as an earlier version left them
  /\ indexes \in SUBSET Indexes
  /\ indexes # {} => \A t \in Tables : columns[t] # {}
  /\ lock = Free /\ orphans = {}
  /\ pc = [r \in Replicas |-> "down"] /\ at = [r \in Replicas |-> 1]
  /\ missing = [r \in Replicas |-> {}] /\ cancelled = [r \in Replicas |-> FALSE]
  /\ worker = [r \in Replicas |-> "none"] /\ requests = [r \in Replicas |-> 0]
  /\ open = [r \in Replicas |-> {}] /\ abandoned = [r \in Replicas |-> FALSE]
  /\ torn = FALSE /\ collided = FALSE

-----------------------------------------------------------------------------
(* Start, and the lock.                                                    *)

\* store.Open; a process that cannot have its database ends, and holds nothing.
Open(r) ==
  /\ pc[r] = "down"
  /\ open' = [open EXCEPT ![r] = {"db"}]
  /\ Goto(r, IF dialect = "postgres" THEN "lock" ELSE "exists")
  /\ UNCHANGED <<database, migration, cancelled, worker, requests, abandoned>>

\* Mutant: nobody waits for the lock.
NoLock(r) ==
  /\ pc[r] = "lock" /\ ~cancelled[r] /\ lock' = r
  /\ Goto(r, "exists")
  /\ UNCHANGED <<schema, orphans, history, migration, cancelled, service>>

AcquireLock(r) ==
  /\ pc[r] = "lock" /\ ~cancelled[r]
  /\ lock = Free /\ lock' = r
  /\ Goto(r, "exists")
  /\ UNCHANGED <<schema, orphans, history, migration, cancelled, service>>

\* Mutant: the unlock goes through the pool, to a connection that has no lock.
LockStays(r) == lock

\* Deferred, on the pinned connection.  With the context cancelled the statement is
\* not sent, and the connection goes back to the pool with the lock.
Unlocked(r) == IF lock = r /\ ~cancelled[r] THEN Free ELSE lock

Unlock(r) ==
  /\ pc[r] = "unlock"
  /\ lock' = Unlocked(r)
  /\ Goto(r, "build")
  /\ UNCHANGED <<schema, orphans, history, migration, cancelled, service>>

-----------------------------------------------------------------------------
(* Migrate.  A CREATE ... IF NOT EXISTS is one step in SQLite; in Postgres *)
(* the check and the commit are apart, and the later one of two fails.     *)

Advance(r) ==
  LET next == at[r] + 1
  IN  IF next \in Tables \cup Indexes
      THEN /\ at' = [at EXCEPT ![r] = next]
           /\ Goto(r, IF next \in Tables THEN "exists" ELSE "index")
      ELSE /\ at' = [at EXCEPT ![r] = 1]
           /\ Goto(r, IF dialect = "postgres" THEN "unlock" ELSE "build")

Runs(r, label) == pc[r] = label /\ ~cancelled[r]

TableExists(r) ==
  /\ Runs(r, "exists")
  /\ Goto(r, IF columns[at[r]] # {} THEN "columns" ELSE "create")
  /\ UNCHANGED <<database, migration, cancelled, service>>

MakeTable(t) == columns' = [columns EXCEPT ![t] = Columns] /\ UNCHANGED indexes
MakeIndex(i) == indexes' = indexes \cup {i} /\ UNCHANGED columns
Make(p) == IF p \in Tables THEN MakeTable(p) ELSE MakeIndex(p)
Made(p) == IF p \in Tables THEN columns[p] # {} ELSE p \in indexes

Create(r) ==
  /\ Runs(r, "create") \/ Runs(r, "index")
  /\ \/ Made(at[r]) /\ Advance(r) /\ UNCHANGED <<columns, indexes>>
     \/ ~Made(at[r]) /\ dialect = "sqlite" /\ Make(at[r]) /\ Advance(r)
     \/ /\ ~Made(at[r]) /\ dialect = "postgres"
        /\ Goto(r, IF at[r] \in Tables THEN "creating" ELSE "indexing")
        /\ UNCHANGED <<columns, indexes, at>>
  /\ UNCHANGED <<dialect, lock, orphans, history, missing, cancelled, service>>

Commit(r) ==
  /\ Runs(r, "creating") \/ Runs(r, "indexing")
  /\ ~Made(at[r]) /\ Make(at[r]) /\ Advance(r)
  /\ UNCHANGED <<dialect, lock, orphans, history, missing, cancelled, service>>

\* Mutant: a table that exists is taken for complete.
NothingMissing(t) == {}

Missing(t) == Columns \ columns[t]

AddMissingColumns(r) ==
  /\ Runs(r, "columns")
  /\ missing' = [missing EXCEPT ![r] = Missing(at[r])]
  /\ IF missing'[r] = {} THEN Advance(r) ELSE Goto(r, "alter") /\ UNCHANGED at
  /\ UNCHANGED <<database, cancelled, service>>

IsNext(r, c) == c \in missing[r] /\ \A d \in missing[r] : c <= d

\* A column that is there by now is as good: isDuplicateColumn.
AddColumn(r) ==
  /\ Runs(r, "alter")
  /\ \E c \in Columns :
       /\ IsNext(r, c)
       /\ columns' = [columns EXCEPT ![at[r]] = @ \cup {c}]
       /\ missing' = [missing EXCEPT ![r] = @ \ {c}]
  /\ IF missing'[r] = {} THEN Advance(r) ELSE UNCHANGED <<pc, at>>
  /\ UNCHANGED <<dialect, indexes, lock, orphans, history, cancelled, service>>

\* The statement that r waits for, as the server has it.
InFlight(r) ==
  IF dialect = "sqlite" THEN {}
  ELSE IF pc[r] \in Creating THEN {<<at[r], Whole>>}
  ELSE IF pc[r] = "alter" THEN {at[r]} \X {c \in Columns : IsNext(r, c)}
  ELSE {}

Beaten(r) == pc[r] \in Creating /\ ~cancelled[r] /\ Made(at[r])

\* The server may still be at it when the client is gone.
Orphaned(r) ==
  /\ Cardinality(orphans) < MaxOrphans
  /\ \E s \in InFlight(r) : orphans' = orphans \cup {s}
  /\ torn' = TRUE

\* The context is cancelled, the connection breaks, or another start was faster: run
\* returns, and the deferred calls of Migrate and run do the rest.
Fail(r) ==
  /\ pc[r] \in {"lock", "build"} \cup Migrating
  /\ UNCHANGED <<orphans, torn>> \/ Orphaned(r)
  /\ collided' = (collided \/ (Beaten(r) /\ ~torn))
  /\ lock' = IF pc[r] \in Migrating THEN Unlocked(r) ELSE lock
  /\ at' = [at EXCEPT ![r] = 1] /\ missing' = [missing EXCEPT ![r] = {}]
  /\ Goto(r, "release")
  /\ UNCHANGED <<schema, cancelled, service>>

-----------------------------------------------------------------------------
(* Serving and shutting down.                                              *)

\* What needs no context: a signal does not stop it.  Without ENABLE_PHISHING_CHECK the
\* worker has nothing to do.
Build(r) ==
  /\ pc[r] = "build"
  /\ open' = [open EXCEPT ![r] = Resources]
  /\ \E phishing \in BOOLEAN :
       worker' = [worker EXCEPT ![r] = IF phishing THEN "running" ELSE "done"]
  /\ Goto(r, "serve")
  /\ UNCHANGED <<database, migration, cancelled, requests, abandoned>>

Arrive(r) ==
  /\ pc[r] = "serve" /\ requests[r] < MaxRequests
  /\ requests' = [requests EXCEPT ![r] = @ + 1]
  /\ UNCHANGED <<database, pc, migration, cancelled, worker, open, abandoned>>

Finish(r) ==
  /\ requests[r] > 0
  /\ requests' = [requests EXCEPT ![r] = @ - 1]
  /\ UNCHANGED <<database, pc, migration, cancelled, worker, open, abandoned>>

\* It changes nothing for a process that is about to end.
Signal(r) ==
  /\ pc[r] \notin {"down", "release", "closeDB"} /\ ~cancelled[r]
  /\ cancelled' = [cancelled EXCEPT ![r] = TRUE]
  /\ UNCHANGED <<database, pc, migration, service>>

\* Mutant: run returns with the worker still at it.
NoWait == {"release"}

\* Where the worker is waited for.
BeforeRelease == {"wait"}

\* ListenAndServe cannot have the address, or can accept no more.
ListenFails(r) ==
  /\ pc[r] = "serve"
  /\ cancelled' = [cancelled EXCEPT ![r] = TRUE]
  /\ abandoned' = [abandoned EXCEPT ![r] = TRUE]
  /\ \E label \in BeforeRelease : Goto(r, label)
  /\ UNCHANGED <<database, migration, worker, requests, open>>

\* http.Server.Shutdown lets no further request in.
Shutdown(r) ==
  /\ pc[r] = "serve" /\ cancelled[r]
  /\ Goto(r, "drain")
  /\ UNCHANGED <<database, migration, cancelled, service>>

\* Twenty seconds are over, or there is nothing to wait for.
Drained(r) ==
  /\ pc[r] = "drain"
  /\ abandoned' = [abandoned EXCEPT ![r] = requests[r] > 0]
  /\ \E label \in BeforeRelease : Goto(r, label)
  /\ UNCHANGED <<database, migration, cancelled, worker, requests, open>>

\* maintainBlocklist sees that its context is cancelled, wherever it is.
WorkerReturns(r) ==
  /\ worker[r] = "running" /\ cancelled[r]
  /\ worker' = [worker EXCEPT ![r] = "done"]
  /\ UNCHANGED <<database, pc, migration, cancelled, requests, open, abandoned>>

Wait(r) ==
  /\ pc[r] = "wait" /\ worker[r] = "done"
  /\ Goto(r, "release")
  /\ UNCHANGED <<database, migration, cancelled, service>>

\* The resolver, by Server.Shutdown or by run's own deferred call, and the limiter.
Release(r) ==
  /\ pc[r] = "release" /\ Goto(r, "closeDB")
  /\ open' = [open EXCEPT ![r] = {"db"}]
  /\ UNCHANGED <<database, migration, cancelled, worker, requests, abandoned>>

\* A process that is gone, with every goroutine that was left.
Gone(r) ==
  /\ Goto(r, "down")
  /\ at' = [at EXCEPT ![r] = 1] /\ missing' = [missing EXCEPT ![r] = {}]
  /\ cancelled' = [cancelled EXCEPT ![r] = FALSE]
  /\ worker' = [worker EXCEPT ![r] = "none"] /\ requests' = [requests EXCEPT ![r] = 0]
  /\ open' = [open EXCEPT ![r] = {}] /\ abandoned' = [abandoned EXCEPT ![r] = FALSE]

\* Every session of the pool ends, the one with the lock among them, and then the
\* process.
CloseDB(r) ==
  /\ pc[r] = "closeDB" /\ Gone(r)
  /\ lock' = IF lock = r THEN Free ELSE lock
  /\ UNCHANGED <<schema, orphans, history>>

-----------------------------------------------------------------------------
(* Faults.                                                                 *)

\* The server learns later, and may end a statement of the crashed process with it.
Crash(r) ==
  /\ pc[r] # "down" /\ Gone(r)
  /\ lock' = IF lock = r THEN Dead ELSE lock
  /\ UNCHANGED <<orphans, torn>> \/ Orphaned(r)
  /\ UNCHANGED <<schema, collided>>

SessionEnds ==
  /\ lock = Dead /\ lock' = Free
  /\ UNCHANGED <<schema, orphans, history, pc, migration, cancelled, service>>

\* The pinned connection breaks; the migration, which uses others, goes on.
LoseConnection(r) ==
  /\ lock = r /\ pc[r] \in Migrating
  /\ lock' = Free /\ torn' = TRUE
  /\ UNCHANGED <<schema, orphans, collided, pc, migration, cancelled, service>>

\* The server is through with a statement: it did what it says, or nothing.
OrphanEnds ==
  \E s \in orphans :
    /\ orphans' = orphans \ {s}
    /\ \/ UNCHANGED <<columns, indexes>>
       \/ s[2] = Whole /\ ~Made(s[1]) /\ Make(s[1])
       \/ /\ s[2] # Whole /\ UNCHANGED indexes
          /\ columns' = [columns EXCEPT ![s[1]] = @ \cup {s[2]}]
    /\ UNCHANGED <<dialect, lock, history, pc, migration, cancelled, service>>

Migrate(r) ==
  TableExists(r) \/ Create(r) \/ Commit(r) \/ AddMissingColumns(r) \/ AddColumn(r)

Stop(r) ==
  Shutdown(r) \/ Drained(r) \/ Wait(r) \/ Release(r) \/ CloseDB(r)

\* What goes on by itself.  A statement that can only fail does.
Run(r) ==
  \/ Migrate(r) \/ Unlock(r) \/ Build(r) \/ WorkerReturns(r) \/ Stop(r)
  \/ (cancelled[r] \/ Beaten(r)) /\ Fail(r)

Next ==
  \/ \E r \in Replicas :
       \/ Run(r) \/ Fail(r) \/ AcquireLock(r)
       \/ Open(r) \/ Arrive(r) \/ Finish(r) \/ Signal(r) \/ ListenFails(r)
       \/ Crash(r) \/ LoseConnection(r)
  \/ SessionEnds \/ OrphanEnds

Spec == Init /\ [][Next]_vars

\* Each process runs, its worker returns when it is told to, the lock goes to everyone
\* who waits for it in the end, and the server notices that a client is gone.
FairSpec ==
  /\ Spec /\ WF_vars(SessionEnds)
  /\ \A r \in Replicas : WF_vars(Run(r)) /\ SF_vars(AcquireLock(r))

-----------------------------------------------------------------------------
(* What an operator who rolls a new version out may rely on.               *)

TypeOK ==
  /\ dialect \in {"sqlite", "postgres"}
  /\ columns \in [Tables -> SUBSET Columns] /\ indexes \in SUBSET Indexes
  /\ lock \in Replicas \cup {Free, Dead}
  /\ orphans \in SUBSET ((Tables \cup Indexes) \X (0 .. NumColumns))
  /\ pc \in [Replicas -> Labels] /\ at \in [Replicas -> Tables \cup Indexes]
  /\ missing \in [Replicas -> SUBSET Columns] /\ cancelled \in [Replicas -> BOOLEAN]
  /\ worker \in [Replicas -> {"none", "running", "done"}]
  /\ requests \in [Replicas -> 0 .. MaxRequests]
  /\ open \in [Replicas -> SUBSET Resources] /\ abandoned \in [Replicas -> BOOLEAN]
  /\ torn \in BOOLEAN /\ collided \in BOOLEAN

Complete == (\A t \in Tables : columns[t] = Columns) /\ indexes = Indexes

\* Migrate, whatever version's schema it finds, whoever else migrates, crashes or is
\* cancelled in the middle: nothing is served and no sweep is run on a database that
\* lacks a table, a column or an index.
ServesCompleteSchema ==
  \A r \in Replicas : pc[r] = "serve" \/ requests[r] > 0 \/ worker[r] = "running" => Complete

\* Migrate ("flapping a rolling deploy"): no start fails on what another one has just
\* made, unless the lock was lost in the middle of a migration.
StartsDoNotCollide == ~collided

\* run: the worker, and every request that shutdown still waits for, find the
\* database, the limiter and the resolver open; whatever run returns for.
NothingUsedAfterClose ==
  \A r \in Replicas :
    worker[r] = "running" \/ (requests[r] > 0 /\ ~abandoned[r]) => open[r] = Resources

\* Why they hold.  Whatever is made stays, so what a migration has passed is complete;
\* whoever is about to make a table finds none, or one that was made whole;
Ready(p) == IF p \in Tables THEN columns[p] = Columns ELSE p \in indexes

AtTable == {"exists", "create", "creating", "columns", "alter"}

SchemaInv(r) ==
  /\ IF pc[r] \in Migrating
     THEN /\ at[r] \in IF pc[r] \in AtTable THEN Tables ELSE Indexes
          /\ \A p \in 1 .. at[r] - 1 : Ready(p)
     ELSE at[r] = 1
  /\ pc[r] \in {"create", "creating"} => columns[at[r]] \in {{}, Columns}
  /\ pc[r] \in {"columns", "alter"} => columns[at[r]] # {}
  /\ pc[r] = "alter" => missing[r] # {} /\ Columns \ missing[r] \subseteq columns[at[r]]
  /\ pc[r] \in {"unlock", "build", "serve"} => Complete
  /\ requests[r] > 0 \/ worker[r] = "running" => Complete

OrphansInv == \A s \in orphans : s[2] # Whole => s[1] \in Tables /\ columns[s[1]] # {}

\* what is served is open, and who is waited for is served;
ServiceInv(r) ==
  /\ pc[r] \in {"serve", "drain", "wait"} => open[r] = Resources
  /\ worker[r] = "running" => pc[r] \in {"serve", "drain", "wait"}
  /\ requests[r] > 0 /\ ~abandoned[r] => pc[r] \in {"serve", "drain"}

\* and while no lock was given up too early, it belongs to the only one that migrates.
LockInv ==
  /\ ~collided
  /\ ~torn =>
       /\ orphans = {}
       /\ \A r \in Replicas : dialect = "postgres" /\ pc[r] \in Migrating => lock = r
       /\ \A r \in Replicas : pc[r] \in Creating => dialect = "postgres" /\ ~Made(at[r])

DeployInv ==
  TypeOK /\ OrphansInv /\ LockInv /\ \A r \in Replicas : SchemaInv(r) /\ ServiceInv(r)

\* run: a start comes to serve or ends, whatever happens to the others, and a shutdown
\* ends; a lock that a crashed or cancelled start leaves blocks nobody for good.
EveryStartEnds ==
  \A r \in Replicas : pc[r] \notin {"down", "serve"} ~> pc[r] \in {"down", "serve"}

=============================================================================
