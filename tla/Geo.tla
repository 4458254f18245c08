-------------------------------- MODULE Geo --------------------------------
(***************************************************************************)
(* The GeoIP database of internal/geo: lookups read out of a memory        *)
(* mapping under the read lock, one of them at a time replaces the mapping *)
(* under the write lock when the file on disk has changed, and Close takes *)
(* it away for good.  A database is known by its generation, which stands  *)
(* for the modification time and size that are compared; the minutes after *)
(* which the file is looked at again are events that may happen any time.  *)
(***************************************************************************)
EXTENDS Naturals

CONSTANTS
  Lookups,      \* calls of lookupDB in flight; a slot is used again
  Closer,       \* the goroutine that shuts the server down
  MaxGen,       \* bound: databases the updater puts in place
  MaxOpens,     \* bound: mappings made
  MayFail       \* TRUE: a stat or an open may fail

ASSUME GeoAssumption ==
  Closer \notin Lookups /\ MaxGen \in Nat \ {0} /\ MaxOpens \in Nat /\ MayFail \in BOOLEAN

Gens == 0 .. MaxGen             \* 0: no file
Mappings == 1 .. MaxOpens
NoReader == 0
Procs == Lookups \cup {Closer}

VARIABLES
  file,         \* the generation on disk, 0 when there is none
  lastGen,      \* generations put in place so far
  opens,        \* mappings made so far
  mapped,       \* the mappings that are not unmapped
  gen,          \* gen[m]: the generation behind mapping m
  reader,       \* the mapping lookups use, or NoReader
  mark,         \* modTime and size
  checked,      \* checkedAt is at most readerRecheckInterval ago
  missing,      \* missingAt is less than readerRecheckInterval ago
  closed,
  readers,      \* mu: the lookups that hold it for reading,
  blocked,      \* those that wait for that because of a writer,
  writer,       \* and {who holds it for writing or has announced to}
  pc,           \* pc[p]: where p is
  using,        \* using[c]: the mapping c reads out of, or has just made
  found,        \* what the stat under the write lock found
  sure          \* history: the generation the last successful check found

env == <<file, lastGen>>
state == <<opens, mapped, gen, reader, mark, checked, missing, closed, found, sure>>
mu == <<readers, blocked, writer>>
vars == <<file, lastGen, opens, mapped, gen, reader, mark, checked, missing, closed,
          readers, blocked, writer, pc, using, found, sure>>

Reading == {"first", "missing", "second"}
Writing == {"drain", "stat", "open", "swap", "close"}
Done == {"idle", "answered", "closed"}

Init ==
  /\ file \in {0, 1} /\ lastGen = 1 /\ opens = 0 /\ mapped = {}
  /\ gen = [m \in Mappings |-> 0]
  /\ reader = NoReader /\ mark = 0 /\ checked = FALSE /\ missing = FALSE
  /\ closed = FALSE
  /\ readers = {} /\ blocked = {} /\ writer = {}
  /\ pc = [p \in Procs |-> "idle"]
  /\ using = [c \in Lookups |-> NoReader] /\ found = 0 /\ sure = 0

Goto(p, label) == pc' = [pc EXCEPT ![p] = label]

-----------------------------------------------------------------------------
(* sync.RWMutex: a writer that has announced itself keeps new readers out, *)
(* and those it kept out go before the next writer.                        *)

RLock(c) ==
  /\ pc[c] \in Reading /\ c \notin readers \cup blocked
  /\ IF writer = {}
     THEN readers' = readers \cup {c} /\ UNCHANGED blocked
     ELSE blocked' = blocked \cup {c} /\ UNCHANGED readers
  /\ UNCHANGED <<env, state, writer, pc, using>>

RUnlock(c) == readers' = readers \ {c} /\ UNCHANGED <<blocked, writer>>

Announce(p) ==
  /\ pc[p] = "lock" /\ writer = {}
  /\ writer' = {p} /\ Goto(p, "drain")
  /\ UNCHANGED <<env, state, readers, blocked, using>>

Drained(p) ==
  /\ pc[p] = "drain" /\ readers = {}
  /\ Goto(p, IF p = Closer THEN "close" ELSE "stat")
  /\ UNCHANGED <<env, state, mu, using>>

Unlock == readers' = blocked /\ blocked' = {} /\ writer' = {}

-----------------------------------------------------------------------------
(* lookupDB, for an address that Country neither finds in its cache nor    *)
(* knows from a header.                                                    *)

Call(c) ==
  /\ pc[c] \in Done /\ Goto(c, "first")
  /\ UNCHANGED <<env, state, mu, using>>

\* Mutant: the read lock only covers the handle.
FindReader(c) ==
  /\ pc[c] \in {"first", "second"} /\ c \in readers /\ RUnlock(c)
  /\ IF reader = NoReader \/ closed \/ ~checked
     THEN /\ Goto(c, IF pc[c] = "first" THEN "missing" ELSE "answered")
          /\ UNCHANGED using
     ELSE using' = [using EXCEPT ![c] = reader] /\ Goto(c, "query")
  /\ UNCHANGED <<env, state>>

\* lookupWithOpenReader, up to the query.
LookupWithOpenReader(c) ==
  /\ pc[c] \in {"first", "second"} /\ c \in readers
  /\ IF reader = NoReader \/ closed \/ ~checked
     THEN /\ RUnlock(c)
          /\ Goto(c, IF pc[c] = "first" THEN "missing" ELSE "answered")
          /\ UNCHANGED using
     ELSE using' = [using EXCEPT ![c] = reader] /\ Goto(c, "query") /\ UNCHANGED mu
  /\ UNCHANGED <<env, state>>

\* Whatever the record says, the call ends here.
Query(c) ==
  /\ pc[c] = "query"
  /\ using' = [using EXCEPT ![c] = NoReader]
  /\ RUnlock(c) /\ Goto(c, "answered")
  /\ UNCHANGED <<env, state>>

RecentlyMissing(c) ==
  /\ pc[c] = "missing" /\ c \in readers /\ RUnlock(c)
  /\ Goto(c, IF reader = NoReader /\ missing THEN "answered" ELSE "lock")
  /\ UNCHANGED <<env, state, using>>

-----------------------------------------------------------------------------
(* ensureReader, under the write lock.                                     *)

IsClosed == closed

\* Mutant: the error paths return with the lock held.
KeepLock(c) == missing' = TRUE /\ Goto(c, "answered") /\ UNCHANGED mu

\* The caller answers "Unknown (DB Missing)"; the mapping stays what it is.
NotFound(c) == missing' = TRUE /\ Goto(c, "answered") /\ Unlock

Stat(c) ==
  /\ pc[c] = "stat"
  /\ \/ /\ IsClosed /\ Goto(c, "answered") /\ Unlock
        /\ UNCHANGED <<checked, missing, found, sure>>
     \/ /\ ~IsClosed /\ (file = 0 \/ MayFail)
        /\ NotFound(c) /\ UNCHANGED <<checked, found, sure>>
     \/ /\ ~IsClosed /\ file # 0
        /\ IF reader # NoReader /\ mark = file
           THEN checked' = TRUE /\ sure' = file /\ Goto(c, "second") /\ Unlock
                /\ UNCHANGED found
           ELSE found' = file /\ Goto(c, "open") /\ UNCHANGED <<checked, sure, mu>>
        /\ UNCHANGED missing
  /\ UNCHANGED <<env, opens, mapped, gen, reader, mark, closed, using>>

OpenFails(c) ==
  /\ pc[c] = "open" /\ (file = 0 \/ MayFail \/ opens = MaxOpens)
  /\ NotFound(c)
  /\ UNCHANGED <<env, opens, mapped, gen, reader, mark, checked, closed, using, found, sure>>

\* What is opened may be newer than what was found.
Open(c) ==
  /\ pc[c] = "open" /\ file # 0 /\ opens < MaxOpens
  /\ opens' = opens + 1
  /\ gen' = [gen EXCEPT ![opens + 1] = file]
  /\ mapped' = mapped \cup {opens + 1}
  /\ using' = [using EXCEPT ![c] = opens + 1]
  /\ Goto(c, "swap")
  /\ UNCHANGED <<env, reader, mark, checked, missing, closed, found, sure, mu>>

\* Mutant: the file is stat'ed once it is open.
MarkOnDisk == file

\* The fingerprint is that of the stat before, so a file that was replaced since
\* is opened once more by the next check.
Mark == found

\* Mutant: the mapping that is replaced is forgotten.
Forgotten == {}

\* closeReaderLocked.
Unmapped == {reader}

Swap(c) ==
  /\ pc[c] = "swap"
  /\ mapped' = mapped \ Unmapped
  /\ reader' = using[c] /\ using' = [using EXCEPT ![c] = NoReader]
  /\ mark' = Mark /\ sure' = found /\ checked' = TRUE /\ missing' = FALSE
  /\ Goto(c, "second") /\ Unlock
  /\ UNCHANGED <<env, opens, gen, closed, found>>

-----------------------------------------------------------------------------
(* Close, and the rest of the world.                                       *)

\* Server.Shutdown and run both call it.
CallClose ==
  /\ pc[Closer] \in Done /\ Goto(Closer, "lock")
  /\ UNCHANGED <<env, state, mu, using>>

Close ==
  /\ pc[Closer] = "close"
  /\ closed' = TRUE
  /\ mapped' = mapped \ Unmapped
  /\ reader' = NoReader /\ mark' = 0 /\ checked' = FALSE
  /\ Goto(Closer, "closed") /\ Unlock
  /\ UNCHANGED <<env, opens, gen, missing, using, found, sure>>

\* The updater renames a new database into place, or there is none for a while.
Replace ==
  /\ lastGen < MaxGen
  /\ lastGen' = lastGen + 1 /\ file' = lastGen + 1
  /\ UNCHANGED <<state, mu, pc, using>>

Vanish ==
  /\ file # 0 /\ file' = 0
  /\ UNCHANGED <<lastGen, state, mu, pc, using>>

\* readerRecheckInterval is over.
RecheckDue ==
  /\ \/ checked /\ checked' = FALSE /\ UNCHANGED missing
     \/ missing /\ missing' = FALSE /\ UNCHANGED checked
  /\ UNCHANGED <<env, opens, mapped, gen, reader, mark, closed, found, sure, mu, pc, using>>

LookupStep(c) ==
  \/ RLock(c) \/ LookupWithOpenReader(c) \/ Query(c) \/ RecentlyMissing(c)
  \/ Announce(c) \/ Drained(c) \/ Stat(c) \/ OpenFails(c) \/ Open(c) \/ Swap(c)

CloserStep == Announce(Closer) \/ Drained(Closer) \/ Close

Next ==
  \/ \E c \in Lookups : Call(c) \/ LookupStep(c)
  \/ CallClose \/ CloserStep \/ Replace \/ Vanish \/ RecheckDue

Spec == Init /\ [][Next]_vars

\* Goroutines run; a sync.Mutex that is free goes to a waiter in the end.
FairSpec == /\ Spec /\ SF_vars(CloserStep)
            /\ \A c \in Lookups : SF_vars(LookupStep(c))

-----------------------------------------------------------------------------
(* What lookups and Close may rely on.                                     *)

TypeOK ==
  /\ file \in Gens /\ lastGen \in Nat /\ opens \in 0 .. MaxOpens
  /\ mapped \in SUBSET Mappings /\ gen \in [Mappings -> Nat]
  /\ reader \in Mappings \cup {NoReader} /\ mark \in Nat
  /\ checked \in BOOLEAN /\ missing \in BOOLEAN /\ closed \in BOOLEAN
  /\ readers \in SUBSET Lookups /\ blocked \in SUBSET Lookups
  /\ writer \in SUBSET Procs
  /\ pc \in [Procs -> Reading \cup Writing \cup Done \cup {"query", "lock"}]
  /\ using \in [Lookups -> Mappings \cup {NoReader}] /\ found \in Nat /\ sure \in Nat

\* lookupWithOpenReader: no query reads out of a mapping that ensureReader or
\* Close has unmapped.
NoReadOfUnmapped == \A c \in Lookups : pc[c] = "query" => using[c] \in mapped

\* Close is terminal, and replacing a database leaks nothing: the only mappings
\* are the reader's and one that is about to take its place, and a closed
\* resolver has none.
NothingLeaks ==
  /\ \A m \in Mappings :
       m \in mapped <=> m = reader \/ \E c \in Lookups : pc[c] = "swap" /\ using[c] = m
  /\ closed => mapped = {}

\* A query never reads a database older than the one the last successful check
\* found on disk, whatever was put in place while it was opened.
QueriesCurrent == \A c \in Lookups : pc[c] = "query" => gen[using[c]] >= sure

\* Why they hold: readers and writers exclude each other,
MutexInv ==
  /\ \A p \in Procs : pc[p] \in Writing <=> p \in writer
  /\ \A p \in Procs : pc[p] \in Writing \ {"drain"} => readers = {}
  /\ \A p \in Procs : pc[p] = "close" => p = Closer
  /\ \A p \in Procs : pc[p] \in {"stat", "open", "swap"} => p # Closer
  /\ \A p, q \in writer : p = q
  /\ \A c \in Lookups : pc[c] = "query" => c \in readers
  /\ readers \cap blocked = {}
  /\ \A c \in readers \cup blocked : pc[c] \in Reading \cup {"query"}
  /\ \A c \in blocked : pc[c] # "query"
  /\ pc[Closer] \notin Reading \cup {"query"}

\* and what is read is the reader, no older than its fingerprint.
ReaderInv ==
  /\ file <= lastGen /\ found <= lastGen
  /\ reader # NoReader => reader <= opens /\ gen[reader] >= mark /\ mark = sure
  /\ \A c \in Lookups :
       /\ pc[c] = "query" => using[c] = reader /\ reader # NoReader
       /\ pc[c] \in {"open", "swap"} => ~closed /\ (file # 0 => found <= file)
       /\ pc[c] = "swap" => /\ using[c] \in 1 .. opens /\ using[c] # reader
                           /\ gen[using[c]] >= found

GeoInv == TypeOK /\ MutexInv /\ ReaderInv /\ NothingLeaks

\* No lookup hangs, and Close, which waits for the lookups, returns.
EveryCallReturns == \A p \in Procs : pc[p] \notin Done ~> pc[p] \in Done

=============================================================================
