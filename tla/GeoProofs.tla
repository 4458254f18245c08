----------------------------- MODULE GeoProofs -----------------------------
(***************************************************************************)
(* Proofs about Geo for any number of lookups: the readers and the writer  *)
(* of the mutex exclude each other, and so nobody reads what is unmapped.  *)
(***************************************************************************)
EXTENDS Geo, TLAPS

USE GeoAssumption DEF Procs, Mappings, NoReader, Reading, Writing, Done, Gens

\* The initial state.
LEMMA InitGeo == Init => GeoInv
<1>. SUFFICES ASSUME Init PROVE GeoInv
  OBVIOUS
<1>1. TypeOK
  <2>1. file \in Gens /\ opens \in 0 .. MaxOpens /\ lastGen \in Nat
    BY DEF Init
  <2>2. pc \in [Procs -> Reading \cup Writing \cup Done \cup {"query", "lock"}]
    BY DEF Init
  <2>. QED  BY <2>1, <2>2 DEF Init, TypeOK
<1>2. MutexInv
  BY DEF Init, MutexInv
<1>3. ReaderInv
  BY DEF Init, ReaderInv
<1>4. NothingLeaks
  BY DEF Init, NothingLeaks
<1>. QED  BY <1>1, <1>2, <1>3, <1>4 DEF GeoInv

\* lookupWithOpenReader finds nothing to use, or starts a query.
Misses(c) ==
  /\ pc[c] \in {"first", "second"} /\ c \in readers /\ RUnlock(c)
  /\ \E l \in {"missing", "answered"} : Goto(c, l)
  /\ UNCHANGED <<env, state, using>>
Hits(c) ==
  /\ pc[c] \in {"first", "second"} /\ c \in readers /\ reader # NoReader
  /\ using' = [using EXCEPT ![c] = reader] /\ Goto(c, "query")
  /\ UNCHANGED <<env, state, mu>>

\* The lookup through an open reader answers or falls through to ensureReader.
LEMMA FastPath == ASSUME NEW c \in Lookups, LookupWithOpenReader(c) PROVE Misses(c) \/ Hits(c)
<1>1. CASE reader = NoReader \/ closed \/ ~checked
  BY <1>1 DEF LookupWithOpenReader, Misses, Goto
<1>2. CASE ~(reader = NoReader \/ closed \/ ~checked)
  BY <1>2 DEF LookupWithOpenReader, Hits, Goto
<1>. QED  BY <1>1, <1>2

\* ensureReader gives up, finds the file unchanged, or goes on to open it.
GivesUp(c) ==
  /\ pc[c] = "stat" /\ Goto(c, "answered") /\ Unlock /\ missing' \in {missing, TRUE}
  /\ UNCHANGED <<env, opens, mapped, gen, reader, mark, closed, using, checked, found, sure>>
Verifies(c) ==
  /\ pc[c] = "stat" /\ Goto(c, "second") /\ Unlock
  /\ mark = file /\ checked' = TRUE /\ sure' = file
  /\ UNCHANGED <<env, opens, mapped, gen, reader, mark, closed, using, missing, found>>
Finds(c) ==
  /\ pc[c] = "stat" /\ Goto(c, "open") /\ ~closed /\ found' = file
  /\ UNCHANGED <<env, opens, mapped, gen, reader, mark, closed, using, missing, checked, sure,
                 mu>>

\* The three outcomes of the stat: no file, the same file, another file.
LEMMA StatOutcome == ASSUME NEW c \in Lookups, Stat(c) PROVE GivesUp(c) \/ Verifies(c) \/ Finds(c)
  BY DEF Stat, NotFound, IsClosed, GivesUp, Verifies, Finds

\* Types.
LEMMA GeoTypes == GeoInv /\ [Next]_vars => TypeOK'
<1>. SUFFICES ASSUME GeoInv, [Next]_vars PROVE TypeOK'
  OBVIOUS
<1>. USE DEF GeoInv, TypeOK, env, state, mu, Goto, RUnlock, Unlock
<1>1. ASSUME NEW c \in Lookups, Call(c) \/ RLock(c) PROVE TypeOK'
  BY <1>1 DEF Call, RLock
<1>10. ASSUME NEW c \in Lookups, Misses(c) PROVE TypeOK'
  BY <1>10 DEF Misses
<1>17. ASSUME NEW c \in Lookups, Hits(c) PROVE TypeOK'
  BY <1>17 DEF Hits
<1>11. ASSUME NEW c \in Lookups, Query(c) PROVE TypeOK'
  BY <1>11 DEF Query
<1>12. ASSUME NEW c \in Lookups, RecentlyMissing(c) PROVE TypeOK'
  <2>1. \/ pc' = [pc EXCEPT ![c] = "lock"]
        \/ pc' = [pc EXCEPT ![c] = "answered"]
    BY <1>12 DEF RecentlyMissing
  <2>. QED  BY <1>12, <2>1 DEF RecentlyMissing
<1>13. ASSUME NEW p \in Procs, Announce(p) PROVE TypeOK'
  BY <1>13 DEF Announce
<1>14. ASSUME NEW p \in Procs, Drained(p) PROVE TypeOK'
  <2>1. \/ pc' = [pc EXCEPT ![p] = "close"]
        \/ pc' = [pc EXCEPT ![p] = "stat"]
    BY <1>14 DEF Drained
  <2>. QED  BY <1>14, <2>1 DEF Drained
<1>2. ASSUME NEW c \in Lookups, GivesUp(c) PROVE TypeOK'
  BY <1>2 DEF GivesUp
<1>18. ASSUME NEW c \in Lookups, Verifies(c) PROVE TypeOK'
  BY <1>18 DEF Verifies
<1>19. ASSUME NEW c \in Lookups, Finds(c) PROVE TypeOK'
  BY <1>19 DEF Finds
<1>3. CASE \E c \in Lookups : OpenFails(c)
  BY <1>3 DEF OpenFails, NotFound
<1>4. CASE \E c \in Lookups : Open(c)
  BY <1>4 DEF Open
<1>5. ASSUME NEW c \in Lookups, Swap(c) PROVE TypeOK'
  <2>1. /\ mapped' \in SUBSET Mappings /\ reader' \in Mappings \cup {NoReader}
        /\ mark' \in Nat /\ sure' \in Nat /\ checked' = TRUE /\ missing' = FALSE
    BY <1>5 DEF Swap, Mark, Unmapped
  <2>2. /\ using' = [using EXCEPT ![c] = NoReader] /\ pc' = [pc EXCEPT ![c] = "second"]
        /\ readers' = blocked /\ blocked' = {} /\ writer' = {}
        /\ UNCHANGED <<env, opens, gen, closed, found>>
    BY <1>5 DEF Swap
  <2>. QED  BY <2>1, <2>2
<1>6. CASE CallClose
  BY <1>6 DEF CallClose
<1>7. CASE Close
  BY <1>7 DEF Close, Unmapped
<1>8. CASE Replace
  BY <1>8 DEF Replace
<1>15. CASE Vanish
  BY <1>15 DEF Vanish
<1>16. CASE RecheckDue
  BY <1>16 DEF RecheckDue
<1>9. CASE UNCHANGED vars
  BY <1>9 DEF vars
<1>. QED
  BY <1>1, <1>2, <1>3, <1>4, <1>5, <1>6, <1>7, <1>8, <1>9, <1>10, <1>11, <1>12, <1>13,
     <1>14, <1>15, <1>16, <1>17, <1>18, <1>19, FastPath, StatOutcome
  DEF Next, LookupStep, CloserStep

\* The readers and the writer of the mutex.
LEMMA GeoMutex == GeoInv /\ TypeOK' /\ [Next]_vars => MutexInv'
<1>. SUFFICES ASSUME GeoInv, TypeOK', [Next]_vars PROVE MutexInv'
  OBVIOUS
<1>. USE DEF GeoInv, TypeOK, MutexInv, env, state, mu, Goto, RUnlock, Unlock
<1>1. ASSUME NEW c \in Lookups, Call(c) PROVE MutexInv'
  BY <1>1 DEF Call
<1>2. ASSUME NEW c \in Lookups, RLock(c) PROVE MutexInv'
  BY <1>2 DEF RLock
<1>3. ASSUME NEW c \in Lookups, Misses(c) PROVE MutexInv'
  BY <1>3 DEF Misses
<1>15. ASSUME NEW c \in Lookups, Hits(c) PROVE MutexInv'
  BY <1>15 DEF Hits
<1>4. ASSUME NEW c \in Lookups, Query(c) PROVE MutexInv'
  BY <1>4 DEF Query
<1>18. ASSUME NEW c \in Lookups, RecentlyMissing(c) PROVE MutexInv'
  <2>1. /\ pc[c] = "missing" /\ readers' = readers \ {c} /\ UNCHANGED <<blocked, writer>>
        /\ \E l \in {"answered", "lock"} : pc' = [pc EXCEPT ![c] = l]
    BY <1>18 DEF RecentlyMissing
  <2>2. PICK l \in {"answered", "lock"} : pc' = [pc EXCEPT ![c] = l]
    BY <2>1
  <2>3. /\ l \notin Writing /\ l \notin Reading \cup {"query"}
        /\ c \in Procs /\ c # Closer
    BY GeoAssumption DEF Writing, Reading, Procs
  <2>4. pc'[c] = l /\ \A p \in Procs \ {c} : pc'[p] = pc[p]
    BY <2>2, <2>3
  <2>5. /\ \A p \in Procs : pc'[p] \in Writing <=> p \in writer'
        /\ \A p \in Procs : pc'[p] \in Writing \ {"drain"} => readers' = {}
    BY <2>1, <2>3, <2>4 DEF Reading, Writing
  <2>6. /\ \A p \in Procs : pc'[p] = "close" => p = Closer
        /\ \A p \in Procs : pc'[p] \in {"stat", "open", "swap"} => p # Closer
        /\ \A p, q \in writer' : p = q
    BY <2>1, <2>4
  <2>7. /\ \A d \in Lookups : pc'[d] = "query" => d \in readers'
        /\ readers' \cap blocked' = {}
        /\ \A d \in readers' \cup blocked' : pc'[d] \in Reading \cup {"query"}
        /\ \A d \in blocked' : pc'[d] # "query"
        /\ pc'[Closer] \notin Reading \cup {"query"}
    BY <1>18, <2>1, <2>3, <2>4 DEF RecentlyMissing, Procs
  <2>. QED  BY <2>5, <2>6, <2>7
<1>5. ASSUME NEW p \in Procs, Announce(p) PROVE MutexInv'
  BY <1>5 DEF Announce
<1>6. ASSUME NEW p \in Procs, Drained(p) PROVE MutexInv'
  BY <1>6 DEF Drained
<1>7. ASSUME NEW c \in Lookups, GivesUp(c) PROVE MutexInv'
  BY <1>7 DEF GivesUp
<1>17. ASSUME NEW c \in Lookups, Verifies(c) PROVE MutexInv'
  BY <1>17 DEF Verifies
<1>16. ASSUME NEW c \in Lookups, Finds(c) PROVE MutexInv'
  BY <1>16 DEF Finds
<1>8. ASSUME NEW c \in Lookups, OpenFails(c) PROVE MutexInv'
  BY <1>8 DEF OpenFails, NotFound
<1>9. ASSUME NEW c \in Lookups, Open(c) PROVE MutexInv'
  BY <1>9 DEF Open
<1>10. ASSUME NEW c \in Lookups, Swap(c) PROVE MutexInv'
  BY <1>10 DEF Swap
<1>11. CASE CallClose
  BY <1>11 DEF CallClose
<1>12. CASE Close
  BY <1>12 DEF Close
<1>13. CASE Replace \/ Vanish \/ RecheckDue
  BY <1>13 DEF Replace, Vanish, RecheckDue
<1>14. CASE UNCHANGED vars
  BY <1>14 DEF vars
<1>. QED
  BY <1>1, <1>2, <1>3, <1>4, <1>5, <1>6, <1>7, <1>8, <1>9, <1>10, <1>11, <1>12, <1>13,
     <1>14, <1>15, <1>16, <1>17, <1>18, FastPath, StatOutcome
  DEF Next, LookupStep, CloserStep

\* The mappings are still those of the reader and of who is about to swap.
LEMMA SameMappings ==
  ASSUME NothingLeaks, UNCHANGED <<mapped, reader, closed>>,
         \A c \in Lookups : pc'[c] = "swap" <=> pc[c] = "swap",
         \A c \in Lookups : pc[c] = "swap" => using'[c] = using[c]
  PROVE  NothingLeaks'
  BY DEF NothingLeaks

\* A step of p that neither enters nor leaves a place where a mapping is held.
LEMMA StaysQuiet ==
  ASSUME GeoInv, NEW p \in Procs, NEW l \in {"first", "missing", "answered", "lock", "drain", "close", "stat"},
         pc[p] \notin {"swap", "open"}, pc' = [pc EXCEPT ![p] = l],
         using' = using \/ (p \in Lookups /\ using' = [using EXCEPT ![p] = NoReader]),
         UNCHANGED <<env, state>>
  PROVE  ReaderInv' /\ NothingLeaks'
<1>. USE DEF GeoInv, TypeOK, env, state
<1>1. \A c \in Lookups : /\ c = p => pc'[c] = l
                        /\ c # p => pc'[c] = pc[c] /\ using'[c] = using[c]
  OBVIOUS
<1>2. ReaderInv'
  BY <1>1 DEF ReaderInv
<1>3. NothingLeaks'
  BY <1>1, SameMappings
<1>. QED  BY <1>2, <1>3

\* What is read, and what is mapped.
LEMMA GeoReader == GeoInv /\ TypeOK' /\ [Next]_vars => ReaderInv' /\ NothingLeaks'
<1>. SUFFICES ASSUME GeoInv, TypeOK', [Next]_vars PROVE ReaderInv' /\ NothingLeaks'
  OBVIOUS
<1>. USE DEF GeoInv, TypeOK, MutexInv, ReaderInv, NothingLeaks, env, state, mu, Goto,
             RUnlock, Unlock
<1>1. ASSUME NEW c \in Lookups, Call(c) PROVE ReaderInv' /\ NothingLeaks'
  <2>1. /\ pc[c] \notin {"query", "swap", "open"} /\ pc' = [pc EXCEPT ![c] = "first"]
        /\ UNCHANGED <<env, state, using>>
    BY <1>1 DEF Call
  <2>. QED  BY <2>1, StaysQuiet
<1>2. ASSUME NEW c \in Lookups, RLock(c) PROVE ReaderInv' /\ NothingLeaks'
  BY <1>2 DEF RLock
<1>3. ASSUME NEW c \in Lookups, Misses(c) PROVE ReaderInv' /\ NothingLeaks'
  BY <1>3, StaysQuiet DEF Misses
<1>15. ASSUME NEW c \in Lookups, Hits(c) PROVE ReaderInv' /\ NothingLeaks'
  <2>1. \A d \in Lookups : d # c => pc'[d] = pc[d] /\ using'[d] = using[d]
    BY <1>15 DEF Hits
  <2>2. pc'[c] = "query" /\ pc[c] # "swap" /\ using'[c] = reader
    BY <1>15 DEF Hits
  <2>3. reader # NoReader /\ UNCHANGED <<env, state>>
    BY <1>15 DEF Hits
  <2>4. NothingLeaks'
    BY <2>1, <2>2, <2>3, SameMappings
  <2>. QED  BY <2>1, <2>2, <2>3, <2>4
<1>18. ASSUME NEW c \in Lookups, RecentlyMissing(c) PROVE ReaderInv' /\ NothingLeaks'
  <2>1. /\ pc[c] = "missing" /\ UNCHANGED <<env, state, using>>
        /\ \E l \in {"answered", "lock"} : pc' = [pc EXCEPT ![c] = l]
    BY <1>18 DEF RecentlyMissing
  <2>. QED  BY <2>1, StaysQuiet
<1>4. ASSUME NEW c \in Lookups, Query(c) PROVE ReaderInv' /\ NothingLeaks'
  <2>1. /\ pc[c] = "query" /\ UNCHANGED <<env, state>>
        /\ using' = [using EXCEPT ![c] = NoReader] /\ pc' = [pc EXCEPT ![c] = "answered"]
    BY <1>4 DEF Query
  <2>. QED  BY <2>1, StaysQuiet
<1>5. ASSUME NEW p \in Procs, Announce(p) \/ Drained(p) PROVE ReaderInv' /\ NothingLeaks'
  <2>1. /\ pc[p] \in {"lock", "drain"} /\ UNCHANGED <<env, state, using>>
        /\ \E l \in {"drain", "close", "stat"} : pc' = [pc EXCEPT ![p] = l]
    BY <1>5 DEF Announce, Drained
  <2>. QED  BY <2>1, StaysQuiet
<1>7. ASSUME NEW c \in Lookups, GivesUp(c) PROVE ReaderInv' /\ NothingLeaks'
  <2>1. ReaderInv'
    BY <1>7 DEF GivesUp
  <2>2. NothingLeaks'
    BY <1>7 DEF GivesUp
  <2>. QED  BY <2>1, <2>2
<1>16. ASSUME NEW c \in Lookups, Verifies(c) PROVE ReaderInv' /\ NothingLeaks'
  <2>1. ReaderInv'
    BY <1>16 DEF Verifies
  <2>2. NothingLeaks'
    BY <1>16 DEF Verifies
  <2>. QED  BY <2>1, <2>2
<1>17. ASSUME NEW c \in Lookups, Finds(c) PROVE ReaderInv' /\ NothingLeaks'
  <2>1. ReaderInv'
    BY <1>17 DEF Finds
  <2>2. NothingLeaks'
    BY <1>17 DEF Finds
  <2>. QED  BY <2>1, <2>2
<1>8. ASSUME NEW c \in Lookups, OpenFails(c) PROVE ReaderInv' /\ NothingLeaks'
  BY <1>8 DEF OpenFails, NotFound
<1>9. ASSUME NEW c \in Lookups, Open(c) PROVE ReaderInv' /\ NothingLeaks'
  BY <1>9 DEF Open
<1>10. ASSUME NEW c \in Lookups, Swap(c) PROVE ReaderInv' /\ NothingLeaks'
  <2>1. /\ pc[c] = "swap" /\ mapped' = mapped \ {reader} /\ reader' = using[c]
        /\ using' = [using EXCEPT ![c] = NoReader] /\ mark' = found /\ sure' = found
        /\ pc' = [pc EXCEPT ![c] = "second"]
        /\ UNCHANGED <<env, opens, gen, closed, found>>
    BY <1>10 DEF Swap, Mark, Unmapped
  <2>2. \A d \in Lookups : pc[d] # "query" /\ (d # c => pc[d] # "swap" /\ pc[d] # "open")
    BY <2>1
  <2>3. \A d \in Lookups : pc'[d] \notin {"query", "swap", "open"}
    BY <2>1, <2>2
  <2>4. using[c] # reader /\ using[c] \in Mappings /\ ~closed
    BY <2>1
  <2>5. \A m \in Mappings : m \in mapped' <=> m = reader'
    BY <2>1, <2>2, <2>4
  <2>6. NothingLeaks'
    BY <2>1, <2>3, <2>4, <2>5
  <2>. QED  BY <2>1, <2>3, <2>4, <2>6
<1>11. CASE CallClose
  BY <1>11 DEF CallClose
<1>12. CASE Close
  BY <1>12 DEF Close, Unmapped
<1>13. CASE Replace \/ Vanish \/ RecheckDue
  BY <1>13 DEF Replace, Vanish, RecheckDue
<1>14. CASE UNCHANGED vars
  BY <1>14 DEF vars
<1>19. ASSUME NEW c \in Lookups, LookupStep(c) PROVE ReaderInv' /\ NothingLeaks'
  BY <1>2, <1>3, <1>4, <1>5, <1>7, <1>8, <1>9, <1>10, <1>15, <1>16, <1>17, <1>18, <1>19,
     FastPath, StatOutcome DEF LookupStep
<1>. QED  BY <1>1, <1>5, <1>11, <1>12, <1>13, <1>14, <1>19 DEF Next, CloserStep

\* The inductive invariant holds in every reachable state.
THEOREM GeoInvariant == Spec => []GeoInv
<1>1. GeoInv /\ [Next]_vars => GeoInv'
  BY GeoTypes, GeoMutex, GeoReader DEF GeoInv
<1>. QED  BY <1>1, InitGeo, PTL DEF Spec

\* lookupWithOpenReader: the mapping a query reads out of is never unmapped
\* before the query is through.
THEOREM QueriesReadMappedPages == Spec => []NoReadOfUnmapped
<1>1. GeoInv => NoReadOfUnmapped
  BY DEF GeoInv, TypeOK, ReaderInv, NothingLeaks, NoReadOfUnmapped
<1>. QED  BY <1>1, GeoInvariant, PTL

\* Close: no mapping is left behind, by a replacement or by a late lookup.
THEOREM CloseLeavesNothing == Spec => []NothingLeaks
<1>1. GeoInv => NothingLeaks
  BY DEF GeoInv
<1>. QED  BY <1>1, GeoInvariant, PTL

\* ensureReader: a replaced database is not served once a check has seen the new
\* one.
THEOREM ChecksAreHonoured == Spec => []QueriesCurrent
<1>1. GeoInv => QueriesCurrent
  BY DEF GeoInv, ReaderInv, QueriesCurrent
<1>. QED  BY <1>1, GeoInvariant, PTL

=============================================================================
