-------------------------- MODULE BlocklistProofs --------------------------
(***************************************************************************)
(* Proofs about the blocklist for any number of checks, feeds and lists,   *)
(* and about the sweep that deletes by it, for any table of links.         *)
(***************************************************************************)
EXTENDS Blocklist, Sweep, TLAPS

-----------------------------------------------------------------------------
(* The list and its checks.                                                *)

\* The list of a feed and the marks, as types.
LEMMA ListTypes == NoList \in List /\ 0 \in Marks /\ Marks \subseteq Nat
BY BlocklistAssumption DEF NoList, List, Marks

\* Types.
LEMMA TypeInductive == TypeOK /\ DiskInv /\ [Next]_vars => TypeOK'
<1>. SUFFICES ASSUME TypeOK, DiskInv, [Next]_vars PROVE TypeOK'
  OBVIOUS
<1>0. file.mark \in Marks /\ \A c \in Checks : handle[c].mark \in Marks
  BY DEF TypeOK, List
<1>. USE <1>0, ListTypes DEF TypeOK, Labels, Reloading, disk, memory, calls, download
<1>1. ASSUME NEW c \in Checks, Call(c) PROVE TypeOK'
  BY <1>1 DEF Call, Goto
<1>2. ASSUME NEW c \in Checks, Stat(c) PROVE TypeOK'
  BY <1>2 DEF Stat, Goto
<1>3. ASSUME NEW c \in Checks, Compare(c) PROVE TypeOK'
  BY <1>3 DEF Compare, Goto, Answer
<1>4. ASSUME NEW c \in Checks, Fallback(c) PROVE TypeOK'
  BY <1>4 DEF Fallback, Goto, Answer
<1>5. ASSUME NEW c \in Checks, Lock(c) PROVE TypeOK'
  BY <1>5 DEF Lock, Goto
<1>6. ASSUME NEW c \in Checks, StatAgain(c) PROVE TypeOK'
  BY <1>6 DEF StatAgain, Goto
<1>7. ASSUME NEW c \in Checks, CompareAgain(c) PROVE TypeOK'
  BY <1>7 DEF CompareAgain, Goto, Answer, Unlock
<1>8. ASSUME NEW c \in Checks, Open(c) PROVE TypeOK'
  BY <1>8 DEF Open, Goto
<1>9. ASSUME NEW c \in Checks, Parse(c) PROVE TypeOK'
  BY <1>9 DEF Parse, Goto
<1>10. ASSUME NEW c \in Checks, Install(c) PROVE TypeOK'
  BY <1>10 DEF Install, HandleMark, Goto, Answer, Unlock
<1>11. ASSUME NEW c \in Checks, GiveUp(c) PROVE TypeOK'
  BY <1>11 DEF GiveUp, Goto, Answer, Unlock
<1>12. ASSUME Refreshing PROVE TypeOK'
  <2>1. ASSUME Rename PROVE TypeOK'
    <3>1. lastMark' \in Marks
      BY <2>1, BlocklistAssumption DEF Rename, Marks, DiskInv
    <3>. QED  BY <2>1, <3>1 DEF Rename, RefreshIdle, List
  <2>. QED  BY <1>12, <2>1 DEF Refreshing, BeginRefresh, Gather, WriteFails, Fetch, RefreshIdle
<1>13. ASSUME Disappear \/ Restart PROVE TypeOK'
  <2>1. CASE Disappear
    BY <2>1 DEF Disappear
  <2>2. CASE Restart
    BY <2>2 DEF Restart, RefreshIdle
  <2>. QED  BY <1>13, <2>1, <2>2
<1>14. CASE UNCHANGED vars
  BY <1>14 DEF vars
<1>. QED
  BY <1>1, <1>2, <1>3, <1>4, <1>5, <1>6, <1>7, <1>8, <1>9, <1>10, <1>11, <1>12, <1>13, <1>14
     DEF Next, Step

\* The invariant holds at the start.
LEMMA InitInv == Init => ListInv
BY ListTypes DEF Init, ListInv, TypeOK, DiskInv, CheckInv, Labels, Reloading, NoList

\* The disk and the copy in memory.
LEMMA DiskInductive == ListInv /\ TypeOK' /\ [Next]_vars => DiskInv'
<1>. SUFFICES ASSUME ListInv, TypeOK', [Next]_vars PROVE DiskInv'
  OBVIOUS
<1>. USE ListTypes DEF ListInv, DiskInv, disk, memory, download, RefreshIdle
<1>1. ASSUME NEW c \in Checks,
             \/ Call(c) \/ Stat(c) \/ StatAgain(c) \/ Open(c) \/ Parse(c)
             \/ Compare(c) \/ Fallback(c) \/ Lock(c) \/ CompareAgain(c) \/ GiveUp(c)
      PROVE  DiskInv'
  BY <1>1 DEF Call, Stat, StatAgain, Open, Parse, Compare, Fallback, Lock, CompareAgain, GiveUp
<1>2. ASSUME NEW c \in Checks, Install(c) PROVE DiskInv'
  BY <1>2 DEF Install, HandleMark, CheckInv, TypeOK, List
<1>3. ASSUME Refreshing PROVE DiskInv'
  <2>1. ASSUME Rename PROVE DiskInv'
    BY <2>1 DEF Rename, TypeOK, List
  <2>2. ASSUME Gather PROVE DiskInv'
    BY <2>2 DEF Gather, AllArrived, TypeOK
  <2>. QED  BY <1>3, <2>1, <2>2 DEF Refreshing, BeginRefresh, WriteFails, Fetch
<1>4. ASSUME Disappear \/ Restart PROVE DiskInv'
  BY <1>4 DEF Disappear, Restart, TypeOK, NoList
<1>5. CASE UNCHANGED vars
  BY <1>5 DEF vars
<1>. QED  BY <1>1, <1>2, <1>3, <1>4, <1>5 DEF Next, Step

\* A step of c keeps what is known of every check d.
LEMMA CheckInductive == ListInv /\ TypeOK' /\ [Next]_vars => \A d \in Checks : CheckInv(d)'
<1>. SUFFICES ASSUME ListInv, TypeOK', [Next]_vars, NEW d \in Checks PROVE CheckInv(d)'
  OBVIOUS
<1>0. TypeOK /\ DiskInv /\ CheckInv(d) /\ \A c \in Checks : CheckInv(c)
  BY DEF ListInv
<1>. USE ListTypes DEF disk, memory, calls, download, Goto
<1>1. ASSUME NEW c \in Checks, Call(c) PROVE CheckInv(d)'
  BY <1>0, <1>1 DEF Call, CheckInv, DiskInv, TypeOK, Reloading, NoList
<1>2. ASSUME NEW c \in Checks, Stat(c) \/ StatAgain(c) PROVE CheckInv(d)'
  <2>1. CASE Stat(c)
    BY <1>0, <2>1 DEF Stat, CheckInv, DiskInv, TypeOK, Reloading, NoList
  <2>2. CASE StatAgain(c)
    BY <1>0, <2>2 DEF StatAgain, CheckInv, DiskInv, TypeOK, Reloading, NoList
  <2>. QED  BY <1>2, <2>1, <2>2
<1>3. ASSUME NEW c \in Checks, Compare(c) \/ CompareAgain(c) PROVE CheckInv(d)'
  <2>1. CASE Compare(c)
    BY <1>0, <2>1 DEF Compare, Fresh, Answer, CheckInv, DiskInv, TypeOK, Reloading
  <2>2. CASE CompareAgain(c)
    BY <1>0, <2>2 DEF CompareAgain, Fresh, Answer, Unlock, CheckInv, DiskInv, TypeOK, Reloading
  <2>. QED  BY <1>3, <2>1, <2>2
<1>4. ASSUME NEW c \in Checks, Fallback(c) \/ GiveUp(c) PROVE CheckInv(d)'
  <2>1. CASE Fallback(c)
    BY <1>0, <2>1 DEF Fallback, Answer, CheckInv, DiskInv, TypeOK, Reloading
  <2>2. CASE GiveUp(c)
    BY <1>0, <2>2 DEF GiveUp, Answer, Unlock, CheckInv, DiskInv, TypeOK, Reloading
  <2>. QED  BY <1>4, <2>1, <2>2
<1>5. ASSUME NEW c \in Checks, Lock(c) PROVE CheckInv(d)'
  BY <1>0, <1>5 DEF Lock, CheckInv, TypeOK, Reloading
<1>6. ASSUME NEW c \in Checks, Open(c) PROVE CheckInv(d)'
  BY <1>0, <1>6 DEF Open, CheckInv, DiskInv, TypeOK, Reloading, List
<1>7. ASSUME NEW c \in Checks, Parse(c) PROVE CheckInv(d)'
  BY <1>0, <1>7 DEF Parse, CheckInv, TypeOK, Reloading
<1>8. ASSUME NEW c \in Checks, Install(c) PROVE CheckInv(d)'
  <2>1. CASE d = c
    BY <1>0, <1>8, <2>1 DEF Install, HandleMark, Answer, CheckInv, DiskInv, TypeOK, Reloading
  <2>2. CASE d # c
    <3>1. pc[d] \notin Reloading
      BY <1>0, <1>8, <2>2 DEF Install, CheckInv, Reloading
    <3>. QED  BY <1>0, <1>8, <2>2, <3>1 DEF Install, Answer, Unlock, CheckInv, TypeOK, Reloading
  <2>. QED  BY <2>1, <2>2
<1>9. ASSUME Refreshing \/ Disappear PROVE CheckInv(d)'
  <2>1. CASE Rename
    <3>1. lastMark \in Nat /\ \A c \in Checks : since[c] \in Nat /\ saw[c] \in Nat
      BY <1>0 DEF TypeOK
    <3>. QED  BY <1>0, <2>1, <3>1 DEF Rename, CheckInv
  <2>2. CASE BeginRefresh \/ Gather \/ WriteFails \/ Disappear \/ \E f \in Feeds : Fetch(f)
    BY <1>0, <2>2 DEF BeginRefresh, Gather, WriteFails, Disappear, Fetch, CheckInv
  <2>. QED  BY <1>9, <2>1, <2>2 DEF Refreshing
<1>10. ASSUME Restart PROVE CheckInv(d)'
  BY <1>0, <1>10 DEF Restart, CheckInv, TypeOK, Reloading, NoList
<1>11. CASE UNCHANGED vars
  BY <1>0, <1>11 DEF vars, CheckInv
<1>. QED
  BY <1>1, <1>2, <1>3, <1>4, <1>5, <1>6, <1>7, <1>8, <1>9, <1>10, <1>11 DEF Next, Step

\* The inductive invariant holds in every reachable state.
THEOREM ListInvariant == Spec => []ListInv
<1>1. ListInv /\ [Next]_vars => ListInv'
  BY TypeInductive, DiskInductive, CheckInductive DEF ListInv
<1>. QED  BY InitInv, <1>1, PTL DEF Spec

\* CheckURL: an answer given without trouble reading the file comes from the
\* list that was on disk when the check began, or from a later one.
THEOREM ChecksAreCurrent == Spec => []AnswersCurrent
<1>1. ListInv => AnswersCurrent
  BY DEF ListInv, CheckInv, AnswersCurrent
<1>. QED  BY ListInvariant, <1>1, PTL

\* Refresh and reload: every answer consults the domains of every feed, or is
\* ErrListUnavailable.
THEOREM ChecksConsultEveryFeed == Spec => []EveryFeedConsulted
<1>1. ListInv => EveryFeedConsulted
  BY DEF ListInv, CheckInv, EveryFeedConsulted
<1>. QED  BY ListInvariant, <1>1, PTL

\* reload: the parsed copy never goes back to an older list, short of a restart.
THEOREM CacheOnlyAdvances == Spec => CacheNeverGoesBack
<1>1. ListInv /\ [Next]_vars => [cache' = NoList \/ cache'.mark >= cache.mark]_memory
  <2>. SUFFICES ASSUME ListInv, [Next]_vars, UNCHANGED memory => FALSE
                PROVE  cache' = NoList \/ cache'.mark >= cache.mark
    OBVIOUS
  <2>1. ASSUME NEW c \in Checks, Install(c) PROVE cache'.mark >= cache.mark
    BY <2>1 DEF Install, ListInv, CheckInv, DiskInv
  <2>2. ASSUME NEW c \in Checks, Call(c) \/ (Step(c) /\ ~Install(c)) PROVE UNCHANGED memory
    BY <2>2 DEF Call, Step, Stat, Compare, Fallback, Lock, StatAgain, CompareAgain, Open,
                Parse, GiveUp
  <2>3. ASSUME Refreshing \/ Disappear PROVE UNCHANGED memory
    BY <2>3 DEF Refreshing, BeginRefresh, Gather, Rename, WriteFails, Fetch, Disappear
  <2>4. ASSUME Restart PROVE cache' = NoList
    BY <2>4 DEF Restart
  <2>5. ~UNCHANGED vars
    BY DEF vars, memory
  <2>. QED  BY <2>1, <2>2, <2>3, <2>4, <2>5 DEF Next
<1>. QED  BY ListInvariant, <1>1, PTL DEF Spec, CacheNeverGoesBack

-----------------------------------------------------------------------------
(* What a sweep deletes.                                                   *)

\* The placeholder is typed.
LEMMA NoLinkType == NoLink \in Link
BY DEF NoLink, Link, Targets

\* The invariant holds at the start.
LEMMA InitSweep == SweepInit => SweepInv
BY NoLinkType DEF SweepInit, SweepInv, SweepTypeOK, OnlyMatchesAreDoomed

\* A sweep that is over leaves nothing behind.
LEMMA EndIsClean == ASSUME EndSweep PROVE
  /\ phase' = "idle" /\ left' = {} /\ doomed' = {} /\ removed' = {}
  /\ rows' \in [Ids -> Link]
BY NoLinkType DEF EndSweep

\* Every step keeps the invariant.
LEMMA SweepInductive == SweepInv /\ [SweepNext]_sweepVars => SweepInv'
<1>. SUFFICES ASSUME SweepInv, [SweepNext]_sweepVars PROVE SweepInv'
  OBVIOUS
<1>0. SweepTypeOK /\ OnlyMatchesAreDoomed
  BY DEF SweepInv
<1>. USE DEF SweepInv, SweepTypeOK, OnlyMatchesAreDoomed, table, list, sweep
<1>1. CASE FirstRead
  BY <1>1 DEF FirstRead
<1>2. CASE NewList
  BY <1>2 DEF NewList
<1>3. ASSUME NEW i \in Ids, Create(i) PROVE SweepInv'
  BY <1>3 DEF Create
<1>4. ASSUME NEW i \in Ids, Edit(i) PROVE SweepInv'
  <2>1. PICK t \in Targets : link' = [link EXCEPT ![i].long = t]
    BY <1>4 DEF Edit
  <2>2. link' \in [Ids -> Link]
    BY <2>1 DEF Link
  <2>. QED  BY <1>4, <2>2 DEF Edit
<1>5. ASSUME NEW i \in Ids, Delete(i) PROVE SweepInv'
  BY <1>5, NoLinkType DEF Delete
<1>6. CASE BeginSweep
  BY <1>6 DEF BeginSweep
<1>7. ASSUME NEW i \in Ids, CheckRow(i) PROVE SweepInv'
  <2>1. CASE EndSweep
    BY <1>7, <2>1, EndIsClean DEF CheckRow
  <2>2. CASE left' = left \ {i} /\ phase' = phase /\ rows' = rows /\ doomed' = doomed /\ removed' = removed
    BY <1>7, <2>2 DEF CheckRow
  <2>3. CASE /\ \E t \in Swept(rows[i]) : Condemns(t)
             /\ left' = left \ {i} /\ doomed' = doomed \cup {i}
             /\ UNCHANGED <<phase, rows, removed>>
    <3>1. \E t \in Swept(rows[i]) : t \in Manual \/ (known /\ t \in blocked)
      BY <2>3 DEF Condemns, Matches
    <3>. QED  BY <1>7, <2>3, <3>1 DEF CheckRow
  <2>. QED  BY <1>7, <2>1, <2>2, <2>3 DEF CheckRow
<1>8. CASE BeginDeleting
  BY <1>8 DEF BeginDeleting
<1>9. ASSUME NEW i \in Ids, Remove(i) PROVE SweepInv'
  BY <1>9, NoLinkType DEF Remove
<1>10. ASSUME NEW i \in Ids, RemoveFails(i) PROVE SweepInv'
  BY <1>10 DEF RemoveFails
<1>11. CASE Finish
  BY <1>11, EndIsClean DEF Finish
<1>12. CASE Reboot
  BY <1>12, EndIsClean DEF Reboot
<1>13. CASE UNCHANGED sweepVars
  BY <1>13 DEF sweepVars
<1>. QED
  BY <1>1, <1>2, <1>3, <1>4, <1>5, <1>6, <1>7, <1>8, <1>9, <1>10, <1>11, <1>12, <1>13
     DEF SweepNext, Work

\* Types, and what the phase of a sweep says of its two sets: the rows it has still to
\* check and those it has condemned, whatever happens to the links meanwhile.
THEOREM SweepInvariant == SweepSpec => []SweepInv
BY InitSweep, SweepInductive, PTL DEF SweepSpec

\* sweepBlockedLinks: whatever owners, list and failures do meanwhile, a link is
\* condemned only for a destination the operator or a list at hand blocks.
THEOREM OnlyMatchesCondemned == SweepSpec => []OnlyMatchesAreDoomed
<1>1. SweepInv => OnlyMatchesAreDoomed
  BY DEF SweepInv
<1>. QED  BY SweepInvariant, <1>1, PTL

\* sweepBlockedLinks: a sweep that ends for want of a list has deleted nothing.
THEOREM AbortsDeleteNothing == SweepSpec => AbortDeletesNothing
<1>1. SweepInv => [phase = "checking" /\ phase' = "idle" => removed = {}]_phase
  BY DEF SweepInv
<1>. QED  BY SweepInvariant, <1>1, PTL DEF AbortDeletesNothing
=============================================================================
