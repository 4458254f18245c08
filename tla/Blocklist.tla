----------------------------- MODULE Blocklist -----------------------------
(***************************************************************************)
(* The phishing list of internal/safety: one file on disk, replaced by     *)
(* Refresh out of several feeds, and one parsed copy in memory that every  *)
(* CheckURL compares with the file before it uses it.                      *)
(*                                                                         *)
(* A list is known by its mark, which stands for the modification time and *)
(* the size Checker compares, and by the feeds whose domains it has.       *)
(* How a host is matched against its domains is left out.                  *)
(***************************************************************************)
EXTENDS Naturals

CONSTANTS
  Checks,       \* calls of CheckURL in flight; a slot is used again
  Feeds,        \* the configured feeds
  MaxMark,      \* bound: lists installed
  MayFail       \* TRUE: a stat, an open, a read or a write may fail

ASSUME BlocklistAssumption == MaxMark \in Nat /\ Feeds # {} /\ MayFail \in BOOLEAN

Marks == 0 .. MaxMark
List == [mark: Marks, has: SUBSET Feeds]
NoList == [mark |-> 0, has |-> {}]

VARIABLES
  file,         \* the list on disk, NoList when the file is missing
  lastMark,     \* the mark of the last list installed
  cache,        \* domains: the parsed list, NoList before the first load
  mark,         \* modTime and size of what was parsed
  holder,       \* reloadMu: {the check that holds it}
  pc,           \* pc[c]: where call c is
  saw,          \* saw[c]: what the last os.Stat of c returned
  handle,       \* handle[c]: the list behind the file c has open
  used,         \* used[c]: the list c answered from, NoList for ErrListUnavailable
  since,        \* history: the mark on disk when c was called
  hurt,         \* history: c met a missing file or a failing read
  refresh,      \* where Refresh is
  got,          \* feeds whose body has arrived
  failed        \* feeds whose download failed

disk == <<file, lastMark>>
memory == <<cache, mark>>
calls == <<pc, saw, handle, used, since, hurt>>
download == <<refresh, got, failed>>
vars == <<file, lastMark, cache, mark, holder, pc, saw, handle, used, since, hurt,
          refresh, got, failed>>

Reloading == {"statAgain", "compareAgain", "open", "parse", "install", "giveUp"}
Labels == {"idle", "stat", "compare", "fallback", "lock", "answered"} \cup Reloading

Init ==
  /\ file = NoList /\ lastMark = 0
  /\ cache = NoList /\ mark = 0 /\ holder = {}
  /\ pc = [c \in Checks |-> "idle"]
  /\ saw = [c \in Checks |-> 0]
  /\ handle = [c \in Checks |-> NoList]
  /\ used = [c \in Checks |-> NoList]
  /\ since = [c \in Checks |-> 0]
  /\ hurt = [c \in Checks |-> FALSE]
  /\ refresh = "idle" /\ got = {} /\ failed = {}

-----------------------------------------------------------------------------
(* CheckURL, after its host was parsed and passed the manual domains.      *)

Goto(c, label) == pc' = [pc EXCEPT ![c] = label]
Answer(c, list) == used' = [used EXCEPT ![c] = list] /\ Goto(c, "answered")
Unlock == holder' = {}

\* cachedIfFresh, for the file c has looked at.
Fresh(c) == cache # NoList /\ mark = saw[c]

Call(c) ==
  /\ pc[c] \in {"idle", "answered"}
  /\ used' = [used EXCEPT ![c] = NoList]
  /\ since' = [since EXCEPT ![c] = file.mark]
  /\ hurt' = [hurt EXCEPT ![c] = FALSE]
  /\ Goto(c, "stat")
  /\ UNCHANGED <<disk, memory, holder, saw, handle, download>>

Stat(c) ==
  /\ pc[c] = "stat"
  /\ \/ /\ file # NoList
        /\ saw' = [saw EXCEPT ![c] = file.mark] /\ Goto(c, "compare")
        /\ UNCHANGED hurt
     \/ /\ file = NoList \/ MayFail
        /\ hurt' = [hurt EXCEPT ![c] = TRUE] /\ Goto(c, "fallback")
        /\ UNCHANGED saw
  /\ UNCHANGED <<disk, memory, holder, handle, used, since, download>>

Compare(c) ==
  /\ pc[c] = "compare"
  /\ IF Fresh(c) THEN Answer(c, cache) ELSE Goto(c, "lock") /\ UNCHANGED used
  /\ UNCHANGED <<disk, memory, holder, saw, handle, since, hurt, download>>

\* The file cannot be looked at: the copy in memory, or ErrListUnavailable.
Fallback(c) ==
  /\ pc[c] = "fallback"
  /\ Answer(c, cache)
  /\ UNCHANGED <<disk, memory, holder, saw, handle, since, hurt, download>>

\* Mutant: reloads are not serialised.
LockNothing(c) ==
  /\ pc[c] = "lock"
  /\ holder' = {c}
  /\ Goto(c, "statAgain")
  /\ UNCHANGED <<disk, memory, saw, handle, used, since, hurt, download>>

Lock(c) ==
  /\ pc[c] = "lock" /\ holder = {}
  /\ holder' = {c}
  /\ Goto(c, "statAgain")
  /\ UNCHANGED <<disk, memory, saw, handle, used, since, hurt, download>>

\* A failing stat is no reason to give up: Open decides.
StatAgain(c) ==
  /\ pc[c] = "statAgain"
  /\ \/ /\ file # NoList
        /\ saw' = [saw EXCEPT ![c] = file.mark] /\ Goto(c, "compareAgain")
     \/ /\ file = NoList \/ MayFail
        /\ Goto(c, "open") /\ UNCHANGED saw
  /\ UNCHANGED <<disk, memory, holder, handle, used, since, hurt, download>>

CompareAgain(c) ==
  /\ pc[c] = "compareAgain"
  /\ IF Fresh(c) THEN Answer(c, cache) /\ Unlock
                 ELSE Goto(c, "open") /\ UNCHANGED <<used, holder>>
  /\ UNCHANGED <<disk, memory, saw, handle, since, hurt, download>>

\* From here on c reads what it has opened, whatever the path names later.
Open(c) ==
  /\ pc[c] = "open"
  /\ \/ /\ file # NoList
        /\ handle' = [handle EXCEPT ![c] = file] /\ Goto(c, "parse")
        /\ UNCHANGED hurt
     \/ /\ file = NoList \/ MayFail
        /\ hurt' = [hurt EXCEPT ![c] = TRUE] /\ Goto(c, "giveUp")
        /\ UNCHANGED handle
  /\ UNCHANGED <<disk, memory, holder, saw, used, since, download>>

\* f.Stat and parseDomainList, which also fails on a line of over 1 MiB.
Parse(c) ==
  /\ pc[c] = "parse"
  /\ \/ Goto(c, "install") /\ UNCHANGED hurt
     \/ /\ MayFail
        /\ hurt' = [hurt EXCEPT ![c] = TRUE] /\ Goto(c, "giveUp")
  /\ UNCHANGED <<disk, memory, holder, saw, handle, used, since, download>>

\* Mutant: the fingerprint is taken from the path.
PathMark(c) == file.mark

\* The fingerprint is that of the handle.
HandleMark(c) == handle[c].mark

Install(c) ==
  /\ pc[c] = "install"
  /\ cache' = handle[c] /\ mark' = HandleMark(c)
  /\ Answer(c, handle[c]) /\ Unlock
  /\ UNCHANGED <<disk, saw, handle, since, hurt, download>>

\* Mutant: the error path of reload returns with the lock held.
GiveUpLocked(c) ==
  /\ pc[c] = "giveUp"
  /\ Answer(c, cache)
  /\ UNCHANGED <<disk, memory, holder, saw, handle, since, hurt, download>>

GiveUp(c) ==
  /\ pc[c] = "giveUp"
  /\ Answer(c, cache) /\ Unlock
  /\ UNCHANGED <<disk, memory, saw, handle, since, hurt, download>>

-----------------------------------------------------------------------------
(* Refresh; only the maintenance worker calls it.                          *)

RefreshIdle == refresh' = "idle" /\ got' = {} /\ failed' = {}

\* The file is missing or old enough; Maintenance has the clock.
BeginRefresh ==
  /\ refresh = "idle" /\ lastMark < MaxMark
  /\ refresh' = "fetching"
  /\ UNCHANGED <<disk, memory, holder, calls, got, failed>>

\* One goroutine per feed.
Fetch(f) ==
  /\ refresh = "fetching" /\ f \notin got \cup failed
  /\ \/ got' = got \cup {f} /\ UNCHANGED failed
     \/ failed' = failed \cup {f} /\ UNCHANGED got
  /\ UNCHANGED <<disk, memory, holder, calls, refresh>>

\* Mutant: one feed that answers is enough.
AnyArrived == got # {}

\* A failing feed keeps the old list.
AllArrived == failed = {}

Gather ==
  /\ refresh = "fetching" /\ got \cup failed = Feeds
  /\ IF AllArrived THEN refresh' = "writing" /\ UNCHANGED <<got, failed>>
                   ELSE RefreshIdle
  /\ UNCHANGED <<disk, memory, holder, calls>>

\* The temporary file is complete before Rename gives it its name.
Rename ==
  /\ refresh = "writing"
  /\ lastMark' = lastMark + 1
  /\ file' = [mark |-> lastMark + 1, has |-> got]
  /\ RefreshIdle
  /\ UNCHANGED <<memory, holder, calls>>

\* Every body is empty, or the directory, the temporary file or the rename fails.
WriteFails ==
  /\ refresh = "writing" /\ RefreshIdle
  /\ UNCHANGED <<disk, memory, holder, calls>>

-----------------------------------------------------------------------------
(* The rest of the world.                                                  *)

\* TestServesCachedListWhenFileDisappears.
Disappear ==
  /\ MayFail /\ file # NoList
  /\ file' = NoList
  /\ UNCHANGED <<lastMark, memory, holder, calls, download>>

\* The process dies and starts again; the file stays.
Restart ==
  /\ MayFail
  /\ cache' = NoList /\ mark' = 0 /\ holder' = {}
  /\ pc' = [c \in Checks |-> "idle"] /\ used' = [c \in Checks |-> NoList]
  /\ saw' = [c \in Checks |-> 0] /\ handle' = [c \in Checks |-> NoList]
  /\ since' = [c \in Checks |-> 0] /\ hurt' = [c \in Checks |-> FALSE]
  /\ RefreshIdle
  /\ UNCHANGED disk

Step(c) ==
  \/ Stat(c) \/ Compare(c) \/ Fallback(c) \/ Lock(c) \/ StatAgain(c) \/ CompareAgain(c)
  \/ Open(c) \/ Parse(c) \/ Install(c) \/ GiveUp(c)

Refreshing == BeginRefresh \/ Gather \/ Rename \/ WriteFails \/ \E f \in Feeds : Fetch(f)

Next == Refreshing \/ Disappear \/ Restart \/ \E c \in Checks : Call(c) \/ Step(c)

Spec == Init /\ [][Next]_vars

\* A sync.Mutex that is free goes to a waiter in the end.
FairSpec == Spec /\ \A c \in Checks : SF_vars(Step(c))

-----------------------------------------------------------------------------
(* What a check may rely on.                                               *)

TypeOK ==
  /\ file \in List /\ lastMark \in Marks /\ cache \in List /\ mark \in Marks
  /\ holder \in SUBSET Checks
  /\ pc \in [Checks -> Labels]
  /\ saw \in [Checks -> Marks] /\ since \in [Checks -> Marks]
  /\ handle \in [Checks -> List] /\ used \in [Checks -> List]
  /\ hurt \in [Checks -> BOOLEAN]
  /\ refresh \in {"idle", "fetching", "writing"}
  /\ got \in SUBSET Feeds /\ failed \in SUBSET Feeds

\* CheckURL: an answer given without trouble reading the file comes from the
\* list that was on disk when the check began, or from a later one.
AnswersCurrent ==
  \A c \in Checks : pc[c] = "answered" /\ ~hurt[c] => used[c].mark >= since[c]

\* Refresh's comment on partial downloads: whoever is let past consulted the
\* domains of every feed; the other answer is ErrListUnavailable.
EveryFeedConsulted ==
  \A c \in Checks : pc[c] = "answered" => used[c] = NoList \/ used[c].has = Feeds

\* reload: the parsed copy never goes back to an older list, short of a restart.
CacheNeverGoesBack == [][cache' = NoList \/ cache'.mark >= cache.mark]_memory

\* CheckURL always comes back: no error path keeps reloadMu, and no check loses
\* the race for it forever.
EveryCheckAnswered == \A c \in Checks : pc[c] # "idle" ~> pc[c] \in {"idle", "answered"}

\* Why they hold: the fingerprint is the one of the list that was parsed, lists
\* on disk only get newer,
DiskInv ==
  /\ file # NoList => file.mark = lastMark /\ file.mark > 0 /\ file.has = Feeds
  /\ cache # NoList => cache.mark > 0 /\ cache.has = Feeds
  /\ cache.mark = mark /\ mark <= lastMark
  /\ refresh = "writing" => got = Feeds
  /\ refresh # "idle" => lastMark < MaxMark

\* only the holder of the lock reloads, and what it has open is at least as new
\* as the copy in memory.
CheckInv(c) ==
  /\ pc[c] \in Reloading => holder = {c}
  /\ since[c] <= lastMark /\ saw[c] <= lastMark
  /\ pc[c] \in {"compare", "compareAgain"} => saw[c] >= since[c] /\ saw[c] > 0
  /\ pc[c] \in {"parse", "install"} =>
       /\ handle[c].mark \in since[c] .. lastMark /\ handle[c].mark > 0
       /\ handle[c].has = Feeds /\ handle[c].mark >= mark
  /\ pc[c] = "answered" /\ ~hurt[c] => used[c].mark >= since[c]
  /\ pc[c] = "answered" => used[c] = NoList \/ used[c].has = Feeds
  /\ pc[c] \in {"fallback", "giveUp"} => hurt[c]

ListInv == TypeOK /\ DiskInv /\ \A c \in Checks : CheckInv(c)

=============================================================================
