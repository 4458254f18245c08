---------------------------- MODULE Maintenance ----------------------------
(***************************************************************************)
(* maintainBlocklist of cmd/redrx, against the clock: the worker installs  *)
(* a first list with retries, sweeps once, and then serves two tickers one *)
(* at a time until it is cancelled.  What a refresh installs is a matter   *)
(* of Blocklist and what a sweep deletes one of Sweep; here they take time *)
(* and fail or not.  The clock moves in ticks and only when the worker has *)
(* nothing to do at once.                                                  *)
(***************************************************************************)
EXTENDS Naturals

CONSTANTS
  Interval,     \* of the refresh ticker
  MinAge,       \* the age under which Refresh leaves the list alone
  SweepEvery,   \* interval of the sweep ticker
  Attempts,     \* downloads tried at boot
  Download,     \* the longest a refresh takes: the feeds' timeout
  Sweeping,     \* the longest a sweep takes
  Pause,        \* the longest pause between two attempts
  MaxAge,       \* bound: ages from here on are one
  AutoRemove    \* ENABLE_AUTO_REMOVE_PHISHING

\* The tickers are slow: neither fires twice while the worker is at work.
ASSUME MaintenanceAssumption ==
  /\ Interval \in Nat /\ MinAge \in 1 .. Interval /\ SweepEvery \in Nat
  /\ Attempts \in Nat \ {0} /\ Download \in Nat /\ Sweeping \in Nat /\ Pause \in Nat
  /\ Download + Sweeping < Interval /\ Download + Sweeping < SweepEvery
  /\ MaxAge \in Nat /\ MinAge + Interval + 2 * Sweeping + Download <= MaxAge
  /\ AutoRemove \in BOOLEAN

VARIABLES
  listed,       \* there is a list on disk
  age,          \* of that list: 0 when there is none
  pc,           \* where the worker is
  attempt,      \* of the boot loop
  left,         \* ticks the activity at hand may still take
  toRefresh, toSweep,           \* ticks until the tickers fire next
  refreshDue, sweepDue,         \* their channels, which hold one tick each
  cancelled,    \* the context is
  excused       \* history: a refresh failed since the list was installed, or the
                \* worker found it old when it started

vars == <<listed, age, pc, attempt, left, toRefresh, toSweep, refreshDue, sweepDue,
          cancelled, excused>>
list == <<listed, age, excused>>
tickers == <<toRefresh, toSweep, refreshDue, sweepDue>>

Busy == {"bootFetch", "backoff", "bootSweep", "fetch", "sweep"}
Ticking == {"idle", "fetch", "sweep"}   \* the tickers exist
Labels == Busy \cup {"boot", "idle", "stopped"}

Old(a) == a >= MinAge

Init ==
  /\ listed \in BOOLEAN /\ age \in 0 .. MaxAge /\ (~listed => age = 0)
  /\ pc = "boot" /\ attempt = 1 /\ left = 0
  /\ toRefresh = Interval /\ toSweep = SweepEvery
  /\ refreshDue = FALSE /\ sweepDue = FALSE
  /\ cancelled = FALSE
  /\ excused \in BOOLEAN /\ (excused <=> Old(age))

-----------------------------------------------------------------------------
(* Refresh and sweep, as far as the worker sees them.                      *)

Goto(label, time) == pc' = label /\ left' = time

\* Mutant: the age is not looked at.
AnyList == listed

\* A list young enough is kept without a download.
UpToDate == listed /\ ~Old(age)

Sweeps(label) == Goto(label, IF AutoRemove THEN Sweeping ELSE 0)

Install == listed' = TRUE /\ age' = 0 /\ excused' = FALSE

\* A cancelled context ends every download.
Downloads == ~cancelled /\ Install
Fails == excused' = TRUE /\ UNCHANGED <<listed, age>>

-----------------------------------------------------------------------------
(* The boot loop.                                                          *)

Boot ==
  /\ pc = "boot"
  /\ IF UpToDate THEN Sweeps("bootSweep") ELSE Goto("bootFetch", IF cancelled THEN 0 ELSE Download)
  /\ UNCHANGED <<list, attempt, tickers, cancelled>>

BootInstalls ==
  /\ pc = "bootFetch" /\ Downloads
  /\ Sweeps("bootSweep")
  /\ UNCHANGED <<attempt, tickers, cancelled>>

GivesUp == attempt >= Attempts

\* Without a list every check fails closed until a refresh of the ticker's.
BootFails ==
  /\ pc = "bootFetch" /\ Fails
  /\ IF GivesUp
     THEN Sweeps("bootSweep") ELSE Goto("backoff", IF cancelled THEN 0 ELSE Pause)
  /\ UNCHANGED <<attempt, tickers, cancelled>>

Retry ==
  /\ pc = "backoff"
  /\ Goto("boot", 0) /\ attempt' = attempt + 1
  /\ UNCHANGED <<list, tickers, cancelled>>

\* The tickers are made when the first sweep is over.
StartTickers ==
  /\ pc = "bootSweep"
  /\ Goto("idle", 0)
  /\ toRefresh' = Interval /\ toSweep' = SweepEvery
  /\ refreshDue' = FALSE /\ sweepDue' = FALSE
  /\ UNCHANGED <<list, attempt, cancelled>>

-----------------------------------------------------------------------------
(* The select loop: which ready case it takes is anybody's guess.          *)

BeginRefresh ==
  /\ pc = "idle" /\ refreshDue
  /\ refreshDue' = FALSE
  /\ IF UpToDate THEN Goto("idle", 0) ELSE Goto("fetch", IF cancelled THEN 0 ELSE Download)
  /\ UNCHANGED <<list, attempt, toRefresh, toSweep, sweepDue, cancelled>>

EndRefresh ==
  /\ pc = "fetch" /\ (Downloads \/ Fails)
  /\ Goto("idle", 0)
  /\ UNCHANGED <<attempt, tickers, cancelled>>

\* Mutant: a sweep waits for a list that no failed refresh stands behind.
AfterARefresh == sweepDue /\ ~excused

\* The sweep has a schedule of its own.
MaySweep == sweepDue

BeginSweep ==
  /\ pc = "idle" /\ MaySweep
  /\ sweepDue' = FALSE /\ Sweeps("sweep")
  /\ UNCHANGED <<list, attempt, toRefresh, toSweep, refreshDue, cancelled>>

EndSweep ==
  /\ pc = "sweep"
  /\ Goto("idle", 0)
  /\ UNCHANGED <<list, attempt, tickers, cancelled>>

\* Mutant: only the pause between two attempts is interrupted.
StopsPausing == pc = "backoff"

StopsHere == pc \in {"idle", "backoff"}

Stop ==
  /\ cancelled /\ StopsHere
  /\ Goto("stopped", 0)
  /\ UNCHANGED <<list, attempt, tickers, cancelled>>

Worker ==
  \/ Boot \/ BootInstalls \/ BootFails \/ Retry \/ StartTickers
  \/ BeginRefresh \/ EndRefresh \/ BeginSweep \/ EndSweep \/ Stop

-----------------------------------------------------------------------------
(* Signals, crashes, the operator and the clock.                           *)

\* Downloads and statements under way return with the context's error.
Cancel ==
  /\ ~cancelled /\ pc # "stopped"
  /\ cancelled' = TRUE /\ left' = 0
  /\ UNCHANGED <<list, pc, attempt, tickers>>

Crash ==
  /\ pc # "stopped"
  /\ Goto("stopped", 0)
  /\ UNCHANGED <<list, attempt, tickers, cancelled>>

Restart ==
  /\ pc = "stopped"
  /\ Goto("boot", 0) /\ attempt' = 1 /\ cancelled' = FALSE
  /\ excused' \in BOOLEAN /\ (excused' <=> Old(age))
  /\ UNCHANGED <<listed, age, tickers>>

Disappear ==
  /\ listed
  /\ listed' = FALSE /\ age' = 0
  /\ UNCHANGED <<excused, pc, attempt, left, tickers, cancelled>>

\* The worker can go on without waiting for anything.
Urgent ==
  \/ pc = "boot" \/ (pc \in Busy /\ left = 0)
  \/ pc = "idle" /\ (refreshDue \/ sweepDue \/ cancelled)

Countdown(n, every) == IF n = 1 THEN every ELSE n - 1

Tick ==
  /\ ~Urgent
  /\ age' = IF listed /\ age < MaxAge THEN age + 1 ELSE age
  /\ left' = IF pc \in Busy THEN left - 1 ELSE left
  /\ IF pc \in Ticking
     THEN /\ toRefresh' = Countdown(toRefresh, Interval)
          /\ toSweep' = Countdown(toSweep, SweepEvery)
          /\ refreshDue' = (refreshDue \/ toRefresh = 1)
          /\ sweepDue' = (sweepDue \/ (AutoRemove /\ toSweep = 1))
     ELSE UNCHANGED tickers
  /\ UNCHANGED <<listed, pc, attempt, cancelled, excused>>

Next == Worker \/ Cancel \/ Crash \/ Restart \/ Disappear \/ Tick

Spec == Init /\ [][Next]_vars

\* The worker's goroutine runs and time goes by.
FairSpec == Spec /\ WF_vars(Worker) /\ WF_vars(Tick)

-----------------------------------------------------------------------------
(* What an operator may rely on.                                           *)

TypeOK ==
  /\ listed \in BOOLEAN /\ age \in 0 .. MaxAge /\ pc \in Labels
  /\ attempt \in 1 .. Attempts /\ left \in Nat
  /\ toRefresh \in 1 .. Interval /\ toSweep \in 1 .. SweepEvery
  /\ refreshDue \in BOOLEAN /\ sweepDue \in BOOLEAN
  /\ cancelled \in BOOLEAN /\ excused \in BOOLEAN

\* maintainBlocklist, Refresh: as long as no refresh fails, a list is replaced
\* before it is much older than MinAge and Interval together.
ListStaysFresh ==
  listed /\ ~excused /\ pc # "stopped"
    => age < MinAge + Interval + 2 * Sweeping + Download

\* The two schedules share one goroutine and lose no tick by it: a due sweep
\* waits for one download at most, a due refresh for one sweep.
NoTickLost ==
  pc \in Ticking =>
    /\ sweepDue => SweepEvery - toSweep <= Download
    /\ refreshDue => Interval - toRefresh <= Sweeping

\* Why they hold: the ticks an activity has taken,
Spent(time) == time - left

TimeInv ==
  /\ ~AutoRemove => ~sweepDue
  /\ pc = "backoff" => attempt < Attempts
  /\ pc \in {"bootFetch", "fetch"} => left <= Download
  /\ pc \in {"bootSweep", "sweep"} => left <= Sweeping
  /\ pc \in Ticking /\ refreshDue =>
       /\ pc # "fetch"
       /\ Interval - toRefresh <= IF pc = "sweep" THEN Spent(Sweeping) ELSE Sweeping
  /\ pc \in Ticking /\ sweepDue =>
       /\ pc # "sweep"
       /\ SweepEvery - toSweep <= IF pc = "fetch" THEN Spent(Download) ELSE Download
  /\ pc = "idle" /\ refreshDue /\ sweepDue =>
       toRefresh = Interval /\ toSweep = SweepEvery
  /\ pc = "fetch" => Interval - toRefresh <= Sweeping + Spent(Download)
  /\ pc = "sweep" => SweepEvery - toSweep <= Download + Spent(Sweeping)

\* and what the list's age is when the ticker fires next.
AgeInv ==
  listed /\ ~excused =>
    /\ pc = "boot" => age < MinAge
    /\ pc \notin {"bootFetch", "backoff"}
    /\ pc = "bootSweep" => age < MinAge + Spent(Sweeping)
    /\ pc \in Ticking =>
         age + toRefresh < MinAge + Sweeping + Interval
           + (IF refreshDue \/ pc = "fetch" THEN Interval ELSE 0)

MaintenanceInv == TypeOK /\ TimeInv /\ AgeInv

\* Sweeps go on whatever becomes of the downloads, at boot and later.
SweepsGoOn ==
  AutoRemove => (pc # "stopped" ~> pc \in {"bootSweep", "sweep", "stopped"} \/ cancelled)

\* run waits for the worker: a cancelled worker is gone in the end.
WorkerStops == cancelled ~> ~cancelled \/ pc = "stopped"

=============================================================================
