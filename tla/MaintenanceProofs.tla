------------------------- MODULE MaintenanceProofs -------------------------
(* Type correctness of Maintenance, and why its list stays fresh.           *)
EXTENDS Maintenance, Integers, TLAPS

\* The numbers, as the arithmetic needs them.
LEMMA Numbers ==
  /\ Interval \in Int /\ MinAge \in Int /\ SweepEvery \in Int /\ MaxAge \in Int
  /\ Download \in Int /\ Sweeping \in Int /\ Pause \in Int /\ Attempts \in Int
  /\ 1 <= MinAge /\ MinAge <= Interval /\ 1 <= Attempts
  /\ 0 <= Download /\ 0 <= Sweeping /\ 0 <= Pause /\ 0 <= MaxAge
  /\ Download + Sweeping < Interval /\ Download + Sweeping < SweepEvery
BY MaintenanceAssumption

\* The invariant holds at the start,
LEMMA InitMaintenance == Init => MaintenanceInv
<1>. USE Numbers DEF Init, Labels, Ticking, Busy
<1>0. Init => /\ excused \in BOOLEAN /\ listed \in BOOLEAN /\ cancelled \in BOOLEAN
             /\ refreshDue \in BOOLEAN /\ sweepDue \in BOOLEAN /\ (~excused => ~Old(age))
  BY Zenon DEF Old
<1>1. Init => TypeOK
  BY <1>0 DEF TypeOK
<1>2. Init => TimeInv
  BY DEF TimeInv
<1>3. Init => AgeInv
  BY <1>0 DEF AgeInv, Old
<1>. QED  BY <1>1, <1>2, <1>3 DEF MaintenanceInv

\* The worker between two ticks.
LEMMA WorkerKeeps == MaintenanceInv /\ Worker => MaintenanceInv'
<1>. SUFFICES ASSUME MaintenanceInv, Worker PROVE MaintenanceInv'
  OBVIOUS
<1>. USE Numbers
     DEF MaintenanceInv, TypeOK, TimeInv, AgeInv, Labels, Ticking, Busy, Goto, Sweeps,
         list, tickers, Spent
<1>1. CASE Boot
  BY <1>1 DEF Boot, UpToDate, Old
<1>2. CASE BootInstalls
  <2>0. listed' \in BOOLEAN /\ excused' \in BOOLEAN /\ listed' /\ ~excused'
    BY <1>2, Zenon DEF BootInstalls, Downloads, Install
  <2>1. TypeOK'
    BY <1>2, <2>0 DEF BootInstalls, Downloads, Install
  <2>2. TimeInv'
    BY <1>2, <2>0 DEF BootInstalls, Downloads, Install
  <2>3. AgeInv'
    BY <1>2, <2>0 DEF BootInstalls, Downloads, Install
  <2>. QED  BY <2>1, <2>2, <2>3
<1>3. CASE BootFails
  BY <1>3 DEF BootFails, Fails, GivesUp
<1>4. CASE Retry
  <2>1. TypeOK'
    BY <1>4 DEF Retry
  <2>2. TimeInv'
    BY <1>4 DEF Retry
  <2>3. AgeInv'
    BY <1>4 DEF Retry
  <2>. QED  BY <2>1, <2>2, <2>3
<1>5. CASE StartTickers
  <2>0. refreshDue' \in BOOLEAN /\ sweepDue' \in BOOLEAN /\ ~refreshDue' /\ ~sweepDue'
    BY <1>5, Zenon DEF StartTickers
  <2>1. TypeOK'
    BY <1>5, <2>0 DEF StartTickers
  <2>2. TimeInv'
    BY <1>5, <2>0 DEF StartTickers
  <2>3. AgeInv'
    BY <1>5, <2>0 DEF StartTickers
  <2>. QED  BY <2>1, <2>2, <2>3
<1>6. CASE BeginRefresh
  <2>0. refreshDue' \in BOOLEAN /\ ~refreshDue'
    BY <1>6, Zenon DEF BeginRefresh, UpToDate, Old
  <2>1. TypeOK'
    BY <1>6, <2>0 DEF BeginRefresh, UpToDate, Old
  <2>2. TimeInv'
    BY <1>6, <2>0 DEF BeginRefresh, UpToDate, Old
  <2>3. AgeInv'
    BY <1>6, <2>0 DEF BeginRefresh, UpToDate, Old
  <2>. QED  BY <2>1, <2>2, <2>3
<1>7. CASE EndRefresh
  <2>0. excused' \in BOOLEAN /\ listed' \in BOOLEAN /\ (~excused' => age' = 0)
    BY <1>7, Zenon DEF EndRefresh, Downloads, Install, Fails
  <2>1. TypeOK'
    BY <1>7, <2>0 DEF EndRefresh, Downloads, Install, Fails
  <2>2. TimeInv'
    BY <1>7, <2>0 DEF EndRefresh, Downloads, Install, Fails
  <2>3. AgeInv'
    BY <1>7, <2>0 DEF EndRefresh, Downloads, Install, Fails
  <2>. QED  BY <2>1, <2>2, <2>3
<1>8. CASE BeginSweep
  <2>0. sweepDue' \in BOOLEAN /\ ~sweepDue'
    BY <1>8, Zenon DEF BeginSweep, MaySweep
  <2>1. TypeOK'
    BY <1>8, <2>0 DEF BeginSweep, MaySweep
  <2>2. TimeInv'
    BY <1>8, <2>0 DEF BeginSweep, MaySweep
  <2>3. AgeInv'
    BY <1>8, <2>0 DEF BeginSweep, MaySweep
  <2>. QED  BY <2>1, <2>2, <2>3
<1>9. CASE EndSweep
  BY <1>9 DEF EndSweep
<1>10. CASE Stop
  BY <1>10 DEF Stop
<1>. QED
  BY <1>1, <1>2, <1>3, <1>4, <1>5, <1>6, <1>7, <1>8, <1>9, <1>10 DEF Worker

\* The clock, which waits for a worker that has something to do.
LEMMA TickKeeps == MaintenanceInv /\ Tick => MaintenanceInv'
<1>. SUFFICES ASSUME MaintenanceInv, Tick PROVE MaintenanceInv'
  OBVIOUS
<1>. USE Numbers
     DEF MaintenanceInv, TypeOK, TimeInv, AgeInv, Labels, Ticking, Busy, Spent
<1>1. CASE pc \notin Ticking
  BY <1>1 DEF Tick, Urgent, tickers
<1>2. CASE pc = "idle"
  BY <1>2 DEF Tick, Urgent, Countdown
<1>3. CASE pc = "fetch"
  BY <1>3 DEF Tick, Urgent, Countdown
<1>4. CASE pc = "sweep"
  BY <1>4 DEF Tick, Urgent, Countdown
<1>. QED  BY <1>1, <1>2, <1>3, <1>4

\* and every step keeps it.
LEMMA MaintenanceInductive == MaintenanceInv /\ [Next]_vars => MaintenanceInv'
<1>. SUFFICES ASSUME MaintenanceInv, [Next]_vars PROVE MaintenanceInv'
  OBVIOUS
<1>. USE Numbers
     DEF MaintenanceInv, TypeOK, TimeInv, AgeInv, Labels, Ticking, Busy, Goto,
         list, tickers, Spent
<1>1. CASE Cancel
  BY <1>1 DEF Cancel
<1>2. CASE Crash
  BY <1>2 DEF Crash
<1>3. CASE Restart
  <2>0. cancelled' \in BOOLEAN /\ excused' \in BOOLEAN /\ (~excused' => ~Old(age))
    BY <1>3, Zenon DEF Restart, Old
  <2>1. TypeOK'
    BY <1>3, <2>0 DEF Restart, Old
  <2>2. TimeInv'
    BY <1>3, <2>0 DEF Restart, Old
  <2>3. AgeInv'
    BY <1>3, <2>0 DEF Restart, Old
  <2>. QED  BY <2>1, <2>2, <2>3
<1>4. CASE Disappear
  <2>0. listed' \in BOOLEAN /\ ~listed'
    BY <1>4, Zenon DEF Disappear
  <2>1. TypeOK'
    BY <1>4, <2>0 DEF Disappear
  <2>2. TimeInv'
    BY <1>4, <2>0 DEF Disappear
  <2>3. AgeInv'
    BY <1>4, <2>0 DEF Disappear
  <2>. QED  BY <2>1, <2>2, <2>3
<1>5. CASE UNCHANGED vars
  BY <1>5 DEF vars
<1>. QED
  BY <1>1, <1>2, <1>3, <1>4, <1>5, WorkerKeeps, TickKeeps DEF Next

\* The types, the time every activity has taken and the age of the list at the
\* next tick of the refresh ticker, for any intervals.
THEOREM MaintenanceInvariant == Spec => []MaintenanceInv
BY InitMaintenance, MaintenanceInductive, PTL DEF Spec

\* maintainBlocklist, Refresh: for any intervals, a list no failed refresh stands
\* behind is replaced before MinAge + Interval + two sweeps + a download.
THEOREM ListIsFresh == Spec => []ListStaysFresh
<1>1. MaintenanceInv => ListStaysFresh
  BY MaintenanceAssumption
     DEF MaintenanceInv, TypeOK, TimeInv, AgeInv, ListStaysFresh, Labels, Ticking, Busy,
         Spent
<1>. QED  BY MaintenanceInvariant, <1>1, PTL

\* maintainBlocklist: the tickers share one goroutine and lose nothing by it.
THEOREM TickersAreServed == Spec => []NoTickLost
<1>1. MaintenanceInv => NoTickLost
  BY MaintenanceAssumption
     DEF MaintenanceInv, TypeOK, TimeInv, NoTickLost, Labels, Ticking, Busy, Spent
<1>. QED  BY MaintenanceInvariant, <1>1, PTL
=============================================================================
