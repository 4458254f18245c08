---------------------------- MODULE Statistics ----------------------------
(***************************************************************************)
(* The time series of the statistics page: timeBuckets and handleStats of  *)
(* internal/web/handlers_stats.go, ClicksByTimeBucket of internal/store.   *)
(* Instants are numbers, in UTC, so a day is always twenty-four hours.     *)
(***************************************************************************)
EXTENDS Naturals, FiniteSets

CONSTANTS
  PerHour,      \* instants told apart within an hour
  Nows          \* bound: the instants at which the page is asked for

ASSUME StatisticsAssumption == PerHour \in Nat \ {0} /\ Nows \subseteq Nat

Ranges == {"24h", "7d", "30d"}
HoursPerDay == 24
PerDay == HoursPerDay * PerHour

\* A label names an hour of any day, or a date.
Label(t, hourly) == IF hourly THEN (t \div PerHour) % HoursPerDay ELSE t \div PerDay

-----------------------------------------------------------------------------
(* timeBuckets.                                                            *)

Hourly(range) == range = "24h"
Oldest(range) == CASE range = "24h" -> 23 [] range = "7d" -> 7 [] range = "30d" -> 30
BarWidth(range) == IF Hourly(range) THEN PerHour ELSE PerDay

\* Mutant: a day ago, in the middle of an hour.
DayAgo(range, at) == IF Hourly(range) THEN at - PerDay ELSE at - Oldest(range) * PerDay

Cutoff(range, at) ==
  (IF Hourly(range) THEN at - (at % PerHour) ELSE at) - Oldest(range) * BarWidth(range)

Labels(range, at) ==
  [i \in 0 .. Oldest(range) |-> Label(at - i * BarWidth(range), Hourly(range))]

-----------------------------------------------------------------------------
(* ClicksByTimeBucket, and what handleStats draws.                         *)

Counts(clicks, cutoff, hourly) ==
  LET counted == {t \in clicks : t >= cutoff}
  IN  [l \in {Label(t, hourly) : t \in counted} |->
         Cardinality({t \in counted : Label(t, hourly) = l})]

\* A label that no click has counts zero, a click without a label is not drawn.
Values(clicks, range, at) ==
  LET counts == Counts(clicks, Cutoff(range, at), Hourly(range))
      labels == Labels(range, at)
  IN  [i \in DOMAIN labels |-> IF labels[i] \in DOMAIN counts THEN counts[labels[i]] ELSE 0]

-----------------------------------------------------------------------------
(* What the chart promises.                                                *)

\* The hour or the day that label i stands for.
In(t, i, range, at) == t \div BarWidth(range) = (at - i * BarWidth(range)) \div BarWidth(range)

\* Up to the end of the hour or day that is going on.
Clicks(range, at) ==
  Cutoff(range, at) - PerDay .. at + BarWidth(range) - (at % BarWidth(range)) - 1

Right(t, range, at) ==
  LET values == Values({t}, range, at)
      bars == {i \in DOMAIN values : values[i] > 0}
      since == t >= Cutoff(range, at)
  IN  /\ bars = {i \in DOMAIN values : since /\ In(t, i, range, at)}
      /\ Cardinality(bars) = IF since THEN 1 ELSE 0

\* ... and no cutoff leaves out the whole hour or day of the oldest label.
EveryClickRight ==
  [at \in Nows |-> \A range \in Ranges :
     /\ \A t \in Clicks(range, at) : Right(t, range, at)
     /\ In(Cutoff(range, at), Oldest(range), range, at)]

=============================================================================
