----------------------------- MODULE MCSchedule -----------------------------
(* A schedule with two units to the minute and two minutes to the hour; the *)
(* statistics page is asked for by the same clock, which passes midnight.   *)
EXTENDS Schedule, Statistics

Midnight == 32 * PerDay - Hour
MCNows == Midnight .. Midnight + LastTime

\* timeBuckets ("double-counted in the total and so in the daily average too"): the
\* bars a click since the cutoff adds to, among them the oldest one and the one that is
\* going on, are exactly the one of its hour or day, whatever minute it is now; earlier
\* clicks add to none; and the oldest bar is not always empty.
EachClickCountedOnce == EveryClickRight[Midnight + now]
=============================================================================
