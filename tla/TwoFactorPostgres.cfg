\* One account in two tabs, one recovery code to an enrolment, a second secret and a
\* second batch to replace the first with.
CONSTANTS
  Requests = {r1, r2}
  Indexes = {k1}
  MaxSecret = 2
  MaxBatch = 2
  Dialect = "Postgres"
  MayFail = TRUE
SPECIFICATION FairSpec
INVARIANT CodesWorkOnce
PROPERTIES SwitchesAreAtomic EveryRequestAnswered
