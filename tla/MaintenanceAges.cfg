\* The refresh ticker is as slow as the age Refresh asks for, the sweep ticker is
\* faster and drifts against it.
CONSTANTS
  Interval = 6
  MinAge = 6
  SweepEvery = 5
  Attempts = 3
  Download = 2
  Sweeping = 1
  Pause = 1
  MaxAge = 16
  AutoRemove = TRUE
SPECIFICATION FairSpec
INVARIANT ListStaysFresh
PROPERTIES SweepsGoOn WorkerStops
