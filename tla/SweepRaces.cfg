\* Two ids, a domain a list may block and one the operator blocks by hand; the table
\* may hold anything at first.
CONSTANTS
  Ids = {1, 2}
  Domains = {d1, m1}
  Junk = Junk
  Manual = {m1}
  Failures = TRUE
SPECIFICATION FairSweep
INVARIANT OnlyMatchesAreDoomed
PROPERTIES AbortDeletesNothing BlockedLinksGo
