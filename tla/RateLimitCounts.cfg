\* Two calls of one client, late by up to two ticks, around the ends of windows of
\* several lengths. The clock and the calls are bounded, so the run may stop.
CONSTANTS
  Calls = {c1, c2}
  Clients = {alice}
  Specs <- MCSpecs
  SafeDefault <- MCSafeDefault
  Margin = 2
  MayFail = TRUE
  MaxDelay = 2
  MaxTime = 6
  LastCall = 3
  MaxCalls = 3
  Visitors = {alice, bob}
  Proxies = {nginx, inner}
  Edges = {edge}
  Malformed = Malformed
  Unset = Unset
  MaxHops = 3
  MaxSent = 2
  MaxWay = 2
SPECIFICATION FairSpec
INVARIANTS WithinLimit DenialsJustified  
PROPERTIES CountersGo
CHECK_DEADLOCK FALSE
