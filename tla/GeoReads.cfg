\* Two lookups and a closer; a database is replaced once and a third mapping is
\* made after the file came back.
CONSTANTS
  Lookups = {l1, l2}
  Closer = Closer
  MaxGen = 2
  MaxOpens = 3
  MayFail = TRUE
SPECIFICATION FairSpec
INVARIANTS NoReadOfUnmapped NothingLeaks QueriesCurrent
PROPERTIES EveryCallReturns
