\* Two requests race for codes, counters and batches of one link each; what users
\* may do to each other is the matter of LinksSQLite.
CONSTANTS
  Requests = {r1, r2}
  Users = {u1}
  NoUser = NoUser
  Codes = {c1, c2}
  NoCode = NoCode
  Kinds = {"create", "redirect", "edit", "toggle", "bulk"}
  BatchSize = 1
  MaxId = 2
  MaxClicks = 1
  Dialect = "Postgres"
  MayFail = TRUE
SPECIFICATION Spec
SYMMETRY FullSymmetry
INVARIANTS CounterMatchesLog NoOrphanClicks
PROPERTIES BulkAllOrNothing ImplementsDirectory
