\* Two users take turns with one code, over one connection.
CONSTANTS
  Requests = {r1, r2}
  Users = {u1, u2}
  NoUser = NoUser
  Codes = {c1}
  NoCode = NoCode
  Kinds = {"create", "redirect", "toggle", "delete"}
  BatchSize = 1
  MaxId = 2
  MaxClicks = 1
  Dialect = "SQLite"
  MayFail = TRUE
SPECIFICATION FairSpec
PROPERTIES OwnersOnly ToggleReportsOutcome EveryRequestAnswered
