\* An owner with two tabs: one starts an enrollment, the other finishes one.
CONSTANTS
  Requests = {r1, r2}
  Indexes = {k1}
  MaxSecret = 2
  MaxBatch = 1
  Dialect = "Postgres"
  MayFail = FALSE
SPECIFICATION Spec
PROPERTIES OnUntilDisabled
