CONSTANTS
  Tenants = {t1, t2}
  Rules = {k1}
  Recorders = {r1, r2}
  Scrapers = {s1}
  KeepLatencies = 1
  MaxRequests = 2
  MaxHits = 1
  Nil = Nil
SPECIFICATION Spec
SYMMETRY Interchangeable
INVARIANTS TypeOK NoneLost PageAddsUp TenantsAddUp
PROPERTY ImplementsTable
CHECK_DEADLOCK FALSE
