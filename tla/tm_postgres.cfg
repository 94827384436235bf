CONSTANTS
  Ids = {t1, t2}
  Domains = {d1, d2}
  Contents = {c1, c2}
  Nil = Nil
  Backend = "postgres"
  StoreFaults = TRUE
  CacheKind = "none"
  Getters = {g1}
  Listers = {l1}
SPECIFICATION Spec
SYMMETRY Interchangeable
INVARIANTS TypeOK RoutesLive RoutedIsServed EngineLedger RoutedIsPersisted LoadedIsPersisted
PROPERTY ImplementsRegistry
