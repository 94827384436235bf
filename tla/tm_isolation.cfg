CONSTANTS
  Ids = {t1, t2}
  Domains = {d1, d2}
  Contents = {c1}
  Nil = Nil
  Backend = "none"
  StoreFaults = FALSE
  CacheKind = "memory"
  Getters = {}
  Listers = {}
SPECIFICATION FairSpec
PROPERTY Isolation
