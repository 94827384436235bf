CONSTANTS
  Ids = {t1}
  Domains = {d1}
  Contents = {c1}
  Nil = Nil
  Backend = "postgres"
  StoreFaults = FALSE
  CacheKind = "none"
  Getters = {g1}
  Listers = {l1}
SPECIFICATION FairSpec
PROPERTY StillExists
