CONSTANTS
  Ids = {t1}
  Domains = {d1}
  Contents = {c1}
  Nil = Nil
  Backend = "memory"
  StoreFaults = FALSE
  CacheKind = "memory"
  Getters = {}
  Listers = {l1}
SPECIFICATION FairSpec
INVARIANT DeletedStaysGone
