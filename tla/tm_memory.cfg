CONSTANTS
  Ids = {t1, t2}
  Domains = {d1}
  Contents = {c1}
  Nil = Nil
  Backend = "memory"
  StoreFaults = FALSE
  CacheKind = "memory"
  Getters = {g1}
  Listers = {l1}
SPECIFICATION FairSpec
INVARIANTS StoredIsLoaded CacheMatchesStore
PROPERTIES WriteThrough RoutesHeal StaleCopyHeals
