CONSTANTS
  Ids = {t1, t2}
  site = site
  wild = wild
  Domains <- Wildcard
  Hosts <- SiteAndWildcard
  WildcardOf <- Wildcards
  CatchAll = Nil
  Contents = {c1, c2}
  Disabled = {c2}
  Nil = Nil
  Backend = "postgres"
  StoreFaults = TRUE
  CacheKind = "none"
  Getters = {}
  Listers = {}
  Requests = {q1, q2}
  Txs = {x1, x2}
SPECIFICATION RequestSpec
SYMMETRY Alike
VIEW Seen
INVARIANTS RequestTypeOK UndisturbedIsServed OneOwner RefusedStays
