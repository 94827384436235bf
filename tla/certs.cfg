CONSTANTS
  Ids = {1, 2}
  p1 = p1
  p2 = p2
  Pairs = {p1, p2}
  site = site
  wild = wild
  Domains <- SiteAndWildcard
  WildcardOf <- Wildcards
  Offered <- Reissued
  Uploaders = {u1}
  Clients = {c1}
  Nil = Nil
SPECIFICATION Spec
INVARIANTS TypeOK DiskAgrees
PROPERTIES FailsOnlyIfTouched RestartKeepsServing DeleteNotUndone DeleteSparesOthers
