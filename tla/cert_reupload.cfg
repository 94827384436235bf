CONSTANTS
  Ids = {1, 2}
  p1 = p1
  p2 = p2
  Pairs = {p1, p2}
  site = site
  wild = wild
  Domains <- SiteAndWildcard
  WildcardOf <- Wildcards
  Offered <- Reissued
  Uploaders = {u1}
  Clients = {}
  Nil = Nil
SPECIFICATION Spec
INVARIANT OnlyConfigured
