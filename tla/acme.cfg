CONSTANTS
  Ids = {1, 2}
  AcmeIds = {1}
  p1 = p1
  p2 = p2
  Pairs = {p1, p2}
  site = site
  Domains <- OneSite
  WildcardOf <- NoWildcard
  Offered <- Certificates
  Uploaders = {g1, g2, h}
  Provisioners = {g1, g2}
  Clients = {}
  Tokens = {k1}
  Nil = Nil
SPECIFICATION AcmeSpec
INVARIANTS AcmeTypeOK Answerable ChallengesAccounted KeptServed
PROPERTIES NeverGoesBack ProvisioningEnds
