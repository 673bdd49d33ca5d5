SPECIFICATION FairSpec
CONSTANTS
  g1 = g1
  c1 = c1
  c2 = c2
  Groups = {g1}
  Consumers = {c1, c2}
  OwnGroup <- BothOfOneTopic
  Requests = {r1, r2}
  NoValue = NoValue
  Ttl <- OneTtl
  MaxDelay = 1
  MaxSkew = 1
  MaxEvents = 2
INVARIANTS TypeOK FreshWithinHorizon ExpiresInTime
PROPERTIES EventuallyFresh
