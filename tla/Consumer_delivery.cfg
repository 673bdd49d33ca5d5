SPECIFICATION FairSpec
CONSTANTS
  p1 = p1
  p2 = p2
  k1 = k1
  k2 = k2
  c1 = c1
  c2 = c2
  c3 = c3
  Partitions = {p1, p2}
  Log <- LogAnonymous
  Keys = {k1, k2}
  Uuids = {u1, u2, u3}
  NoKey = NoKey
  Clients = {c1, c2, c3}
  BadClients = {}
  NoClient = NoClient
  NoSrc = NoSrc
  BatchSize = 2
  Faults = {"crash", "sigterm", "rejoin"}
  MaxFaults = 2
INVARIANTS DuplicatesBounded
PROPERTIES Implements EveryMessageHandled Converges
