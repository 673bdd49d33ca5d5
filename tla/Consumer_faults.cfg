SPECIFICATION Spec
CONSTANTS
  p1 = p1
  p2 = p2
  k1 = k1
  k2 = k2
  c1 = c1
  c2 = c2
  c3 = c3
  Partitions = {p1, p2}
  Log <- LogPoison
  Keys = {k1, k2}
  Uuids = {u1, u2, u3, u4}
  NoKey = NoKey
  Clients = {c1, c2, c3}
  BadClients = {c3}
  NoClient = NoClient
  NoSrc = NoSrc
  BatchSize = 2
  Faults = {"crash", "sigterm", "rejoin", "midrejoin", "flush", "dlq"}
  MaxFaults = 2
SYMMETRY UuidSymmetry
INVARIANTS TypeOK IInv LossIsAccountedFor RowNotBehindCommit CacheCoversCommitted
PROPERTIES CommitMonotone
