SPECIFICATION FairSpec
CONSTANTS
  c1 = c1
  c2 = c2
  c3 = c3
  p1 = p1
  p2 = p2
  Clients = {c1, c2, c3}
  Partitions = {p1, p2}
  PartitionOf <- Hashed
  Limits = {0, 1}
  QueueSize = 2
  MaxGenerated = 3
  MaxOutages = 1
INVARIANTS TypeOK ClientOrder NothingLeftBehind
PROPERTIES StopsInTheEnd
