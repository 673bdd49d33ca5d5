SPECIFICATION FairSpec
CONSTANTS
  Threads = {t1}
  Conns = {n1, n2, n3, n4}
  NoConn = NoConn
  PoolSize = 3
  MaxFaults = 3
INVARIANTS TypeOK ReadsOwnWrites
PROPERTIES KeepsServing
