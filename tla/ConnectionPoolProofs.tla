------------------------- MODULE ConnectionPoolProofs -------------------------
(***************************************************************************)
(* Proofs about ConnectionPool, for any pool size and any sequence of lost    *)
(* connections and outages: its types for any number of threads, and what an  *)
(* aggregation reads for the one thread a consumer process has.              *)
(***************************************************************************)
EXTENDS ConnectionPool, SequenceTheorems, TLAPS

\* A thread is given a connection before it does anything with it.
Holders == {"ping", "holding", "executed", "done", "failed"}
Held == \A t \in Threads : IF pc[t] \in Holders THEN conn[t] \in Conns ELSE conn[t] = NoConn

\* Whatever is open is known to somebody, and an outage closes all of it.
OpenIsKnown ==
    /\ alive \subseteq InUse
    /\ \A c \in Conns : snap[c] # "none" => c \in alive
    /\ ~up => alive = {}

PoolTypes == TypeOK /\ Held

\* pop takes the last element, append puts one there.
LEMMA StackFacts ==
    ASSUME NEW s \in Seq(Conns)
    PROVE  /\ s # <<>> => /\ Last(s) \in Conns /\ Front(s) \in Seq(Conns)
                          /\ Len(Front(s)) = Len(s) - 1
                          /\ Range(s) = Range(Front(s)) \union {Last(s)}
           /\ \A c \in Conns : /\ Append(s, c) \in Seq(Conns) /\ Len(Append(s, c)) = Len(s) + 1
                               /\ Append(s, c) # <<>> /\ Last(Append(s, c)) = c
                               /\ Range(Append(s, c)) = Range(s) \union {c}
<1>1. Len(s) \in Nat /\ DOMAIN s = 1 .. Len(s) /\ \A i \in 1 .. Len(s) : s[i] \in Conns
  BY LenProperties, ElementOfSeq
<1>2. ASSUME s # <<>>
      PROVE  /\ Last(s) \in Conns /\ Front(s) \in Seq(Conns) /\ Len(Front(s)) = Len(s) - 1
             /\ Range(s) = Range(Front(s)) \union {Last(s)}
  <2>1. Len(s) \in Nat \ {0}
    BY <1>2, EmptySeq
  <2>2. Last(s) \in Conns
    BY <1>1, <2>1 DEF Last
  <2>3. /\ Front(s) \in Seq(Conns) /\ Len(Front(s)) = Len(s) - 1
        /\ \A i \in 1 .. Len(s) - 1 : Front(s)[i] = s[i]
    <3>1. \A i \in 1 .. Len(s) - 1 : s[i] \in Conns
      BY <1>1, <2>1
    <3> QED BY <1>1, <2>1, <3>1, SubSeqProperties DEF Front
  <2>4. DOMAIN Front(s) = 1 .. Len(s) - 1
    BY <2>3, LenProperties
  <2>5. 1 .. Len(s) = (1 .. Len(s) - 1) \union {Len(s)}
    BY <2>1
  <2>6. Range(s) = Range(Front(s)) \union {Last(s)}
    BY <1>1, <2>3, <2>4, <2>5 DEF Range, Last
  <2> QED BY <2>2, <2>3, <2>6
<1>3. ASSUME NEW c \in Conns
      PROVE  /\ Append(s, c) \in Seq(Conns) /\ Len(Append(s, c)) = Len(s) + 1
             /\ Append(s, c) # <<>> /\ Last(Append(s, c)) = c
             /\ Range(Append(s, c)) = Range(s) \union {c}
  <2>1. /\ Append(s, c) \in Seq(Conns) /\ Len(Append(s, c)) = Len(s) + 1
        /\ Append(s, c) # <<>>
        /\ \A i \in 1 .. Len(s) : Append(s, c)[i] = s[i]
        /\ Append(s, c)[Len(s) + 1] = c
    BY AppendProperties
  <2>2. DOMAIN Append(s, c) = 1 .. Len(s) + 1
    BY <2>1, LenProperties
  <2>3. 1 .. Len(s) + 1 = (1 .. Len(s)) \union {Len(s) + 1}
    BY <1>1
  <2>4. Last(Append(s, c)) = c
    BY <2>1 DEF Last
  <2>5. Range(Append(s, c)) = Range(s) \union {c}
    BY <1>1, <2>1, <2>2, <2>3 DEF Range
  <2> QED BY <2>1, <2>4, <2>5
<1> QED BY <1>2, <1>3

LEMMA PoolInit == Init => PoolTypes /\ OpenIsKnown /\ Len(pool) = PoolSize
<1> SUFFICES ASSUME Init PROVE PoolTypes /\ OpenIsKnown /\ Len(pool) = PoolSize
  OBVIOUS
<1>1. pool \in [1 .. PoolSize -> Conns] /\ PoolSize \in Nat
  BY PoolAssumption DEF Init
<1>2. pool \in Seq(Conns) /\ Len(pool) = PoolSize
  BY <1>1
<1>3. Range(pool) \subseteq Conns
  BY <1>1 DEF Range
<1>4. TypeOK
  BY <1>2, <1>3, PoolAssumption DEF Init, TypeOK, PCs, Ops, Snaps
<1>5. Held /\ OpenIsKnown
  BY DEF Init, Held, Holders, OpenIsKnown, InUse
<1> QED BY <1>2, <1>4, <1>5 DEF PoolTypes

-----------------------------------------------------------------------------
\* What one thread does leaves the types, and the other threads, alone.
LEMMA PoolTypesStep ==
    ASSUME PoolTypes, [Next]_vars
    PROVE  PoolTypes'
<1> USE DEF Goto
<1>1. /\ pc \in [Threads -> PCs] /\ op \in [Threads -> Ops] /\ pool \in Seq(Conns)
      /\ conn \in [Threads -> Conns \union {NoConn}] /\ snap \in [Conns -> Snaps]
      /\ alive \subseteq Conns /\ faults \in 0 .. MaxFaults /\ MaxFaults \in Nat
      /\ NoConn \notin Conns
  BY PoolAssumption DEF PoolTypes, TypeOK
<1>2. \A t \in Threads : pc[t] \in Holders => conn[t] \in Conns
  BY DEF PoolTypes, Held
<1>3. ASSUME NEW t \in Threads, NEW l \in PCs, pc' = [pc EXCEPT ![t] = l],
             conn' \in [Threads -> Conns \union {NoConn}],
             \A u \in Threads : u # t => conn'[u] = conn[u],
             IF l \in Holders THEN conn'[t] \in Conns ELSE conn'[t] = NoConn
      PROVE  pc' \in [Threads -> PCs] /\ Held'
  BY <1>1, <1>3 DEF PoolTypes, Held
<1>4. ASSUME NEW t \in Threads, Acquire(t) PROVE PoolTypes'
  <2>1. CASE pool # <<>>
    <3>1. /\ Last(pool) \in Conns /\ Front(pool) \in Seq(Conns)
          /\ conn' = [conn EXCEPT ![t] = Last(pool)] /\ pool' = Front(pool)
          /\ pc' = [pc EXCEPT ![t] = "ping"]
      BY <1>1, <1>4, <2>1, StackFacts DEF Acquire
    <3>2. pc' \in [Threads -> PCs] /\ Held'
      BY <1>1, <1>3, <3>1 DEF PCs, Holders
    <3> QED BY <1>1, <1>4, <3>1, <3>2 DEF Acquire, PoolTypes, TypeOK
  <2>2. CASE pool = <<>>
    <3>1. conn[t] = NoConn
      BY <1>4 DEF Acquire, PoolTypes, Held, Holders
    <3>2. pc' \in [Threads -> PCs] /\ Held'
      BY <1>1, <1>3, <1>4, <2>2, <3>1 DEF Acquire, PCs, Holders
    <3> QED BY <1>1, <1>4, <2>2, <3>2 DEF Acquire, PoolTypes, TypeOK
  <2> QED BY <2>1, <2>2
<1>5. ASSUME NEW t \in Threads, Ping(t) PROVE PoolTypes'
  <2>1. conn[t] \in Conns
    BY <1>2, <1>5 DEF Ping, Holders
  <2>2. pc' \in [Threads -> PCs] /\ Held'
    BY <1>1, <1>3, <1>5, <2>1 DEF Ping, PCs, Holders
  <2> QED BY <1>1, <1>5, <2>1, <2>2 DEF Ping, PoolTypes, TypeOK
<1>6. ASSUME NEW t \in Threads, PingFails(t) PROVE PoolTypes'
  <2>1. pc' \in [Threads -> PCs] /\ Held'
    BY <1>1, <1>3, <1>6 DEF PingFails, PCs, Holders
  <2> QED BY <1>1, <1>6, <2>1 DEF PingFails, PoolTypes, TypeOK
<1>7. ASSUME NEW t \in Threads, Create(t) PROVE PoolTypes'
  <2>1. PICK c \in Conns : conn' = [conn EXCEPT ![t] = c] /\ alive' = alive \union {c}
    BY <1>7 DEF Create
  <2>2. pc' \in [Threads -> PCs] /\ Held'
    BY <1>1, <1>3, <1>7, <2>1 DEF Create, PCs, Holders
  <2> QED BY <1>1, <1>7, <2>1, <2>2 DEF Create, PoolTypes, TypeOK
<1>8. ASSUME NEW t \in Threads, CreateFails(t) PROVE PoolTypes'
  <2>1. conn[t] = NoConn
    BY <1>8 DEF CreateFails, PoolTypes, Held, Holders
  <2>2. pc' \in [Threads -> PCs] /\ Held'
    BY <1>1, <1>3, <1>8, <2>1 DEF CreateFails, Abandon, PCs, Holders
  <2> QED BY <1>1, <1>8, <2>2 DEF CreateFails, Abandon, PoolTypes, TypeOK, Ops
<1>9. ASSUME NEW t \in Threads, Execute(t) \/ ExecuteRefused(t) \/ ConnectionLost(t)
      PROVE  PoolTypes'
  <2>1. conn[t] \in Conns
    BY <1>2, <1>9 DEF Execute, ExecuteRefused, ConnectionLost, Holders
  <2>2. snap' \in [Conns -> Snaps]
    BY <1>1, <1>9 DEF Execute, ExecuteRefused, ConnectionLost, Opened, Snaps
  <2>3. PICK l \in {"executed", "done", "failed"} : pc' = [pc EXCEPT ![t] = l]
    BY <1>9 DEF Execute, ExecuteRefused, ConnectionLost
  <2>4. conn' = conn
    BY <1>9 DEF Execute, ExecuteRefused, ConnectionLost
  <2>5. pc' \in [Threads -> PCs] /\ Held'
    BY <1>1, <1>3, <2>1, <2>3, <2>4 DEF PCs, Holders
  <2> QED BY <1>1, <1>9, <2>2, <2>5 DEF Execute, ExecuteRefused, ConnectionLost, PoolTypes, TypeOK
<1>10. ASSUME NEW t \in Threads, Commit(t) PROVE PoolTypes'
  <2>1. conn[t] \in Conns
    BY <1>2, <1>10 DEF Commit, Holders
  <2>2. snap' \in [Conns -> Snaps]
    BY <1>1, <1>10 DEF Commit, Snaps
  <2>3. pc' \in [Threads -> PCs] /\ Held'
    BY <1>1, <1>3, <1>10, <2>1 DEF Commit, PCs, Holders
  <2> QED BY <1>1, <1>10, <2>2, <2>3 DEF Commit, PoolTypes, TypeOK
<1>11. ASSUME NEW c \in Conns, Close(c)
       PROVE  snap' \in [Conns -> Snaps] /\ alive' \subseteq Conns
  BY <1>1, <1>11 DEF Close, Snaps
<1>12. ASSUME NEW t \in Threads, Release(t) PROVE PoolTypes'
  <2>1. conn[t] \in Conns
    BY <1>2, <1>12 DEF Release, Holders
  <2>2. pool' \in Seq(Conns) /\ snap' \in [Conns -> Snaps] /\ alive' \subseteq Conns
    BY <1>1, <1>11, <1>12, <2>1, StackFacts DEF Release
  <2>3. op' \in [Threads -> Ops]
    BY <1>1, <1>12 DEF Release, NextCall, Following, Ops
  <2>4. pc' \in [Threads -> PCs] /\ Held'
    BY <1>1, <1>3, <1>12 DEF Release, NextCall, PCs, Holders
  <2> QED BY <1>1, <1>12, <2>2, <2>3, <2>4 DEF Release, PoolTypes, TypeOK
<1>13. ASSUME NEW c \in Conns, LoseConnection(c) PROVE PoolTypes'
  BY <1>1, <1>11, <1>13 DEF LoseConnection, PoolTypes, TypeOK, Held
<1>14. CASE Outage \/ Restore
  <2>1. snap' \in [Conns -> Snaps] /\ alive' \subseteq Conns /\ up' \in BOOLEAN
    BY <1>1, <1>14 DEF Outage, Restore, Snaps
  <2>2. faults' \in 0 .. MaxFaults
    BY <1>1, <1>14 DEF Outage, Restore
  <2> QED BY <1>14, <2>1, <2>2 DEF Outage, Restore, PoolTypes, TypeOK, Held
<1>15. CASE UNCHANGED vars
  BY <1>15 DEF vars, PoolTypes, TypeOK, Held
<1> QED
  BY <1>4, <1>5, <1>6, <1>7, <1>8, <1>9, <1>10, <1>12, <1>13, <1>14, <1>15 DEF Next, Step

\* Types, for any number of threads: in particular a thread that is about to execute holds
\* a connection, and never what is left of a failed attempt to open one.
LEMMA PoolTypesKept == Spec => []PoolTypes
<1>1. PoolTypes /\ [Next]_vars => PoolTypes'
  BY PoolTypesStep
<1> QED BY <1>1, PoolInit, PTL DEF Spec

THEOREM PoolTypeCorrect == Spec => []TypeOK
<1>1. PoolTypes => TypeOK
  BY DEF PoolTypes
<1> QED BY <1>1, PoolTypesKept, PTL

-----------------------------------------------------------------------------
\* With one thread there is room for the connection it holds, so that what it releases
\* lies on top of the stack, and it is what the next call is handed.
Room ==
    /\ Len(pool) <= PoolSize
    /\ \A t \in Threads : pc[t] # "between" => Len(pool) < PoolSize

\* A call that follows an upsert finds no older snapshot on the connection it is about
\* to use; a call that is over has not left one.
NoStaleSnapshot ==
    \A t \in Threads :
        /\ pc[t] = "between" /\ op[t] # "upsert" /\ pool # <<>> => snap[Last(pool)] # "stale"
        /\ pc[t] \in {"ping", "holding", "executed"} /\ op[t] # "upsert"
              => snap[conn[t]] # "stale"
        /\ pc[t] = "done" => snap[conn[t]] # "stale"

OneThread == \A t, u \in Threads : t = u

\* The connections in use by one thread.
LEMMA InUseOfOne ==
    ASSUME OneThread, NEW t \in Threads
    PROVE  InUse = Range(pool) \union {conn[t]}
  BY DEF OneThread, InUse

LEMMA KnownStep ==
    ASSUME OneThread, PoolTypes, OpenIsKnown, [Next]_vars
    PROVE  OpenIsKnown'
<1> USE DEF Goto
<1>1. /\ pc \in [Threads -> PCs] /\ pool \in Seq(Conns)
      /\ conn \in [Threads -> Conns \union {NoConn}] /\ snap \in [Conns -> Snaps]
      /\ alive \subseteq Conns /\ NoConn \notin Conns
  BY PoolAssumption DEF PoolTypes, TypeOK
<1>2. ASSUME NEW t \in Threads
      PROVE  InUse = Range(pool) \union {conn[t]} /\ InUse' = Range(pool') \union {conn'[t]}
  BY <1>2, InUseOfOne DEF OneThread, InUse
<1>3. ASSUME NEW t \in Threads, Acquire(t) PROVE OpenIsKnown'
  <2>1. conn[t] = NoConn
    BY <1>3 DEF Acquire, PoolTypes, Held, Holders
  <2>2. CASE pool # <<>>
    <3>1. Range(pool) = Range(pool') \union {conn'[t]}
      BY <1>1, <1>3, <2>2, StackFacts DEF Acquire
    <3> QED BY <1>1, <1>2, <1>3, <2>1, <3>1 DEF Acquire, OpenIsKnown
  <2>3. CASE pool = <<>>
    BY <1>2, <1>3, <2>3 DEF Acquire, OpenIsKnown
  <2> QED BY <2>2, <2>3
<1>4. ASSUME NEW t \in Threads, Ping(t) PROVE OpenIsKnown'
  BY <1>1, <1>2, <1>4 DEF Ping, OpenIsKnown
<1>5. ASSUME NEW t \in Threads, PingFails(t) \/ CreateFails(t) PROVE OpenIsKnown'
  BY <1>5 DEF PingFails, CreateFails, Abandon, OpenIsKnown
<1>6. ASSUME NEW t \in Threads, Create(t) PROVE OpenIsKnown'
  <2>1. conn[t] = NoConn
    BY <1>6 DEF Create, PoolTypes, Held, Holders
  <2>2. PICK c \in Conns : conn' = [conn EXCEPT ![t] = c] /\ alive' = alive \union {c}
    BY <1>6 DEF Create
  <2> QED BY <1>1, <1>2, <1>6, <2>1, <2>2 DEF Create, OpenIsKnown
<1>7. ASSUME NEW t \in Threads, Execute(t) \/ ExecuteRefused(t) \/ Commit(t) \/ ConnectionLost(t)
      PROVE  OpenIsKnown'
  <2>1. \A c \in Conns : snap'[c] # "none" => snap[c] # "none" \/ c \in {conn[t]} \intersect alive
    BY <1>1, <1>7 DEF Execute, ExecuteRefused, Commit, ConnectionLost, Opened
  <2>2. UNCHANGED <<pool, conn, alive, up>>
    BY <1>7 DEF Execute, ExecuteRefused, Commit, ConnectionLost
  <2> QED BY <1>2, <2>1, <2>2 DEF OpenIsKnown
<1>8. ASSUME NEW c \in Conns, Close(c)
      PROVE  alive' = alive \ {c} /\ \A d \in Conns : snap'[d] # "none" => d # c /\ snap[d] # "none"
  BY <1>1, <1>8 DEF Close
<1>9. ASSUME NEW t \in Threads, Release(t) PROVE OpenIsKnown'
  <2>1. conn[t] \in Conns /\ conn' = [conn EXCEPT ![t] = NoConn] /\ up' = up
    BY <1>9 DEF Release, PoolTypes, Held, Holders
  <2>2. CASE pool' = Append(pool, conn[t]) /\ UNCHANGED <<snap, alive>>
    <3>1. Range(pool') = Range(pool) \union {conn[t]}
      BY <1>1, <2>1, <2>2, StackFacts
    <3> QED BY <1>2, <2>1, <2>2, <3>1 DEF OpenIsKnown
  <2>3. CASE Close(conn[t]) /\ pool' = pool
    BY <1>1, <1>2, <1>8, <2>1, <2>3 DEF OpenIsKnown
  <2> QED BY <1>9, <2>2, <2>3 DEF Release
<1>10. ASSUME NEW c \in Conns, LoseConnection(c) PROVE OpenIsKnown'
  <2>1. UNCHANGED <<pool, conn, up>> /\ Close(c)
    BY <1>10 DEF LoseConnection
  <2>2. InUse' = InUse
    BY <2>1 DEF InUse
  <2> QED BY <1>8, <2>1, <2>2 DEF OpenIsKnown
<1>11. CASE Outage
  BY <1>1, <1>11 DEF Outage, OpenIsKnown
<1>12. CASE Restore \/ UNCHANGED vars
  BY <1>12 DEF Restore, vars, OpenIsKnown, InUse
<1> QED
  BY <1>3, <1>4, <1>5, <1>6, <1>7, <1>9, <1>10, <1>11, <1>12 DEF Next, Step

LEMMA RoomStep ==
    ASSUME OneThread, PoolTypes, Room, [Next]_vars
    PROVE  Room'
<1> USE DEF Goto
<1>1. /\ pc \in [Threads -> PCs] /\ pool \in Seq(Conns) /\ Len(pool) \in Nat
      /\ PoolSize \in Nat \ {0}
  BY PoolAssumption, LenProperties DEF PoolTypes, TypeOK
<1>2. ASSUME NEW t \in Threads, pc[t] # "between", pool' = pool PROVE Room'
  BY <1>2 DEF Room, OneThread
<1>3. ASSUME NEW t \in Threads, Acquire(t) PROVE Room'
  <2>1. CASE pool # <<>>
    <3>1. Len(pool') = Len(pool) - 1
      BY <1>1, <1>3, <2>1, StackFacts DEF Acquire
    <3> QED BY <1>1, <3>1 DEF Room
  <2>2. CASE pool = <<>>
    <3>1. pool' = <<>> /\ Len(pool') = 0
      BY <1>3, <2>2, EmptySeq DEF Acquire
    <3> QED BY <1>1, <3>1 DEF Room
  <2> QED BY <2>1, <2>2
<1>4. ASSUME NEW t \in Threads, Ping(t) \/ PingFails(t) \/ Create(t) \/ CreateFails(t) \/ Execute(t)
             \/ ExecuteRefused(t) \/ Commit(t) \/ ConnectionLost(t)
      PROVE  Room'
  <2>1. pool' = pool /\ pc[t] # "between"
    BY <1>4 DEF Ping, PingFails, Create, CreateFails, Execute, ExecuteRefused, Commit, ConnectionLost
  <2> QED BY <1>2, <2>1
<1>5. ASSUME NEW t \in Threads, Release(t) PROVE Room'
  <2>1. Len(pool) < PoolSize /\ conn[t] \in Conns
    BY <1>5 DEF Release, Room, PoolTypes, Held, Holders
  <2>2. Len(pool') = Len(pool) + 1
    BY <1>1, <1>5, <2>1, StackFacts DEF Release
  <2>3. pc'[t] = "between"
    BY <1>1, <1>5 DEF Release, NextCall
  <2>4. \A u \in Threads : pc'[u] = "between"
    BY <2>3 DEF OneThread
  <2> QED BY <1>1, <2>1, <2>2, <2>4 DEF Room
<1>6. CASE (\E c \in Conns : LoseConnection(c)) \/ Outage \/ Restore \/ UNCHANGED vars
  BY <1>6 DEF LoseConnection, Outage, Restore, vars, Room
<1> QED BY <1>3, <1>4, <1>5, <1>6 DEF Next, Step

LEMMA NoStaleStep ==
    ASSUME OneThread, PoolTypes, OpenIsKnown, Room, NoStaleSnapshot, [Next]_vars
    PROVE  NoStaleSnapshot'
<1> USE DEF Goto
<1>1. /\ pc \in [Threads -> PCs] /\ op \in [Threads -> Ops] /\ pool \in Seq(Conns)
      /\ conn \in [Threads -> Conns \union {NoConn}] /\ snap \in [Conns -> Snaps]
      /\ alive \subseteq Conns
  BY DEF PoolTypes, TypeOK
<1>2. ASSUME NEW t \in Threads,
             /\ pc'[t] = "between" /\ op'[t] # "upsert" /\ pool' # <<>>
                   => snap'[Last(pool')] # "stale"
             /\ pc'[t] \in {"ping", "holding", "executed"} /\ op'[t] # "upsert"
                   => snap'[conn'[t]] # "stale"
             /\ pc'[t] = "done" => snap'[conn'[t]] # "stale"
      PROVE  NoStaleSnapshot'
  BY <1>2 DEF NoStaleSnapshot, OneThread
<1>3. ASSUME NEW t \in Threads, Acquire(t) PROVE NoStaleSnapshot'
  <2>1. CASE pool # <<>>
    <3>1. /\ pc'[t] = "ping" /\ conn'[t] = Last(pool) /\ op' = op /\ snap' = snap
      BY <1>1, <1>3, <2>1 DEF Acquire
    <3>2. op[t] # "upsert" => snap[Last(pool)] # "stale"
      BY <1>3, <2>1 DEF Acquire, NoStaleSnapshot
    <3> QED BY <1>2, <3>1, <3>2
  <2>2. CASE pool = <<>>
    <3>1. pc'[t] = "create"
      BY <1>1, <1>3, <2>2 DEF Acquire
    <3> QED BY <1>2, <3>1
  <2> QED BY <2>1, <2>2
<1>4. ASSUME NEW t \in Threads, Ping(t) PROVE NoStaleSnapshot'
  <2>1. pc'[t] = "holding" /\ pc[t] = "ping" /\ UNCHANGED <<op, conn, snap>>
    BY <1>1, <1>4 DEF Ping
  <2>2. op[t] # "upsert" => snap[conn[t]] # "stale"
    BY <2>1 DEF NoStaleSnapshot
  <2> QED BY <1>2, <2>1, <2>2
<1>5. ASSUME NEW t \in Threads, PingFails(t) PROVE NoStaleSnapshot'
  <2>1. pc'[t] = "create"
    BY <1>1, <1>5 DEF PingFails
  <2> QED BY <1>2, <2>1
<1>6. ASSUME NEW t \in Threads, Create(t) PROVE NoStaleSnapshot'
  <2>1. PICK c \in Conns \ InUse : conn' = [conn EXCEPT ![t] = c]
    BY <1>6 DEF Create
  <2>2. snap[c] = "none"
    BY <2>1 DEF OpenIsKnown
  <2>3. pc'[t] = "holding" /\ conn'[t] = c /\ snap' = snap
    BY <1>1, <1>6, <2>1 DEF Create
  <2> QED BY <1>2, <2>2, <2>3
<1>7. ASSUME NEW t \in Threads, CreateFails(t) PROVE NoStaleSnapshot'
  <2>1. pc'[t] = "between" /\ op'[t] = "upsert"
    BY <1>1, <1>7 DEF CreateFails, Abandon
  <2> QED BY <1>2, <2>1
<1>8. ASSUME NEW t \in Threads, Execute(t) PROVE NoStaleSnapshot'
  <2>1. conn[t] \in Conns /\ conn'[t] = conn[t] /\ op' = op
    BY <1>1, <1>8 DEF Execute
  <2>2. snap[conn[t]] # "stale" => snap'[conn[t]] # "stale"
    BY <1>1, <1>8, <2>1 DEF Execute, Opened
  <2>3. op[t] # "upsert" => snap[conn[t]] # "stale"
    BY <1>8 DEF Execute, NoStaleSnapshot
  <2>4. pc'[t] = IF op[t] = "aggregate" THEN "done" ELSE "executed"
    BY <1>1, <1>8 DEF Execute
  <2> QED BY <1>2, <2>1, <2>2, <2>3, <2>4
<1>9. ASSUME NEW t \in Threads, ExecuteRefused(t) \/ ConnectionLost(t) PROVE NoStaleSnapshot'
  <2>1. pc'[t] = "failed"
    BY <1>1, <1>9 DEF ExecuteRefused, ConnectionLost
  <2> QED BY <1>2, <2>1
<1>10. ASSUME NEW t \in Threads, Commit(t) PROVE NoStaleSnapshot'
  <2>1. pc'[t] = "done" /\ conn'[t] = conn[t] /\ conn[t] \in Conns
    BY <1>1, <1>10 DEF Commit
  <2>2. snap'[conn[t]] = "none"
    BY <1>10, <2>1 DEF Commit
  <2> QED BY <1>2, <2>1, <2>2
<1>11. ASSUME NEW t \in Threads, Release(t) PROVE NoStaleSnapshot'
  <2>1. Len(pool) < PoolSize /\ conn[t] \in Conns
    BY <1>11 DEF Release, Room, PoolTypes, Held, Holders
  <2>2. Last(pool') = conn[t] /\ snap' = snap
    BY <1>1, <1>11, <2>1, StackFacts DEF Release
  <2>3. pc'[t] = "between"
    BY <1>1, <1>11 DEF Release, NextCall
  <2>4. op'[t] # "upsert" => pc[t] = "done"
    BY <1>1, <1>11 DEF Release, NextCall
  <2>5. pc[t] = "done" => snap[conn[t]] # "stale"
    BY DEF NoStaleSnapshot
  <2> QED BY <1>2, <2>2, <2>3, <2>4, <2>5
<1>12. ASSUME UNCHANGED <<pool, pc, op, conn>>,
              \A c \in Conns : snap'[c] = "stale" => snap[c] = "stale"
       PROVE  NoStaleSnapshot'
  <2>1. pool # <<>> => Last(pool) \in Conns
    BY <1>1, StackFacts
  <2>2. \A t \in Threads : pc[t] \in Holders => conn[t] \in Conns
    BY DEF PoolTypes, Held
  <2> QED BY <1>12, <2>1, <2>2 DEF NoStaleSnapshot, Holders
<1>13. CASE (\E c \in Conns : LoseConnection(c)) \/ Outage \/ Restore \/ UNCHANGED vars
  BY <1>1, <1>12, <1>13 DEF LoseConnection, Close, Outage, Restore, vars
<1> QED
  BY <1>3, <1>4, <1>5, <1>6, <1>7, <1>8, <1>9, <1>10, <1>11, <1>13 DEF Next, Step

\* A consumer, which is one thread, aggregates over the rows it has upserted, whatever
\* becomes of its connections: not because aggregations end their transactions, which
\* they do not, but because the pool is a stack.
THEOREM AggregationsReadOwnWrites ==
    ASSUME OneThread
    PROVE  Spec => []ReadsOwnWrites
<1>1. Init => Room /\ NoStaleSnapshot
  BY PoolInit, PoolAssumption DEF Init, Room, NoStaleSnapshot
<1>2. Init => OpenIsKnown
  BY PoolInit
<1>3. PoolTypes /\ (OpenIsKnown /\ Room /\ NoStaleSnapshot) /\ [Next]_vars
        => (OpenIsKnown /\ Room /\ NoStaleSnapshot)'
  BY KnownStep, RoomStep, NoStaleStep
<1>4. NoStaleSnapshot => ReadsOwnWrites
  BY DEF NoStaleSnapshot, ReadsOwnWrites
<1> QED BY <1>1, <1>2, <1>3, <1>4, PoolTypesKept, PTL DEF Spec

=============================================================================
