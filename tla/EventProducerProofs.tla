-------------------------- MODULE EventProducerProofs --------------------------
(***************************************************************************)
(* Proofs about EventProducer for every partitioner, limit, queue size and  *)
(* number of events: the order of a client's events in the topic, that an    *)
(* event is one message of it, and what run() leaves behind.                 *)
(***************************************************************************)
EXTENDS EventProducer, FiniteSetTheorems, TLAPS

\* The values of a sequence after Append and Tail.
LEMMA AppendFacts ==
    ASSUME NEW S, NEW q \in Seq(S), NEW e \in S
    PROVE  /\ Append(q, e) \in Seq(S)
           /\ DOMAIN Append(q, e) = (DOMAIN q) \union {Len(q) + 1}
           /\ \A i \in DOMAIN q : Append(q, e)[i] = q[i] /\ i < Len(q) + 1 /\ i \in Nat
           /\ Append(q, e)[Len(q) + 1] = e
           /\ Range(Append(q, e)) = Range(q) \union {e}
           /\ Len(q) + 1 \in Nat
<1>1. /\ Append(q, e) \in Seq(S) /\ Len(q) \in Nat /\ DOMAIN q = 1 .. Len(q)
      /\ Len(Append(q, e)) = Len(q) + 1
      /\ DOMAIN Append(q, e) = 1 .. Len(q) + 1
      /\ \A i \in 1 .. Len(q) : Append(q, e)[i] = q[i]
      /\ Append(q, e)[Len(q) + 1] = e
  OBVIOUS
<1>2. DOMAIN Append(q, e) = (DOMAIN q) \union {Len(q) + 1}
  BY <1>1
<1>3. Range(Append(q, e)) = Range(q) \union {e}
  BY <1>1, <1>2 DEF Range
<1> QED BY <1>1, <1>2, <1>3

LEMMA TailFacts ==
    ASSUME NEW S, NEW q \in Seq(S), q # <<>>
    PROVE  /\ Tail(q) \in Seq(S)
           /\ \A i \in DOMAIN Tail(q) : i \in Nat /\ i + 1 \in DOMAIN q /\ Tail(q)[i] = q[i + 1]
           /\ Range(q) = Range(Tail(q)) \union {Head(q)}
           /\ Head(q) \in S /\ 1 \in DOMAIN q /\ Head(q) = q[1]
<1>1. /\ Len(q) \in Nat \ {0} /\ DOMAIN q = 1 .. Len(q)
      /\ Tail(q) \in Seq(S) /\ Len(Tail(q)) = Len(q) - 1
      /\ DOMAIN Tail(q) = 1 .. Len(q) - 1
      /\ \A i \in 1 .. Len(q) - 1 : Tail(q)[i] = q[i + 1]
      /\ Head(q) = q[1] /\ Head(q) \in S
  OBVIOUS
<1>2. \A i \in DOMAIN q : i = 1 \/ (i - 1 \in DOMAIN Tail(q) /\ Tail(q)[i - 1] = q[i])
  BY <1>1
<1>3. \A i \in DOMAIN Tail(q) : i \in Nat /\ i + 1 \in DOMAIN q /\ Tail(q)[i] = q[i + 1]
  BY <1>1
<1>4. Range(q) = Range(Tail(q)) \union {Head(q)}
  <2>1. ASSUME NEW x \in Range(q) PROVE x \in Range(Tail(q)) \union {Head(q)}
    <3>1. PICK i \in DOMAIN q : q[i] = x
      BY DEF Range
    <3>2. CASE i = 1
      BY <1>1, <3>1, <3>2
    <3>3. CASE i # 1
      BY <1>2, <3>1, <3>3 DEF Range
    <3> QED BY <3>2, <3>3
  <2>2. ASSUME NEW x \in Range(Tail(q)) PROVE x \in Range(q)
    <3>1. PICK i \in DOMAIN Tail(q) : Tail(q)[i] = x
      BY DEF Range
    <3> QED BY <1>3, <3>1 DEF Range
  <2>3. Head(q) \in Range(q)
    BY <1>1 DEF Range
  <2> QED BY <2>1, <2>2, <2>3
<1> QED BY <1>1, <1>3, <1>4

-----------------------------------------------------------------------------
\* The counters and the sequences keep their types; reports are finitely many, so that
\* they can be counted.
Types ==
    /\ TypeOK
    /\ IsFiniteSet(reports)
    /\ pc = "loop" => malformed <= sent

\* What is in partition p, at the broker or still in the queue, belongs there, and
\* both are in the order of production.
Increasing(q) == \A i, j \in DOMAIN q : i < j => q[i].id < q[j].id

InPlace(p) ==
    \A e \in Range(queue[p]) \union Range(log[p]) :
        PartitionOf[e.client] = p /\ e.id <= generated

\* What has not been written yet comes after everything that has.
UnwrittenIsLater(p) ==
    \A e \in Range(queue[p]), f \in Range(log[p]) : e \in Range(log[p]) \/ f.id < e.id

InOrder ==
    \A p \in Partitions : /\ Increasing(queue[p]) /\ Increasing(log[p])
                          /\ InPlace(p) /\ UnwrittenIsLater(p)

LEMMA TypesInit == Init => Types /\ InOrder
<1> SUFFICES ASSUME Init PROVE Types /\ InOrder
  OBVIOUS
<1>1. <<>> \in Seq(Event) /\ DOMAIN <<>> = {}
  OBVIOUS
<1>2. limit \in Limits /\ pc \in PCs /\ sent \in Nat /\ malformed \in 0 .. sent + 1 /\ failed \in Nat
  BY DEF Init, PCs
<1>3. running \in BOOLEAN /\ up \in BOOLEAN
  BY DEF Init
<1>4. queue \in [Partitions -> Seq(Event)] /\ log \in [Partitions -> Seq(Event)]
  BY <1>1 DEF Init
<1>5. outages \in 0 .. MaxOutages /\ generated \in 0 .. MaxGenerated
  BY ProducerAssumption DEF Init
<1>6. IsFiniteSet(reports) /\ reports \subseteq Report
  BY FS_EmptySet DEF Init
<1>7. handed \subseteq Event /\ reported \subseteq Event /\ cut \subseteq Event
  BY DEF Init
<1>8. pc = "loop" => malformed <= sent
  BY DEF Init
<1>9. InOrder
  BY <1>1 DEF Init, InOrder, Increasing, InPlace, UnwrittenIsLater, Range
<1> QED BY <1>2, <1>3, <1>4, <1>5, <1>6, <1>7, <1>8, <1>9 DEF Types, TypeOK

LEMMA ElementsType ==
    ASSUME TypeOK
    PROVE  /\ Elements(queue) \subseteq Event /\ Elements(log) \subseteq Event
           /\ \A p \in Partitions, e \in Event :
                 e \in Range(queue[p]) \union Range(log[p]) => e.id \in Nat
           /\ \A p \in Partitions : Range(queue[p]) \union Range(log[p]) \subseteq Event
<1>1. \A q \in Seq(Event) : Range(q) \subseteq Event
  BY DEF Range
<1>2. \A e \in Event : e.id \in Nat
  BY DEF Event
<1> QED BY <1>1, <1>2 DEF TypeOK, Elements

LEMMA CheckTypes ==
    ASSUME Types, CheckDeliveries
    PROVE  failed' \in Nat /\ reported' \subseteq Event /\ reports' = {}
           /\ IsFiniteSet(reports')
<1>1. IsFiniteSet(Served) /\ Served \subseteq Report
  BY FS_Subset DEF Types, TypeOK, Served
<1>2. Cardinality(Served) \in Nat
  BY <1>1, FS_CardinalityType
<1>3. \A r \in Served : r.event \in Event
  BY <1>1 DEF Report
<1> QED BY <1>2, <1>3, FS_EmptySet DEF CheckDeliveries, Types, TypeOK

\* What the queue is after an event has been appended to one of its partitions.
LEMMA SendEffect ==
    ASSUME Types, Send
    PROVE  \E c \in Clients : \E p \in Partitions :
             LET e == [id |-> generated + 1, client |-> c] IN
             /\ e \in Event /\ p = PartitionOf[c]
             /\ queue' = [queue EXCEPT ![p] = Append(@, e)]
             /\ handed' = handed \union {e}
             /\ generated' = generated + 1 /\ generated' \in 0 .. MaxGenerated
<1>1. generated' = generated + 1 /\ generated < MaxGenerated /\ generated \in Nat
  BY DEF Send, Generate, Types, TypeOK
<1>2. PICK c \in Clients :
         LET e == [id |-> generated + 1, client |-> c] IN
         /\ \E p \in Target(e) : queue' = [queue EXCEPT ![p] = Append(@, e)]
         /\ handed' = handed \union {e}
  BY <1>1 DEF Send
<1> DEFINE e == [id |-> generated + 1, client |-> c]
<1>3. Target(e) = {PartitionOf[c]} /\ PartitionOf[c] \in Partitions /\ e \in Event
  BY <1>1, ProducerAssumption DEF Target, Event
<1>4. generated' \in 0 .. MaxGenerated
  BY <1>1, ProducerAssumption
<1> QED BY <1>1, <1>2, <1>3, <1>4

LEMMA TypesStep ==
    ASSUME Types, [Next]_vars
    PROVE  Types'
<1> USE DEF local, counters, ghosts
<1>1. CASE Leave \/ SendRaises
  BY <1>1, ProducerAssumption DEF Types, TypeOK, PCs, Leave, SendRaises, Generate
<1>2. CASE SendMalformed
  BY <1>2, ProducerAssumption DEF Types, TypeOK, PCs, SendMalformed, Generate, Iterates
<1>3. CASE Send
  <2>1. PICK c \in Clients, p \in Partitions :
           LET e == [id |-> generated + 1, client |-> c] IN
           /\ e \in Event /\ queue' = [queue EXCEPT ![p] = Append(@, e)]
           /\ handed' = handed \union {e} /\ generated' \in 0 .. MaxGenerated
    BY <1>3, SendEffect
  <2>2. queue' \in [Partitions -> Seq(Event)]
    <3>1. queue \in [Partitions -> Seq(Event)]
      BY DEF Types, TypeOK
    <3>2. Append(queue[p], [id |-> generated + 1, client |-> c]) \in Seq(Event)
      BY <2>1, <3>1, AppendFacts
    <3> QED BY <2>1, <3>1, <3>2
  <2>3. handed' \subseteq Event
    BY <2>1 DEF Types, TypeOK
  <2> QED BY <1>3, <2>1, <2>2, <2>3 DEF Types, TypeOK, PCs, Send, Iterates
<1>4. CASE Poll
  <2>1. CheckDeliveries
    BY <1>4 DEF Poll
  <2> QED BY <1>4, <2>1, CheckTypes DEF Types, TypeOK, PCs, Poll
<1>5. CASE FlushServes
  <2>1. CheckDeliveries
    BY <1>5 DEF FlushServes
  <2> QED BY <1>5, <2>1, CheckTypes DEF Types, TypeOK, PCs, FlushServes
<1>6. CASE FlushReturns
  BY <1>6 DEF Types, TypeOK, PCs, FlushReturns
<1>7. CASE Sigterm
  BY <1>7 DEF Types, TypeOK, Sigterm
<1>8. CASE Kill
  <2>1. \A r \in reports : r.event \in Event
    BY DEF Types, TypeOK, Report
  <2>2. cut' \subseteq Event
    BY <1>8, <2>1, ElementsType DEF Kill, Types, TypeOK
  <2>3. queue' \in [Partitions -> Seq(Event)] /\ reports' = {}
    BY <1>8 DEF Kill
  <2> QED BY <1>8, <2>2, <2>3, FS_EmptySet DEF Types, TypeOK, Kill, PCs
<1>9. CASE Restart
  BY <1>9 DEF Types, TypeOK, Restart, PCs
<1>10. ASSUME NEW p \in Partitions, BrokerWrites(p) PROVE Types'
  <2>1. PICK i \in DOMAIN queue[p] : log' = [log EXCEPT ![p] = Append(@, queue[p][i])]
    BY <1>10 DEF BrokerWrites
  <2>2. queue[p] \in Seq(Event) /\ log \in [Partitions -> Seq(Event)]
    BY DEF Types, TypeOK
  <2>3. queue[p][i] \in Event
    BY <2>1, <2>2
  <2>4. Append(log[p], queue[p][i]) \in Seq(Event)
    BY <2>2, <2>3, AppendFacts
  <2>5. log' \in [Partitions -> Seq(Event)]
    BY <2>1, <2>2, <2>4
  <2> QED BY <1>10, <2>5 DEF Types, TypeOK, BrokerWrites
<1>11. ASSUME NEW p \in Partitions, NEW ok \in BOOLEAN, queue[p] # <<>>, Conclude(p, ok)
       PROVE  Types'
  <2>1. queue \in [Partitions -> Seq(Event)]
    BY DEF Types, TypeOK
  <2>2. Tail(queue[p]) \in Seq(Event) /\ Head(queue[p]) \in Event
    BY <2>1, <1>11, TailFacts
  <2>3. queue' \in [Partitions -> Seq(Event)]
    BY <1>11, <2>1, <2>2 DEF Conclude
  <2>4. [event |-> Head(queue[p]), ok |-> ok] \in Report
    BY <2>2 DEF Report
  <2>5. reports' \subseteq Report
    BY <1>11, <2>4 DEF Conclude, Types, TypeOK
  <2>6. IsFiniteSet(reports')
    BY <1>11, FS_AddElement DEF Conclude, Types
  <2> QED BY <1>11, <2>3, <2>5, <2>6 DEF Types, TypeOK, Conclude
<1>12. CASE BrokerGoes \/ BrokerReturns
  <2>1. up' \in BOOLEAN
    BY <1>12 DEF BrokerGoes, BrokerReturns
  <2>2. outages' \in 0 .. MaxOutages
    BY <1>12, ProducerAssumption DEF Types, TypeOK, BrokerGoes, BrokerReturns
  <2> QED BY <1>12, <2>1, <2>2 DEF Types, TypeOK, BrokerGoes, BrokerReturns
<1>13. CASE UNCHANGED vars
  BY <1>13 DEF Types, TypeOK, vars
<1> QED
  BY <1>1, <1>2, <1>3, <1>4, <1>5, <1>6, <1>7, <1>8, <1>9, <1>10, <1>11, <1>12, <1>13
  DEF Next, Run, Transfer, Acknowledged, Expires

-----------------------------------------------------------------------------
\* Steps that leave queue and log alone keep the order.
LEMMA OrderUntouched ==
    ASSUME Types, InOrder, UNCHANGED <<queue, log>>, generated' \in Nat, generated' >= generated
    PROVE  InOrder'
<1>1. ASSUME NEW p \in Partitions PROVE InPlace(p)'
  <2>1. \A e \in Range(queue[p]) \union Range(log[p]) :
           PartitionOf[e.client] = p /\ e.id <= generated
    BY DEF InOrder, InPlace
  <2>2. \A e \in Range(queue[p]) \union Range(log[p]) : e.id \in Nat
    BY ElementsType DEF Types
  <2>3. generated \in Nat
    BY DEF Types, TypeOK
  <2> QED BY <2>1, <2>2, <2>3 DEF InPlace
<1> QED BY <1>1 DEF InOrder, Increasing, UnwrittenIsLater

\* An event that is appended to a sequence of smaller numbers keeps it increasing.
LEMMA AppendIncreasing ==
    ASSUME NEW q \in Seq(Event), Increasing(q), NEW e \in Event,
           \A f \in Range(q) : f.id < e.id
    PROVE  Increasing(Append(q, e))
<1> DEFINE r == Append(q, e)
           n == Len(q) + 1
<1>1. /\ DOMAIN r = (DOMAIN q) \union {n}
      /\ \A i \in DOMAIN q : r[i] = q[i] /\ i < n /\ i \in Nat
      /\ r[n] = e /\ n \in Nat
  BY AppendFacts
<1>2. \A i \in DOMAIN q : q[i].id < e.id
  BY DEF Range
<1> HIDE DEF r, n
<1>3. ASSUME NEW i \in DOMAIN r, NEW j \in DOMAIN r, i < j PROVE r[i].id < r[j].id
  <2>1. CASE j = n
    BY <1>1, <1>2, <1>3, <2>1
  <2>2. CASE j # n
    <3>1. j \in DOMAIN q /\ i \in DOMAIN q
      BY <1>1, <1>3, <2>2
    <3> QED BY <1>1, <1>3, <3>1 DEF Increasing
  <2> QED BY <2>1, <2>2
<1> QED BY <1>3 DEF Increasing, r

LEMMA OrderSend ==
    ASSUME Types, InOrder, Send
    PROVE  InOrder'
<1>1. PICK c \in Clients, p \in Partitions :
         LET e == [id |-> generated + 1, client |-> c] IN
         /\ e \in Event /\ p = PartitionOf[c]
         /\ queue' = [queue EXCEPT ![p] = Append(@, e)]
         /\ generated' = generated + 1
  BY SendEffect
<1> DEFINE e == [id |-> generated + 1, client |-> c]
<1>2. /\ e \in Event /\ e.id = generated + 1 /\ PartitionOf[e.client] = p
      /\ queue' = [queue EXCEPT ![p] = Append(@, e)] /\ log' = log
      /\ generated' = generated + 1 /\ generated \in Nat
      /\ queue \in [Partitions -> Seq(Event)] /\ log \in [Partitions -> Seq(Event)]
  <2>1. e.id = generated + 1 /\ e.client = c
    OBVIOUS
  <2>2. log' = log /\ generated \in Nat
    BY DEF Send, Types, TypeOK
  <2> HIDE DEF e
  <2> QED BY <1>1, <2>1, <2>2 DEF Types, TypeOK, e
<1> HIDE DEF e
<1>3. ASSUME NEW x \in Partitions
      PROVE  \A f \in Range(queue[x]) \union Range(log[x]) :
                PartitionOf[f.client] = x /\ f.id < generated + 1 /\ f.id <= generated + 1
  <2>1. \A f \in Range(queue[x]) \union Range(log[x]) : f.id \in Nat
    BY ElementsType DEF Types
  <2>2. \A f \in Range(queue[x]) \union Range(log[x]) :
           PartitionOf[f.client] = x /\ f.id <= generated
    BY DEF InOrder, InPlace
  <2> QED BY <1>2, <2>1, <2>2
<1>4. ASSUME NEW x \in Partitions, x # p
      PROVE  Increasing(queue[x])' /\ Increasing(log[x])' /\ InPlace(x)' /\ UnwrittenIsLater(x)'
  <2>1. queue'[x] = queue[x]
    BY <1>2, <1>4
  <2> QED BY <1>2, <1>3, <2>1 DEF InOrder, Increasing, InPlace, UnwrittenIsLater
<1>5. Increasing(queue[p])' /\ Increasing(log[p])' /\ InPlace(p)' /\ UnwrittenIsLater(p)'
  <2>1. queue'[p] = Append(queue[p], e) /\ Range(Append(queue[p], e)) = Range(queue[p]) \union {e}
    BY <1>2, AppendFacts
  <2>2. Increasing(Append(queue[p], e))
    BY <1>2, <1>3, AppendIncreasing DEF InOrder
  <2>3. Increasing(queue[p])' /\ Increasing(log[p])'
    BY <1>2, <2>1, <2>2 DEF InOrder, Increasing
  <2>4. InPlace(p)'
    BY <1>2, <1>3, <2>1 DEF InPlace
  <2>5. UnwrittenIsLater(p)'
    BY <1>2, <1>3, <2>1 DEF InOrder, UnwrittenIsLater
  <2> QED BY <2>3, <2>4, <2>5
<1> QED BY <1>4, <1>5 DEF InOrder

\* The broker writes the first event of the queue that it has not written yet.
LEMMA OrderWrite ==
    ASSUME Types, InOrder, NEW p \in Partitions, BrokerWrites(p)
    PROVE  InOrder'
<1>1. PICK i \in DOMAIN queue[p] : Takes(p, i) /\ log' = [log EXCEPT ![p] = Append(@, queue[p][i])]
  BY DEF BrokerWrites
<1> DEFINE e == queue[p][i]
<1>2. /\ queue[p] \in Seq(Event) /\ log \in [Partitions -> Seq(Event)]
      /\ queue' = queue /\ generated' = generated
  BY DEF Types, TypeOK, BrokerWrites
<1>3. e \in Event /\ e \in Range(queue[p]) /\ e \notin Range(log[p])
  BY <1>1, <1>2 DEF Takes, Range
<1>4. \A f \in Range(log[p]) : f.id < e.id
  BY <1>3 DEF InOrder, UnwrittenIsLater
<1>5. \A f \in Range(queue[p]) : f \in Range(log[p]) \/ f = e \/ e.id < f.id
  <2>1. ASSUME NEW j \in DOMAIN queue[p]
        PROVE  queue[p][j] \in Range(log[p]) \/ queue[p][j] = e \/ e.id < queue[p][j].id
    <3>1. DOMAIN queue[p] = 1 .. Len(queue[p])
      BY <1>2
    <3>2. i \in Nat /\ j \in Nat /\ j >= 1
      BY <1>1, <2>1, <3>1
    <3>3. CASE j < i
      BY <1>1, <3>2, <3>3 DEF Takes
    <3>4. CASE i < j
      BY <3>4 DEF InOrder, Increasing
    <3> QED BY <3>2, <3>3, <3>4
  <2> QED BY <2>1 DEF Range
<1>6. Range(Append(log[p], e)) = Range(log[p]) \union {e} /\ log'[p] = Append(log[p], e)
  BY <1>1, <1>2, <1>3, AppendFacts
<1>7. Increasing(Append(log[p], e))
  BY <1>2, <1>3, <1>4, AppendIncreasing DEF InOrder
<1> HIDE DEF e
<1>8. ASSUME NEW x \in Partitions, x # p
      PROVE  Increasing(queue[x])' /\ Increasing(log[x])' /\ InPlace(x)' /\ UnwrittenIsLater(x)'
  <2>1. log'[x] = log[x]
    BY <1>1, <1>2, <1>8
  <2> QED BY <1>2, <2>1 DEF InOrder, Increasing, InPlace, UnwrittenIsLater
<1>9. Increasing(queue[p])' /\ Increasing(log[p])' /\ InPlace(p)' /\ UnwrittenIsLater(p)'
  <2>1. Increasing(queue[p])' /\ Increasing(log[p])'
    BY <1>2, <1>6, <1>7 DEF InOrder, Increasing
  <2>2. InPlace(p)'
    BY <1>2, <1>3, <1>6 DEF InOrder, InPlace
  <2>3. UnwrittenIsLater(p)'
    BY <1>2, <1>5, <1>6 DEF InOrder, UnwrittenIsLater
  <2> QED BY <2>1, <2>2, <2>3
<1> QED BY <1>8, <1>9 DEF InOrder

\* A message leaves the queue at its head.
LEMMA OrderConclude ==
    ASSUME Types, InOrder, NEW p \in Partitions, NEW ok \in BOOLEAN, queue[p] # <<>>, Conclude(p, ok)
    PROVE  InOrder'
<1> DEFINE q == queue[p]
<1>1. /\ queue \in [Partitions -> Seq(Event)] /\ queue' = [queue EXCEPT ![p] = Tail(q)]
      /\ log' = log /\ generated' = generated
  BY DEF Types, TypeOK, Conclude
<1>2. /\ \A i \in DOMAIN Tail(q) : i \in Nat /\ i + 1 \in DOMAIN q /\ Tail(q)[i] = q[i + 1]
      /\ Range(Tail(q)) \subseteq Range(q)
  BY <1>1, TailFacts
<1>3. Increasing(Tail(q))
  <2>1. \A i, j \in DOMAIN Tail(q) : i < j => i + 1 < j + 1
    BY <1>2
  <2>2. Increasing(q)
    BY DEF InOrder
  <2> QED BY <1>2, <2>1, <2>2 DEF Increasing
<1>4. ASSUME NEW x \in Partitions, x # p
      PROVE  Increasing(queue[x])' /\ Increasing(log[x])' /\ InPlace(x)' /\ UnwrittenIsLater(x)'
  <2>1. queue'[x] = queue[x]
    BY <1>1, <1>4
  <2> QED BY <1>1, <2>1 DEF InOrder, Increasing, InPlace, UnwrittenIsLater
<1>5. Increasing(queue[p])' /\ Increasing(log[p])' /\ InPlace(p)' /\ UnwrittenIsLater(p)'
  <2>1. queue'[p] = Tail(q)
    BY <1>1
  <2> QED BY <1>1, <1>2, <1>3, <2>1 DEF InOrder, Increasing, InPlace, UnwrittenIsLater
<1> QED BY <1>4, <1>5 DEF InOrder

LEMMA OrderStep ==
    ASSUME Types, InOrder, [Next]_vars
    PROVE  InOrder'
<1> USE DEF local, counters, ghosts
<1>1. CASE Send
  BY <1>1, OrderSend
<1>2. ASSUME NEW p \in Partitions, BrokerWrites(p) PROVE InOrder'
  BY <1>2, OrderWrite
<1>3. ASSUME NEW p \in Partitions, Acknowledged(p) \/ Expires(p) PROVE InOrder'
  BY <1>3, OrderConclude DEF Acknowledged, Expires
<1>4. CASE Kill
  <2>1. \A p \in Partitions : queue'[p] = <<>> /\ Range(queue'[p]) = {} /\ DOMAIN queue'[p] = {}
    BY <1>4 DEF Kill, Range
  <2>2. UNCHANGED <<log, generated>>
    BY <1>4 DEF Kill
  <2> QED BY <2>1, <2>2 DEF InOrder, Increasing, InPlace, UnwrittenIsLater
<1>5. CASE Leave \/ SendMalformed \/ SendRaises \/ Poll \/ FlushServes \/ FlushReturns
           \/ Sigterm \/ Restart \/ BrokerGoes \/ BrokerReturns \/ UNCHANGED vars
  <2>1. UNCHANGED <<queue, log>> /\ generated' \in {generated, generated + 1}
    BY <1>5 DEF Leave, SendMalformed, SendRaises, Poll, FlushServes, FlushReturns, Sigterm,
          Restart, BrokerGoes, BrokerReturns, Generate, vars
  <2>2. generated \in Nat
    BY DEF Types, TypeOK
  <2>3. generated' \in Nat /\ generated' >= generated
    BY <2>1, <2>2
  <2> QED BY <2>1, <2>3, OrderUntouched
<1> QED BY <1>1, <1>2, <1>3, <1>4, <1>5 DEF Next, Run, Transfer

LEMMA TypesAndOrder == Spec => [](Types /\ InOrder)
<1>1. Types /\ InOrder /\ [Next]_vars => (Types /\ InOrder)'
  BY TypesStep, OrderStep
<1> QED BY <1>1, TypesInit, PTL DEF Spec

\* Every variable of the producer keeps its type, and every event it counts as malformed
\* was an iteration of its own.
THEOREM ProducerTypes == Spec => []TypeOK
<1>1. Types /\ InOrder => TypeOK
  BY DEF Types
<1> QED BY <1>1, TypesAndOrder, PTL

\* The topic holds the events of a client in one partition, once and in the order they
\* were produced in, whatever acknowledgements are lost and processes killed.
THEOREM ClientsKeepTheirOrder == Spec => []ClientOrder
<1>1. ASSUME Types, InOrder PROVE ClientOrder
  <2>1. ASSUME NEW p \in Partitions, NEW q \in Partitions,
               NEW i \in DOMAIN log[p], NEW j \in DOMAIN log[q],
               log[p][i].client = log[q][j].client
        PROVE  p = q /\ (i < j => log[p][i].id < log[q][j].id)
    <3>1. log[p][i] \in Range(log[p]) /\ log[q][j] \in Range(log[q])
      BY DEF Range
    <3>2. p = q
      BY <1>1, <2>1, <3>1 DEF InOrder, InPlace
    <3> QED BY <1>1, <3>2 DEF InOrder, Increasing
  <2> QED BY <2>1 DEF ClientOrder
<1>2. Types /\ InOrder => ClientOrder
  BY <1>1
<1> QED BY <1>2, TypesAndOrder, PTL

-----------------------------------------------------------------------------
\* Where an event that produce() has accepted may be.
Held == Elements(queue) \union {r.event : r \in reports}

NothingForgotten ==
    /\ handed \subseteq Held \union Elements(log) \union reported \union cut
    /\ \A r \in reports : r.ok => r.event \in Elements(log)
    /\ pc \in Ended => Held = {}

\* Nothing is ever taken out of the topic, and what leaves the queue has been reported on.
LEMMA LogGrows ==
    ASSUME Types, [Next]_vars
    PROVE  Elements(log) \subseteq Elements(log)'
<1> USE DEF local, counters, ghosts
<1>1. ASSUME NEW p \in Partitions, BrokerWrites(p) PROVE Elements(log) \subseteq Elements(log)'
  <2>1. PICK i \in DOMAIN queue[p] : log' = [log EXCEPT ![p] = Append(@, queue[p][i])]
    BY <1>1 DEF BrokerWrites
  <2>2. queue[p][i] \in Event /\ log \in [Partitions -> Seq(Event)]
    BY <2>1 DEF Types, TypeOK
  <2>3. Range(log[p]) \subseteq Range(log'[p])
    BY <2>1, <2>2, AppendFacts
  <2>4. \A x \in Partitions : x # p => log'[x] = log[x]
    BY <2>1, <2>2
  <2> QED BY <2>3, <2>4 DEF Elements
<1>2. CASE ~ \E p \in Partitions : BrokerWrites(p)
  <2>1. log' = log
    BY <1>2 DEF Next, Run, Transfer, Leave, SendMalformed, Send, SendRaises, Poll, FlushServes,
          FlushReturns, Sigterm, Kill, Restart, Acknowledged, Expires, Conclude, BrokerGoes,
          BrokerReturns, vars
  <2> QED BY <2>1 DEF Elements
<1> QED BY <1>1, <1>2

LEMMA HeldAfterSend ==
    ASSUME Types, NothingForgotten, Send
    PROVE  NothingForgotten'
<1> USE DEF local, counters, ghosts
<1>1. PICK c \in Clients, p \in Partitions :
         LET e == [id |-> generated + 1, client |-> c] IN
         /\ e \in Event /\ queue' = [queue EXCEPT ![p] = Append(@, e)]
         /\ handed' = handed \union {e}
  BY SendEffect
<1> DEFINE e == [id |-> generated + 1, client |-> c]
<1>2. /\ e \in Event /\ queue' = [queue EXCEPT ![p] = Append(@, e)] /\ handed' = handed \union {e}
      /\ queue \in [Partitions -> Seq(Event)]
  BY <1>1 DEF Types, TypeOK
<1> HIDE DEF e
<1>3. Range(queue'[p]) = Range(queue[p]) \union {e}
  BY <1>2, AppendFacts
<1>4. \A x \in Partitions : x # p => queue'[x] = queue[x]
  BY <1>2
<1>5. Elements(queue)' = Elements(queue) \union {e}
  BY <1>3, <1>4 DEF Elements
<1>6. UNCHANGED <<reports, log, reported, cut>> /\ pc' = "poll"
  BY DEF Send
<1>7. Elements(log)' = Elements(log)
  BY <1>6 DEF Elements
<1> QED BY <1>2, <1>5, <1>6, <1>7 DEF NothingForgotten, Held, Ended

LEMMA HeldAfterConclude ==
    ASSUME Types, NothingForgotten, NEW p \in Partitions, NEW ok \in BOOLEAN,
           queue[p] # <<>>, Conclude(p, ok), ok => Head(queue[p]) \in Range(log[p])
    PROVE  NothingForgotten'
<1> USE DEF local, counters, ghosts
<1> DEFINE e == Head(queue[p])
           r == [event |-> e, ok |-> ok]
<1>1. /\ queue' = [queue EXCEPT ![p] = Tail(@)] /\ reports' = reports \union {r}
      /\ UNCHANGED <<log, pc, handed, reported, cut>>
  BY DEF Conclude
<1>2. queue \in [Partitions -> Seq(Event)]
  BY DEF Types, TypeOK
<1>3. Range(queue[p]) = Range(queue'[p]) \union {e}
  BY <1>1, <1>2, TailFacts
<1>4. \A x \in Partitions : x # p => queue'[x] = queue[x]
  BY <1>1, <1>2
<1>5. r.event = e /\ r.ok = ok
  OBVIOUS
<1>6. ok => e \in Elements(log)
  BY DEF Elements
<1>7. Elements(queue) = Elements(queue)' \union {e}
  BY <1>3, <1>4 DEF Elements
<1> HIDE DEF e, r
<1>8. Held' = Held
  BY <1>1, <1>5, <1>7 DEF Held
<1>9. Elements(log)' = Elements(log)
  BY <1>1 DEF Elements
<1> QED BY <1>1, <1>5, <1>6, <1>8, <1>9 DEF NothingForgotten

\* The failures among the reports are logged, and the others are of events in the topic.
LEMMA HeldAfterCheck ==
    ASSUME NothingForgotten, CheckDeliveries, UNCHANGED <<queue, log, handed, cut>>, pc \notin Ended,
           pc' \notin Ended
    PROVE  NothingForgotten'
<1>1. reports' = {} /\ reported' = reported \union {r.event : r \in Served}
  BY DEF CheckDeliveries
<1>2. \A r \in reports : r.event \in Elements(log) \union reported'
  BY <1>1 DEF NothingForgotten, Served
<1>3. Elements(log)' = Elements(log) /\ Elements(queue)' = Elements(queue)
  BY DEF Elements
<1>4. Held' = Elements(queue)
  BY <1>1, <1>3 DEF Held
<1> QED BY <1>1, <1>2, <1>3, <1>4 DEF NothingForgotten, Held

LEMMA ForgottenStep ==
    ASSUME Types, NothingForgotten, [Next]_vars
    PROVE  NothingForgotten'
<1> USE DEF local, counters, ghosts
<1>1. CASE Send
  BY <1>1, HeldAfterSend
<1>2. ASSUME NEW p \in Partitions, Acknowledged(p) \/ Expires(p) PROVE NothingForgotten'
  BY <1>2, HeldAfterConclude DEF Acknowledged, Expires
<1>3. CASE Poll
  BY <1>3, HeldAfterCheck DEF Poll, Ended
<1>4. CASE FlushServes
  BY <1>4, HeldAfterCheck DEF FlushServes, Ended
<1>5. CASE Kill
  <2>1. /\ \A p \in Partitions : Range(queue'[p]) = {}
        /\ reports' = {} /\ cut' = cut \union Held /\ UNCHANGED <<log, handed, reported>>
    BY <1>5 DEF Kill, Held, Range
  <2>2. Held' = {} /\ Elements(log)' = Elements(log)
    BY <2>1 DEF Held, Elements
  <2> QED BY <2>1, <2>2 DEF NothingForgotten
<1>6. CASE FlushReturns
  <2>1. UNCHANGED <<queue, reports, log, handed, reported, cut>> /\ Held = {}
    BY <1>6 DEF FlushReturns, Held
  <2> QED BY <2>1 DEF NothingForgotten, Held, Elements
<1>7. ASSUME NEW p \in Partitions, BrokerWrites(p) PROVE NothingForgotten'
  <2>1. UNCHANGED <<queue, reports, pc, handed, reported, cut>>
    BY <1>7 DEF BrokerWrites
  <2>2. Held' = Held
    BY <2>1 DEF Held, Elements
  <2> QED BY <2>1, <2>2, LogGrows DEF NothingForgotten
<1>8. CASE Leave \/ SendMalformed \/ SendRaises \/ Sigterm \/ Restart \/ BrokerGoes
           \/ BrokerReturns \/ UNCHANGED vars
  <2>1. /\ UNCHANGED <<queue, reports, log, handed, reported, cut>>
        /\ pc' \in Ended => pc \in Ended
    BY <1>8 DEF Leave, SendMalformed, SendRaises, Sigterm, Restart, BrokerGoes, BrokerReturns,
          Ended, vars
  <2> QED BY <2>1 DEF NothingForgotten, Held, Elements
<1> QED BY <1>1, <1>2, <1>3, <1>4, <1>5, <1>6, <1>7, <1>8 DEF Next, Run, Transfer

\* When run() has ended, an event that produce() accepted is in the topic, has been logged
\* as failed, or was in the queue of a process that was killed.
THEOREM RunLeavesNothingBehind == Spec => []NothingLeftBehind
<1>1. Init => NothingForgotten
  BY DEF Init, NothingForgotten, Held, Elements, Ended, Range
<1>2. Types /\ NothingForgotten /\ [Next]_vars => NothingForgotten'
  BY ForgottenStep
<1>3. NothingForgotten => NothingLeftBehind
  BY DEF NothingForgotten, NothingLeftBehind, Held, Ended
<1> QED BY <1>1, <1>2, <1>3, TypesAndOrder, PTL DEF Spec

-----------------------------------------------------------------------------
\* A number names one event, and only events that produce() has accepted are on the way
\* to the topic or in it.
Numbered ==
    /\ Elements(queue) \union Elements(log) \subseteq handed
    /\ \A e \in handed : e.id <= generated
    /\ \A e, f \in handed : e.id = f.id => e = f

LEMMA NumberedAfterSend ==
    ASSUME Types, Numbered, Send
    PROVE  Numbered'
<1>1. PICK c \in Clients, p \in Partitions :
         LET e == [id |-> generated + 1, client |-> c] IN
         /\ e \in Event /\ queue' = [queue EXCEPT ![p] = Append(@, e)]
         /\ handed' = handed \union {e} /\ generated' = generated + 1
  BY SendEffect
<1> DEFINE e == [id |-> generated + 1, client |-> c]
<1>2. /\ e \in Event /\ e.id = generated + 1
      /\ queue' = [queue EXCEPT ![p] = Append(@, e)] /\ log' = log
      /\ handed' = handed \union {e} /\ generated' = generated + 1
      /\ generated \in Nat /\ queue \in [Partitions -> Seq(Event)]
  <2>1. e.id = generated + 1
    OBVIOUS
  <2>2. log' = log /\ generated \in Nat
    BY DEF Send, Types, TypeOK
  <2> HIDE DEF e
  <2> QED BY <1>1, <2>1, <2>2 DEF Types, TypeOK, e
<1> HIDE DEF e
<1>3. Range(queue'[p]) = Range(queue[p]) \union {e}
  BY <1>2, AppendFacts
<1>4. \A x \in Partitions : x # p => queue'[x] = queue[x]
  BY <1>2
<1>5. Elements(queue)' = Elements(queue) \union {e} /\ Elements(log)' = Elements(log)
  BY <1>2, <1>3, <1>4 DEF Elements
<1>6. \A f \in handed : f.id \in Nat /\ f.id <= generated
  BY DEF Types, TypeOK, Event, Numbered
<1>7. \A f \in handed : f.id <= generated + 1 /\ f.id # e.id
  BY <1>2, <1>6
<1>8. \A f \in handed' : f.id <= generated'
  BY <1>2, <1>7
<1>9. \A f, g \in handed' : f.id = g.id => f = g
  BY <1>2, <1>7 DEF Numbered
<1> QED BY <1>2, <1>5, <1>8, <1>9 DEF Numbered

LEMMA NumberedStep ==
    ASSUME Types, Numbered, [Next]_vars
    PROVE  Numbered'
<1> USE DEF local, counters, ghosts
<1>1. CASE Send
  BY <1>1, NumberedAfterSend
<1>2. ASSUME NEW p \in Partitions, BrokerWrites(p) PROVE Numbered'
  <2>1. PICK i \in DOMAIN queue[p] : log' = [log EXCEPT ![p] = Append(@, queue[p][i])]
    BY <1>2 DEF BrokerWrites
  <2>2. /\ queue[p][i] \in Event /\ queue[p][i] \in Elements(queue)
        /\ log \in [Partitions -> Seq(Event)]
    BY <2>1 DEF Types, TypeOK, Elements, Range
  <2>3. Range(log'[p]) = Range(log[p]) \union {queue[p][i]}
    BY <2>1, <2>2, AppendFacts
  <2>4. \A x \in Partitions : x # p => log'[x] = log[x]
    BY <2>1, <2>2
  <2>5. Elements(log)' = Elements(log) \union {queue[p][i]}
    BY <2>3, <2>4 DEF Elements
  <2>6. Elements(queue)' = Elements(queue) /\ UNCHANGED <<handed, generated>>
    BY <1>2 DEF BrokerWrites, Elements
  <2> QED BY <2>2, <2>5, <2>6 DEF Numbered
<1>3. ASSUME NEW p \in Partitions, Acknowledged(p) \/ Expires(p) PROVE Numbered'
  <2>1. /\ queue[p] # <<>> /\ queue' = [queue EXCEPT ![p] = Tail(@)]
        /\ UNCHANGED <<log, handed, generated>>
    BY <1>3 DEF Acknowledged, Expires, Conclude
  <2>2. queue \in [Partitions -> Seq(Event)]
    BY DEF Types, TypeOK
  <2>3. Range(queue'[p]) \subseteq Range(queue[p])
    BY <2>1, <2>2, TailFacts
  <2>4. \A x \in Partitions : x # p => queue'[x] = queue[x]
    BY <2>1, <2>2
  <2>5. Elements(queue)' \subseteq Elements(queue) /\ Elements(log)' = Elements(log)
    BY <2>1, <2>3, <2>4 DEF Elements
  <2> QED BY <2>1, <2>5 DEF Numbered
<1>4. CASE Kill
  <2>1. \A p \in Partitions : Range(queue'[p]) = {}
    BY <1>4 DEF Kill, Range
  <2>2. UNCHANGED <<log, handed, generated>>
    BY <1>4 DEF Kill
  <2> QED BY <2>1, <2>2 DEF Numbered, Elements
<1>5. CASE Leave \/ SendMalformed \/ SendRaises \/ Poll \/ FlushServes \/ FlushReturns
           \/ Sigterm \/ Restart \/ BrokerGoes \/ BrokerReturns \/ UNCHANGED vars
  <2>1. UNCHANGED <<queue, log, handed>> /\ generated' \in {generated, generated + 1}
    BY <1>5 DEF Leave, SendMalformed, SendRaises, Poll, FlushServes, FlushReturns, Sigterm,
          Restart, BrokerGoes, BrokerReturns, Generate, vars
  <2>2. generated \in Nat /\ \A e \in handed : e.id \in Nat
    BY DEF Types, TypeOK, Event
  <2>3. \A e \in handed : e.id <= generated'
    BY <2>1, <2>2 DEF Numbered
  <2> QED BY <2>1, <2>3 DEF Numbered, Elements
<1> QED BY <1>1, <1>2, <1>3, <1>4, <1>5 DEF Next, Run, Transfer

\* An event is one message of the topic: no partition and no second offset holds it again,
\* whatever was sent twice.  It is what FeatureConsumer assumes of a key (KeyAssumption).
THEOREM OneMessagePerEvent ==
    Spec => [](\A p, q \in Partitions : \A i \in DOMAIN log[p], j \in DOMAIN log[q] :
                  log[p][i].id = log[q][j].id => p = q /\ i = j)
<1> DEFINE Once ==
        \A p, q \in Partitions : \A i \in DOMAIN log[p], j \in DOMAIN log[q] :
            log[p][i].id = log[q][j].id => p = q /\ i = j
<1>1. ASSUME Types, InOrder, Numbered PROVE Once
  <2>1. ASSUME NEW p \in Partitions, NEW q \in Partitions,
               NEW i \in DOMAIN log[p], NEW j \in DOMAIN log[q],
               log[p][i].id = log[q][j].id
        PROVE  p = q /\ i = j
    <3>1. /\ log[p][i] \in Range(log[p]) /\ log[q][j] \in Range(log[q])
          /\ log[p] \in Seq(Event) /\ log[q] \in Seq(Event)
      BY <1>1 DEF Range, Types, TypeOK
    <3>2. log[p][i] = log[q][j]
      BY <1>1, <2>1, <3>1 DEF Numbered, Elements
    <3>3. p = q
      BY <1>1, <3>1, <3>2 DEF InOrder, InPlace
    <3>4. i \in Nat /\ j \in Nat /\ log[p][i].id \in Nat
      <4>1. \A s \in Seq(Event) : \A k \in DOMAIN s : k \in Nat /\ s[k] \in Event
        OBVIOUS
      <4> QED BY <3>1, <4>1 DEF Event
    <3>5. ~(i < j) /\ ~(j < i)
      BY <1>1, <2>1, <3>3, <3>4 DEF InOrder, Increasing
    <3> QED BY <3>3, <3>4, <3>5
  <2> QED BY <2>1
<1>2. Types /\ InOrder /\ Numbered => Once
  BY <1>1
<1>3. Init => Numbered
  BY DEF Init, Numbered, Elements, Range
<1>4. Types /\ Numbered /\ [Next]_vars => Numbered'
  BY NumberedStep
<1> HIDE DEF Once
<1>5. Spec => []Once
  BY <1>2, <1>3, <1>4, TypesAndOrder, PTL DEF Spec
<1> QED BY <1>5 DEF Once

=============================================================================
