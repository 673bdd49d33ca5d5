------------------------- MODULE FeatureConsumerProofs -------------------------
(***************************************************************************)
(* Proofs about FeatureConsumer, for every log, batch size and set of      *)
(* faults: its types, and that only an abandoned batch or a failed         *)
(* dead-letter insert can lose a message behind the committed offset.      *)
(***************************************************************************)
EXTENDS FeatureConsumer, TLAPS

\* A coordinate below the length of its partition names a message, and a message
\* has a partition, an offset and a content.
LEMMA SrcFacts ==
    /\ \A p \in Partitions : \A o \in Nat : o < Len(Log[p]) => At(p, o) \in Src
    /\ \A s \in Src : /\ s.part \in Partitions /\ s.off \in Nat
                      /\ s.off < Len(Log[s.part])
                      /\ s = At(s.part, s.off)
                      /\ Msg(s) \in Message
<1>1. \A p \in Partitions : Len(Log[p]) \in Nat /\ Log[p] \in Seq(Message)
  BY LogAssumption
<1>2. ASSUME NEW p \in Partitions, NEW o \in Nat, o < Len(Log[p])
      PROVE  At(p, o) \in Src
  <2>1. At(p, o) \in [part : {p}, off : 0 .. (Len(Log[p]) - 1)]
    BY <1>1, <1>2 DEF At
  <2> QED BY <2>1 DEF Src
<1>3. ASSUME NEW s \in Src
      PROVE  /\ s.part \in Partitions /\ s.off \in Nat
             /\ s.off < Len(Log[s.part])
             /\ s = At(s.part, s.off)
             /\ Msg(s) \in Message
  <2>1. PICK p \in Partitions : s \in [part : {p}, off : 0 .. (Len(Log[p]) - 1)]
    BY <1>3 DEF Src
  <2>2. s.part = p /\ s.off \in 0 .. (Len(Log[p]) - 1) /\ s = At(p, s.off)
    BY <2>1 DEF At
  <2>3. s.off \in Nat /\ s.off < Len(Log[p]) /\ s.off + 1 \in 1 .. Len(Log[p])
    BY <2>2, <1>1
  <2>4. Log[p][s.off + 1] \in Message
    BY <2>3, <1>1
  <2> QED BY <2>2, <2>3, <2>4 DEF Msg
<1> QED BY <1>2, <1>3

LEMMA RowType ==
    ASSUME TypeOK
    PROVE  /\ DOMAIN rows = 1 .. Len(rows) /\ Len(rows) \in Nat
           /\ \A i \in DOMAIN rows : rows[i] \in [pk : Pks, src : Src]
           /\ \A i \in DOMAIN rows : rows[i].pk \in Pks /\ rows[i].src \in Src
<1> DEFINE R == [pk : Pks, src : Src]
<1>1. rows \in Seq(R)
  BY DEF TypeOK
<1> HIDE DEF R
<1>2. DOMAIN rows = 1 .. Len(rows) /\ Len(rows) \in Nat /\ \A i \in DOMAIN rows : rows[i] \in R
  BY <1>1
<1> QED BY <1>2 DEF R

\* The last of the rows with a primary key is one of them.
LEMMA UpsertedType ==
    ASSUME TypeOK, LastRowExists
    PROVE  /\ Upserted \in [Pks -> Src \union {NoSrc}]
           /\ \A k \in Pks : IF RowsFor(k) = {}
                               THEN Upserted[k] = table[k]
                               ELSE \E i \in DOMAIN rows :
                                       rows[i].pk = k /\ Upserted[k] = rows[i].src
<1>1. ASSUME NEW k \in Pks, RowsFor(k) # {}
      PROVE  Max(RowsFor(k)) \in RowsFor(k)
  <2>1. PICK i \in RowsFor(k) : \A j \in RowsFor(k) : i >= j
    BY <1>1 DEF LastRowExists
  <2> QED BY <2>1 DEF Max
<1>2. \A i \in DOMAIN rows : rows[i].src \in Src
  BY RowType
<1>3. ASSUME NEW k \in Pks
      PROVE  /\ Upserted[k] \in Src \union {NoSrc}
             /\ IF RowsFor(k) = {}
                  THEN Upserted[k] = table[k]
                  ELSE \E i \in DOMAIN rows : rows[i].pk = k /\ Upserted[k] = rows[i].src
  <2>1. CASE RowsFor(k) = {}
    BY <2>1 DEF Upserted, TypeOK
  <2>2. CASE RowsFor(k) # {}
    <3>1. Max(RowsFor(k)) \in DOMAIN rows /\ rows[Max(RowsFor(k))].pk = k
      BY <1>1, <2>2 DEF RowsFor
    <3>2. Upserted[k] = rows[Max(RowsFor(k))].src
      BY <2>2 DEF Upserted
    <3> QED BY <3>1, <3>2, <2>2, <1>2
  <2> QED BY <2>1, <2>2
<1> QED BY <1>3 DEF Upserted

-----------------------------------------------------------------------------
\* What appending a row does to the sequence, spelled out index by index.
LEMMA AppendRow ==
    ASSUME TypeOK, NEW r \in [pk : Pks, src : Src], rows' = Append(rows, r)
    PROVE  /\ rows' \in Seq([pk : Pks, src : Src])
           /\ DOMAIN rows' = (DOMAIN rows) \union {Len(rows) + 1}
           /\ \A i \in DOMAIN rows : rows'[i] = rows[i]
           /\ rows'[Len(rows) + 1] = r
<1> DEFINE R == [pk : Pks, src : Src]
<1>1. rows \in Seq(R) /\ r \in R
  BY DEF TypeOK
<1> HIDE DEF R
<1>2. /\ rows' \in Seq(R)
      /\ DOMAIN rows' = (DOMAIN rows) \union {Len(rows) + 1}
      /\ \A i \in DOMAIN rows : rows'[i] = rows[i]
      /\ rows'[Len(rows) + 1] = r
  BY <1>1
<1> QED BY <1>2 DEF R

\* A poll puts the next message of its partition into the batch, as a new last
\* row with a primary key of its own or among the rejected ones.
LEMMA PollEffect ==
    ASSUME TypeOK, NEW p \in Partitions, Poll(p),
           NEW s, s = At(p, position[p])
    PROVE  /\ s \in Src /\ s.part = p /\ s.off = position[p]
           /\ last' = s
           /\ rejected' \in {rejected, rejected \union {s}}
           /\ \/ rows' = rows /\ rejected' = rejected \union {s}
              \/ \E k \in Pks : /\ k \in PksFor(Msg(s))
                               /\ rows' = Append(rows, [pk |-> k, src |-> s])
<1>1. s \in Src /\ s.part = p /\ s.off = position[p]
  <2>1. position[p] \in Nat /\ position[p] < Len(Log[p])
    BY DEF TypeOK, Poll
  <2> QED BY <2>1, SrcFacts DEF At
<1>2. PksFor(Msg(s)) \subseteq Pks
  BY <1>1, SrcFacts DEF PksFor, Pks, Message
<1> QED BY <1>1, <1>2 DEF Poll

LEMMA PollBatchSrcs ==
    ASSUME TypeOK, NEW p \in Partitions, Poll(p),
           NEW s, s = At(p, position[p])
    PROVE  BatchSrcs' = BatchSrcs \union {s}
<1>1. CASE rows' = rows /\ rejected' = rejected \union {s}
  BY <1>1 DEF BatchSrcs
<1>2. ASSUME NEW k \in Pks, rows' = Append(rows, [pk |-> k, src |-> s])
      PROVE  BatchSrcs' = BatchSrcs \union {s}
  <2>1. [pk |-> k, src |-> s] \in [pk : Pks, src : Src]
    BY PollEffect
  <2>2. /\ DOMAIN rows' = (DOMAIN rows) \union {Len(rows) + 1}
        /\ \A i \in DOMAIN rows : rows'[i].src = rows[i].src
        /\ rows'[Len(rows) + 1].src = s
    BY <2>1, <1>2, AppendRow
  <2>3. rejected' \in {rejected, rejected \union {s}}
    BY PollEffect
  <2> QED BY <2>2, <2>3 DEF BatchSrcs
<1> QED BY <1>1, <1>2, PollEffect

-----------------------------------------------------------------------------
\* The starting states.
LEMMA InitInv == Init => IInv
<1> SUFFICES ASSUME Init PROVE IInv
  OBVIOUS
<1>1. TypeOK
  <2>1. rows \in Seq([pk : Pks, src : Src])
    BY DEF Init
  <2>2. /\ committed \in [Partitions -> Nat] /\ position \in [Partitions -> Nat]
        /\ table \in [Pks -> Src \union {NoSrc}] /\ cache \in [Clients -> SUBSET Src]
    BY DEF Init
  <2>3. polls \in 0 .. BatchSize /\ faults \in Nat /\ pc \in PCs
    BY BoundAssumption DEF Init, PCs
  <2>4. astray \in BOOLEAN
    BY DEF Init
  <2> QED BY <2>1, <2>2, <2>3, <2>4 DEF Init, TypeOK
<1>2. BatchSrcs = {} /\ DOMAIN rows = {}
  BY DEF Init, BatchSrcs
<1>3. BatchShape
  BY <1>2 DEF Init, BatchShape
<1>4. LastRowExists
  BY <1>2 DEF LastRowExists, RowsFor
<1>5. RowsHaveKeys
  BY <1>2 DEF RowsHaveKeys
<1>6. PassedOver
  BY <1>2 DEF Init, PassedOver
<1>7. WrittenBeforeCommit
  BY DEF Init, WrittenBeforeCommit
<1>8. LossIsAccountedFor
  BY SrcFacts DEF Init, LossIsAccountedFor, Committed
<1> QED BY <1>1, <1>3, <1>4, <1>5, <1>6, <1>7, <1>8 DEF IInv

-----------------------------------------------------------------------------
LEMMA FreshBatchType ==
    FreshBatch => /\ polls' \in 0 .. BatchSize /\ rows' \in Seq([pk : Pks, src : Src])
                  /\ rejected' \subseteq Src /\ last' \in Src \union {NoSrc}
                  /\ pending' \subseteq Clients
                  /\ rows' = <<>> /\ rejected' = {} /\ last' = NoSrc
                  /\ BatchSrcs' = {}
  BY BoundAssumption DEF FreshBatch, BatchSrcs

LEMMA SeekType ==
    ASSUME TypeOK, SeekToCommitted
    PROVE  position' \in [Partitions -> Nat] /\ skipped' \subseteq Src
  BY DEF TypeOK, SeekToCommitted

LEMMA BatchTypes ==
    ASSUME TypeOK
    PROVE  BatchSrcs \subseteq Src /\ BatchClients \subseteq Clients
<1>1. BatchSrcs \subseteq Src
  BY RowType DEF TypeOK, BatchSrcs
<1> QED BY <1>1 DEF BatchClients

\* Every step keeps the types.
LEMMA TypeStep ==
    ASSUME TypeOK, BatchShape, LastRowExists, [Next]_vars
    PROVE  TypeOK'
<1> USE DEF durable, batch, injected
<1>1. CASE Start
  BY <1>1, FreshBatchType, SeekType DEF TypeOK, Start, PCs
<1>2. ASSUME NEW p \in Partitions, Poll(p) PROVE TypeOK'
  <2> DEFINE s == At(p, position[p])
  <2>1. rows' \in Seq([pk : Pks, src : Src]) /\ rejected' \subseteq Src
    <3>1. CASE rows' = rows /\ rejected' = rejected \union {s}
      BY <3>1, <1>2, PollEffect DEF TypeOK
    <3>2. ASSUME NEW k \in Pks, rows' = Append(rows, [pk |-> k, src |-> s])
          PROVE  rows' \in Seq([pk : Pks, src : Src]) /\ rejected' \subseteq Src
      <4>1. [pk |-> k, src |-> s] \in [pk : Pks, src : Src]
        BY <1>2, PollEffect
      <4>2. rejected' \in {rejected, rejected \union {s}} /\ s \in Src
        BY <1>2, PollEffect
      <4> QED BY <3>2, <4>1, <4>2, AppendRow DEF TypeOK
    <3> QED BY <3>1, <3>2, <1>2, PollEffect
  <2>2. last' \in Src
    BY <1>2, PollEffect
  <2>3. position' \in [Partitions -> Nat] /\ polls' \in 0 .. BatchSize
    BY <1>2, BoundAssumption DEF TypeOK, Poll, CanPoll
  <2> QED BY <1>2, <2>1, <2>2, <2>3 DEF TypeOK, Poll
<1>3. ASSUME NEW p \in Partitions, PollFatal(p) PROVE TypeOK'
  BY <1>3, FreshBatchType DEF TypeOK, PollFatal, PCs
<1>4. CASE PollNothing
  <2>1. polls' \in 0 .. BatchSize
    BY <1>4, BoundAssumption DEF TypeOK, PollNothing, CanPoll
  <2> QED BY <1>4, <2>1 DEF TypeOK, PollNothing
<1>5. CASE EndPolling
  BY <1>5, FreshBatchType DEF TypeOK, EndPolling, ReturnToLoop, PCs
<1>6. CASE Upsert
  BY <1>6, UpsertedType, BatchTypes DEF TypeOK, Upsert, PCs
<1>7. ASSUME NEW c \in Clients, Recompute(c) PROVE TypeOK'
  <2>1. RowsOfClient(c) \subseteq Src
    BY DEF RowsOfClient
  <2> QED BY <1>7, <2>1 DEF TypeOK, Recompute
<1>8. CASE EndCompute
  BY <1>8 DEF TypeOK, EndCompute, PCs
<1>9. ASSUME AbandonBatch
      PROVE  /\ skipped' \subseteq Src /\ pc' \in PCs
             /\ UNCHANGED <<committed, dlq, running, position>>
             /\ FreshBatch
  BY <1>9, BatchTypes DEF TypeOK, AbandonBatch, ReturnToLoop, PCs
<1>10. CASE UpsertRejected
  BY <1>10, <1>9, FreshBatchType DEF TypeOK, UpsertRejected
<1>11. CASE UpsertFails
  <2>1. table' \in [Pks -> Src \union {NoSrc}]
    BY <1>11, UpsertedType DEF TypeOK, UpsertFails
  <2>2. faults' \in Nat /\ astray' \in BOOLEAN
    BY <1>11 DEF TypeOK, UpsertFails, Inject
  <2> QED BY <1>11, <1>9, <2>1, <2>2, FreshBatchType DEF TypeOK, UpsertFails
<1>12. CASE RecomputeFails
  <2>1. faults' \in Nat /\ astray' \in BOOLEAN
    BY <1>12 DEF TypeOK, RecomputeFails, Inject
  <2> QED BY <1>12, <1>9, <2>1, FreshBatchType DEF TypeOK, RecomputeFails
<1>13. CASE WriteDlq
  BY <1>13 DEF TypeOK, WriteDlq, PCs
<1>14. CASE DlqFails
  BY <1>14 DEF TypeOK, DlqFails, Inject, PCs
<1>15. CASE Commit
  <2>1. last \in Src
    BY <1>15 DEF TypeOK, Commit, BatchShape
  <2>2. last.off + 1 \in Nat
    BY <2>1, SrcFacts
  <2> QED BY <1>15, <2>2 DEF TypeOK, Commit, PCs
<1>16. CASE WriteRunMetrics
  BY <1>16, FreshBatchType DEF TypeOK, WriteRunMetrics, ReturnToLoop, PCs
<1>17. CASE Crash
  BY <1>17, FreshBatchType DEF TypeOK, Crash, Inject, PCs
<1>18. CASE Sigterm
  <2>1. running' \in BOOLEAN
    BY <1>18 DEF Sigterm
  <2>2. faults' \in Nat /\ astray' \in BOOLEAN
    BY <1>18 DEF TypeOK, Sigterm, Inject
  <2> QED BY <1>18, <2>1, <2>2 DEF TypeOK, Sigterm
<1>19. CASE Rejoin
  <2>1. faults' \in Nat
    <3>1. faults' = faults + 1
      BY <1>19, Zenon DEF Rejoin, Inject
    <3> QED BY <3>1 DEF TypeOK
  <2>2. astray' \in BOOLEAN
    <3>1. CASE Inject("rejoin")
      <4>1. astray' = astray
        BY <3>1 DEF Inject
      <4> QED BY <4>1 DEF TypeOK
    <3>2. CASE Inject("midrejoin")
      BY <3>2 DEF Inject
    <3> QED BY <1>19, <3>1, <3>2 DEF Rejoin
  <2> QED BY <1>19, <2>1, <2>2, SeekType DEF TypeOK, Rejoin
<1>20. CASE UNCHANGED vars
  BY <1>20 DEF TypeOK, vars
<1> QED
  BY <1>1, <1>2, <1>3, <1>4, <1>5, <1>6, <1>7, <1>8, <1>10, <1>11, <1>12, <1>13,
     <1>14, <1>15, <1>16, <1>17, <1>18, <1>19, <1>20 DEF Next, Flush, Acknowledge

-----------------------------------------------------------------------------
\* A step starts a new batch, leaves the batch as it is, or polls a message; the
\* table changes only on the way out of "upsert".
LEMMA BatchStep ==
    ASSUME TypeOK, [Next]_vars
    PROVE  \/ FreshBatch /\ pc' \in {"down", "polling"}
           \/ /\ UNCHANGED <<rows, rejected, last>>
              /\ pc' \in {"polling", "upsert"} =>
                    pc \in {"polling", "upsert"} /\ UNCHANGED table
           \/ \E p \in Partitions : Poll(p)
<1> USE DEF durable, batch, injected
<1>1. CASE Start \/ Crash \/ WriteRunMetrics
  BY <1>1 DEF Start, Crash, WriteRunMetrics, ReturnToLoop
<1>2. CASE UpsertRejected \/ UpsertFails \/ RecomputeFails
  BY <1>2 DEF UpsertRejected, UpsertFails, RecomputeFails, AbandonBatch, ReturnToLoop
<1>3. CASE \E p \in Partitions : PollFatal(p)
  BY <1>3 DEF PollFatal
<1>4. CASE EndPolling
  BY <1>4 DEF EndPolling, ReturnToLoop
<1>5. CASE PollNothing \/ Rejoin \/ Sigterm
  BY <1>5 DEF PollNothing, Rejoin, Sigterm
<1>6. CASE Upsert \/ EndCompute \/ \E c \in Clients : Recompute(c)
  BY <1>6 DEF Upsert, EndCompute, Recompute
<1>7. CASE WriteDlq \/ DlqFails \/ Commit
  BY <1>7 DEF WriteDlq, DlqFails, Commit
<1>8. CASE UNCHANGED vars
  BY <1>8 DEF vars
<1> QED BY <1>1, <1>2, <1>3, <1>4, <1>5, <1>6, <1>7, <1>8 DEF Next, Flush, Acknowledge

LEMMA LastRowStep ==
    ASSUME TypeOK, LastRowExists, [Next]_vars
    PROVE  LastRowExists'
<1>1. CASE FreshBatch
  <2>1. DOMAIN rows' = {}
    BY <1>1 DEF FreshBatch
  <2> QED BY <2>1 DEF LastRowExists, RowsFor
<1>2. CASE UNCHANGED rows
  BY <1>2 DEF LastRowExists, RowsFor
<1>3. ASSUME NEW p \in Partitions, Poll(p), NEW k \in Pks,
             rows' = Append(rows, [pk |-> k, src |-> At(p, position[p])])
      PROVE  LastRowExists'
  <2> DEFINE n == Len(rows) + 1
  <2>1. [pk |-> k, src |-> At(p, position[p])] \in [pk : Pks, src : Src]
    BY <1>3, PollEffect
  <2>2. /\ DOMAIN rows' = (DOMAIN rows) \union {n}
        /\ \A i \in DOMAIN rows : rows'[i].pk = rows[i].pk
        /\ rows'[n].pk = k
    BY <2>1, <1>3, AppendRow
  <2>3. \A i \in DOMAIN rows : n >= i
    BY RowType
  <2>4. n \in Nat
    BY RowType
  <2> HIDE DEF n
  <2>5. ASSUME NEW l \in Pks
        PROVE  RowsFor(l)' = IF l = k THEN RowsFor(l) \union {n} ELSE RowsFor(l)
    BY <2>2 DEF RowsFor
  <2>6. ASSUME NEW l \in Pks, RowsFor(l)' # {}
        PROVE  \E i \in RowsFor(l)' : \A j \in RowsFor(l)' : i >= j
    <3>1. CASE l = k
      <4>1. \A j \in RowsFor(l)' : n >= j
        BY <2>5, <2>3, <2>4, <3>1 DEF RowsFor
      <4> QED BY <4>1, <2>5, <3>1
    <3>2. CASE l # k
      <4>1. RowsFor(l)' = RowsFor(l)
        BY <3>2, <2>5
      <4> QED BY <4>1, <2>6 DEF LastRowExists
    <3> QED BY <3>1, <3>2
  <2> QED BY <2>6 DEF LastRowExists
<1> QED BY <1>1, <1>2, <1>3, BatchStep, PollEffect

LEMMA BatchShapeStep ==
    ASSUME TypeOK, BatchShape, [Next]_vars
    PROVE  BatchShape'
<1> USE DEF durable, batch, injected
<1>1. CASE FreshBatch /\ pc' \in {"down", "polling"}
  BY <1>1, FreshBatchType DEF BatchShape
<1>2. ASSUME NEW p \in Partitions, Poll(p) PROVE BatchShape'
  <2> DEFINE m == At(p, position[p])
  <2>1. m \in Src /\ last' = m /\ BatchSrcs' = BatchSrcs \union {m}
    BY <1>2, PollEffect, PollBatchSrcs
  <2> HIDE DEF m
  <2>2. pc' = "polling" /\ last' \in Src /\ last' \in BatchSrcs'
    BY <1>2, <2>1 DEF Poll, CanPoll
  <2> QED BY <2>2, NameAssumption DEF BatchShape
<1>3. CASE /\ UNCHANGED <<rows, rejected, last>>
           /\ ~ (FreshBatch /\ pc' \in {"down", "polling"})
  <2>1. BatchSrcs' = BatchSrcs
    BY <1>3 DEF BatchSrcs
  <2>2. /\ pc' = "down" => pc = "down"
        /\ pc' \in {"upsert", "compute", "dlq", "commit"} => last # NoSrc
    <3>1. CASE EndPolling
      BY <3>1, <1>3 DEF EndPolling, ReturnToLoop
    <3>2. CASE Upsert \/ EndCompute \/ WriteDlq \/ DlqFails \/ Commit
      BY <3>2 DEF BatchShape, Upsert, EndCompute, WriteDlq, DlqFails, Commit
    <3>3. CASE PollNothing \/ Rejoin \/ Sigterm \/ \E c \in Clients : Recompute(c)
      BY <3>3 DEF BatchShape, PollNothing, Rejoin, Sigterm, Recompute
    <3>4. CASE UNCHANGED vars
      BY <3>4 DEF BatchShape, vars
    <3>5. CASE Start \/ Crash \/ WriteRunMetrics \/ UpsertRejected \/ UpsertFails
               \/ RecomputeFails \/ \E p \in Partitions : PollFatal(p)
      BY <3>5, <1>3 DEF Start, Crash, WriteRunMetrics, UpsertRejected, UpsertFails,
            RecomputeFails, PollFatal, AbandonBatch, ReturnToLoop
    <3>6. CASE \E p \in Partitions : Poll(p)
      BY <3>6, PollEffect DEF Poll, CanPoll
    <3> QED BY <3>1, <3>2, <3>3, <3>4, <3>5, <3>6 DEF Next, Flush, Acknowledge
  <2> QED BY <1>3, <2>1, <2>2 DEF BatchShape
<1> QED BY <1>1, <1>2, <1>3, BatchStep

-----------------------------------------------------------------------------
LEMMA RowsHaveKeysStep ==
    ASSUME TypeOK, RowsHaveKeys, [Next]_vars
    PROVE  RowsHaveKeys'
<1>1. CASE FreshBatch
  <2>1. DOMAIN rows' = {}
    BY <1>1 DEF FreshBatch
  <2> QED BY <2>1 DEF RowsHaveKeys
<1>2. CASE /\ UNCHANGED <<rows, rejected, last>>
           /\ pc' \in {"polling", "upsert"} => pc \in {"polling", "upsert"} /\ UNCHANGED table
  BY <1>2 DEF RowsHaveKeys
<1>3. ASSUME NEW p \in Partitions, Poll(p), rows' = rows PROVE RowsHaveKeys'
  BY <1>3 DEF RowsHaveKeys, Poll, CanPoll, durable
<1>4. ASSUME NEW p \in Partitions, Poll(p), NEW k \in Pks, NEW s, s = At(p, position[p]),
             k \in PksFor(Msg(s)), rows' = Append(rows, [pk |-> k, src |-> s])
      PROVE  RowsHaveKeys'
  <2> DEFINE n == Len(rows) + 1
  <2>1. s \in Src /\ [pk |-> k, src |-> s] \in [pk : Pks, src : Src]
    BY <1>4, PollEffect
  <2>2. /\ DOMAIN rows' = (DOMAIN rows) \union {n}
        /\ \A i \in DOMAIN rows : rows'[i] = rows[i]
        /\ rows'[n].pk = k /\ rows'[n].src = s
    BY <2>1, <1>4, AppendRow
  <2>3. n \notin DOMAIN rows
    BY RowType
  <2>4. table' = table /\ pc = "polling"
    BY <1>4 DEF Poll, CanPoll, durable
  <2>5. k \in (IF Msg(s).key = NoKey THEN Uuids ELSE {Msg(s).key})
    BY <1>4 DEF PksFor
  <2>6. k \in Uuids => k \notin UsedPks
    BY <1>4, <2>1, SrcFacts, NameAssumption DEF PksFor, Message
  <2>7. k \in Uuids => table[k] = NoSrc /\ \A i \in DOMAIN rows : rows[i].pk # k
    BY <2>6 DEF UsedPks
  <2> HIDE DEF n
  <2>8. \A i \in DOMAIN rows' :
          rows'[i].pk \in (IF Msg(rows'[i].src).key = NoKey THEN Uuids
                                                         ELSE {Msg(rows'[i].src).key})
    BY <2>2, <2>5 DEF RowsHaveKeys
  <2>9. \A i, j \in DOMAIN rows' : rows'[i].pk \in Uuids /\ rows'[i].pk = rows'[j].pk => i = j
    BY <2>2, <2>3, <2>7 DEF RowsHaveKeys
  <2>10. \A i \in DOMAIN rows' : rows'[i].pk \in Uuids => table'[rows'[i].pk] = NoSrc
    BY <2>2, <2>4, <2>7 DEF RowsHaveKeys
  <2> QED BY <2>8, <2>9, <2>10 DEF RowsHaveKeys
<1> QED BY <1>1, <1>2, <1>3, <1>4, BatchStep, PollEffect

\* Writing the batch stores its rows, and unstores nothing.
LEMMA WriteStores ==
    ASSUME TypeOK, LastRowExists, RowsHaveKeys, pc = "upsert", table' = Upserted
    PROVE  /\ \A s \in Src : Stored(s) => Stored(s)'
           /\ \A s \in Src : (\E i \in DOMAIN rows : rows[i].src = s) => Stored(s)'
<1>1. \A k \in Pks : RowsFor(k) # {} <=> \E i \in DOMAIN rows : rows[i].pk = k
  BY DEF RowsFor
<1>2. \A i \in DOMAIN rows : rows[i].pk \in Pks /\ rows[i].src \in Src
  BY RowType
<1>3. ASSUME NEW s \in Src, Stored(s) PROVE Stored(s)'
  <2>1. CASE Msg(s).key = NoKey
    <3>1. PICK k \in Uuids : table[k] = s
      BY <1>3, <2>1 DEF Stored
    <3>2. k \in Pks /\ RowsFor(k) = {}
      BY <3>1, <1>1, NameAssumption DEF RowsHaveKeys, Pks
    <3>3. table'[k] = s
      BY <3>1, <3>2, UpsertedType
    <3> QED BY <3>3, <2>1 DEF Stored
  <2>2. CASE Msg(s).key # NoKey
    <3>1. Msg(s).key \in Pks
      BY <2>2, SrcFacts DEF Message, Pks
    <3>2. table'[Msg(s).key] # NoSrc
      BY <3>1, <2>2, <1>3, <1>2, UpsertedType, NameAssumption DEF Stored
    <3> QED BY <3>2, <2>2 DEF Stored
  <2> QED BY <2>1, <2>2
<1>4. ASSUME NEW i \in DOMAIN rows, NEW s \in Src, rows[i].src = s PROVE Stored(s)'
  <2>1. PICK j \in DOMAIN rows : rows[j].pk = rows[i].pk /\ table'[rows[i].pk] = rows[j].src
    BY <1>1, <1>2, UpsertedType
  <2>2. CASE Msg(s).key = NoKey
    <3>1. rows[i].pk \in Uuids /\ j = i
      BY <2>1, <2>2, <1>4 DEF RowsHaveKeys
    <3> QED BY <3>1, <2>1, <2>2, <1>4 DEF Stored
  <2>3. CASE Msg(s).key # NoKey
    <3>1. rows[i].pk = Msg(s).key
      BY <2>3, <1>4 DEF RowsHaveKeys
    <3>2. table'[Msg(s).key] # NoSrc
      BY <3>1, <2>1, <1>2, NameAssumption
    <3> QED BY <3>2, <2>3 DEF Stored
  <2> QED BY <2>2, <2>3
<1> QED BY <1>3, <1>4

\* What has reached a store stays there.
LEMMA HandledGrows ==
    ASSUME TypeOK, LastRowExists, RowsHaveKeys, [Next]_vars
    PROVE  Handled \subseteq Handled'
<1> USE DEF durable, batch, injected
<1>1. CASE UNCHANGED table /\ dlq \subseteq dlq'
  BY <1>1 DEF Handled, Stored
<1>2. CASE UNCHANGED dlq /\ table' = Upserted /\ pc = "upsert"
  BY <1>2, WriteStores DEF Handled
<1>3. CASE Upsert \/ UpsertFails \/ UpsertRejected
  BY <1>1, <1>2, <1>3 DEF Upsert, UpsertFails, UpsertRejected, AbandonBatch
<1>4. CASE RecomputeFails \/ EndCompute \/ WriteDlq \/ DlqFails \/ Commit \/ WriteRunMetrics
  BY <1>1, <1>4 DEF RecomputeFails, EndCompute, WriteDlq, DlqFails, Commit, WriteRunMetrics,
        AbandonBatch
<1>5. CASE Start \/ PollNothing \/ EndPolling \/ Crash \/ Sigterm \/ Rejoin
  BY <1>1, <1>5 DEF Start, PollNothing, EndPolling, Crash, Sigterm, Rejoin
<1>6. CASE \/ \E p \in Partitions : Poll(p) \/ PollFatal(p)
           \/ \E c \in Clients : Recompute(c)
  BY <1>1, <1>6 DEF Poll, PollFatal, Recompute
<1>7. CASE UNCHANGED vars
  BY <1>1, <1>7 DEF vars
<1> QED BY <1>3, <1>4, <1>5, <1>6, <1>7 DEF Next, Flush, Acknowledge

\* Only a (re)assignment takes messages off the skipped ones.
LEMMA SafeGrows ==
    ASSUME TypeOK, LastRowExists, RowsHaveKeys, [Next]_vars, ~Start, ~Rejoin
    PROVE  Safe \subseteq Safe'
<1> USE DEF durable, batch, injected
<1>1. CASE Upsert \/ EndCompute \/ WriteDlq \/ DlqFails \/ Commit \/ WriteRunMetrics
  BY <1>1, HandledGrows DEF Safe, Upsert, EndCompute, WriteDlq, DlqFails, Commit, WriteRunMetrics
<1>2. CASE UpsertRejected \/ UpsertFails \/ RecomputeFails
  BY <1>2, HandledGrows DEF Safe, UpsertRejected, UpsertFails, RecomputeFails, AbandonBatch
<1>3. CASE PollNothing \/ EndPolling \/ Crash \/ Sigterm
  BY <1>3, HandledGrows DEF Safe, PollNothing, EndPolling, Crash, Sigterm
<1>4. CASE \/ \E p \in Partitions : Poll(p) \/ PollFatal(p)
           \/ \E c \in Clients : Recompute(c)
  BY <1>4, HandledGrows DEF Safe, Poll, PollFatal, Recompute
<1>5. CASE UNCHANGED vars
  BY <1>5, HandledGrows DEF Safe, vars
<1> QED BY <1>1, <1>2, <1>3, <1>4, <1>5 DEF Next, Flush, Acknowledge

\* Fetching again from the committed offsets leaves what lies below them safe.
LEMMA SeekKeepsSafe ==
    ASSUME TypeOK, LossIsAccountedFor, SeekToCommitted, UNCHANGED <<table, dlq, committed>>
    PROVE  /\ \A s \in Src : s.off < committed[s.part] => s \in Safe'
           /\ last' # NoSrc => Safe' = Safe
<1>1. Handled' = Handled
  BY DEF Handled, Stored
<1>2. \A s \in Src : s.off < committed[s.part] => s \in Handled \union skipped
  BY DEF LossIsAccountedFor, Committed
<1>3. \A s \in skipped : s.off < committed[s.part] => s \in skipped'
  BY DEF SeekToCommitted
<1> QED BY <1>1, <1>2, <1>3 DEF Safe, SeekToCommitted

LEMMA WrittenStep ==
    ASSUME TypeOK, BatchShape, LastRowExists, RowsHaveKeys, WrittenBeforeCommit, [Next]_vars
    PROVE  WrittenBeforeCommit'
<1> USE DEF durable, batch, injected
<1>1. CASE pc' \in {"down", "polling", "upsert"}
  BY <1>1 DEF WrittenBeforeCommit
<1>2. CASE Upsert
  <2>1. pc' = "compute" /\ rows' = rows /\ table' = Upserted /\ pc = "upsert"
    BY <1>2 DEF Upsert
  <2>2. \A i \in DOMAIN rows : rows[i].src \in Src
    BY RowType
  <2>3. \A s \in Src : (\E i \in DOMAIN rows : rows[i].src = s) => Stored(s)'
    BY <2>1, WriteStores
  <2>4. ASSUME NEW i \in DOMAIN rows' PROVE Stored(rows[i].src)'
    <3>1. \A s : s = rows[i].src => Stored(s)'
      BY <2>1, <2>2, <2>3
    <3> QED BY <3>1, <2>1 DEF Stored
  <2> QED BY <2>1, <2>4 DEF WrittenBeforeCommit
<1>3. CASE EndCompute \/ \E c \in Clients : Recompute(c)
  BY <1>3 DEF WrittenBeforeCommit, EndCompute, Recompute, Stored
<1>4. CASE WriteDlq
  BY <1>4 DEF WrittenBeforeCommit, WriteDlq, Stored, Safe, Handled
<1>5. CASE DlqFails
  BY <1>5 DEF WrittenBeforeCommit, DlqFails, Stored, Safe, Handled
<1>6. CASE Commit
  BY <1>6 DEF WrittenBeforeCommit, Commit, Stored, Safe, Handled
<1>7. CASE Sigterm \/ UNCHANGED vars
  BY <1>7 DEF WrittenBeforeCommit, Sigterm, vars, Stored, Safe, Handled
<1>8. CASE PollNothing \/ Rejoin \/ \E p \in Partitions : Poll(p) \/ PollFatal(p)
  BY <1>1, <1>8 DEF PollNothing, Rejoin, Poll, PollFatal, CanPoll
<1>9. CASE Start \/ EndPolling \/ Crash \/ WriteRunMetrics \/ UpsertRejected
           \/ UpsertFails \/ RecomputeFails
  BY <1>1, <1>9 DEF Start, EndPolling, Crash, WriteRunMetrics, UpsertRejected, UpsertFails,
        RecomputeFails, AbandonBatch, ReturnToLoop
<1> QED
  BY <1>2, <1>3, <1>4, <1>5, <1>6, <1>7, <1>8, <1>9 DEF Next, Flush, Acknowledge

-----------------------------------------------------------------------------
\* Short of a crash and of a (re)assignment, no step drops a message that is safe
\* or in the batch: the way back to polling is through a write or through skipped.
LEMMA NothingDropped ==
    ASSUME IInv, [Next]_vars, ~Start, ~Rejoin, pc' # "down"
    PROVE  Safe \union BatchSrcs \subseteq Safe' \union BatchSrcs'
<1> USE DEF durable, batch, injected
<1>1. Safe \subseteq Safe'
  BY SafeGrows DEF IInv
<1>2. CASE UNCHANGED <<rows, rejected>>
  BY <1>1, <1>2 DEF BatchSrcs
<1>3. CASE BatchSrcs \subseteq Safe'
  BY <1>1, <1>3
<1>4. CASE \E p \in Partitions : Poll(p)
  BY <1>1, <1>4, PollBatchSrcs DEF IInv
<1>5. CASE EndPolling
  BY <1>2, <1>3, <1>5 DEF EndPolling, IInv, BatchShape
<1>6. CASE UpsertRejected \/ UpsertFails \/ RecomputeFails
  BY <1>3, <1>6 DEF UpsertRejected, UpsertFails, RecomputeFails, AbandonBatch, Safe
<1>7. CASE WriteRunMetrics
  <2>1. BatchSrcs \subseteq Safe
    BY <1>7, RowType DEF IInv, WrittenBeforeCommit, WriteRunMetrics, BatchSrcs, Safe, Handled
  <2> QED BY <1>1, <1>3, <2>1
<1>8. CASE Upsert \/ EndCompute \/ WriteDlq \/ DlqFails \/ Commit \/ PollNothing \/ Sigterm
  BY <1>2, <1>8 DEF Upsert, EndCompute, WriteDlq, DlqFails, Commit, PollNothing, Sigterm
<1>9. CASE UNCHANGED vars \/ \E c \in Clients : Recompute(c)
  BY <1>2, <1>9 DEF vars, Recompute
<1>10. CASE Crash \/ \E p \in Partitions : PollFatal(p)
  BY <1>10 DEF Crash, PollFatal
<1> QED
  BY <1>4, <1>5, <1>6, <1>7, <1>8, <1>9, <1>10 DEF Next, Flush, Acknowledge

LEMMA PassedOverStep ==
    ASSUME IInv, [Next]_vars
    PROVE  PassedOver'
<1> USE DEF durable, batch, injected
<1> DEFINE U == Safe \union BatchSrcs
<1>1. CASE pc' = "down"
  <2>1. BatchSrcs' = {} \/ (pc = "down" /\ UNCHANGED vars)
    BY <1>1, BatchStep, BatchShapeStep, FreshBatchType DEF IInv, BatchShape
  <2>2. CASE BatchSrcs' = {}
    BY <1>1, <2>2 DEF PassedOver
  <2>3. CASE UNCHANGED vars
    BY <2>3 DEF IInv, PassedOver, vars, Safe, Handled, Stored, BatchSrcs
  <2> QED BY <2>1, <2>2, <2>3
<1>2. CASE Start
  <2>1. BatchSrcs' = {} /\ position' = committed
    BY <1>2, FreshBatchType DEF Start, SeekToCommitted
  <2>2. \A s \in Src : s.off < committed[s.part] => s \in Safe'
    BY <1>2, SeekKeepsSafe DEF IInv, Start
  <2> QED BY <2>1, <2>2 DEF PassedOver
<1>3. CASE Rejoin
  <2>1. position' = committed /\ UNCHANGED <<rows, rejected, last, pc>>
    BY <1>3 DEF Rejoin, SeekToCommitted
  <2>2. BatchSrcs' = BatchSrcs
    BY <2>1 DEF BatchSrcs
  <2>3. \A s \in Src : s.off < committed[s.part] => s \in Safe'
    BY <1>3, SeekKeepsSafe DEF IInv, Rejoin
  <2>4. BatchSrcs' = {} \/ Safe' = Safe
    BY <1>3, <2>1, <2>2, SeekKeepsSafe DEF IInv, BatchShape, Rejoin
  <2> QED BY <2>1, <2>2, <2>3, <2>4 DEF IInv, PassedOver
<1>4. CASE ~Start /\ ~Rejoin /\ pc' # "down"
  <2>1. U \subseteq U'
    BY <1>4, NothingDropped
  <2>2. pc # "down"
    BY <1>4 DEF Next, Flush, Acknowledge, Poll, PollFatal, CanPoll, PollNothing, EndPolling,
          Upsert, UpsertRejected, Recompute, EndCompute, RecomputeFails, UpsertFails,
          WriteDlq, DlqFails, Commit, WriteRunMetrics, Crash, Sigterm, vars
  <2>3. \A s \in Src : s.off < position[s.part] => s \in U
    BY <2>2 DEF IInv, PassedOver
  <2>4. \A t \in BatchSrcs, s \in Src : s.part = t.part /\ s.off <= t.off => s \in U
    BY DEF IInv, PassedOver
  <2>5. CASE \E p \in Partitions : Poll(p)
    <3>1. PICK p \in Partitions : Poll(p)
      BY <2>5
    <3> DEFINE m == At(p, position[p])
    <3>2. BatchSrcs' = BatchSrcs \union {m} /\ m \in Src /\ m.part = p /\ m.off = position[p]
      BY <3>1, PollEffect, PollBatchSrcs DEF IInv
    <3>3. position' = [position EXCEPT ![p] = @ + 1] /\ position \in [Partitions -> Nat]
      BY <3>1 DEF Poll, IInv, TypeOK
    <3> HIDE DEF m
    <3>4. ASSUME NEW s \in Src, s.part = p, s.off <= position[p] PROVE s \in U \union {m}
      <4>1. CASE s.off < position[p]
        BY <2>3, <3>4, <4>1
      <4>2. CASE s.off = position[p]
        BY <4>2, <3>2, <3>4, SrcFacts DEF At
      <4> QED BY <4>1, <4>2, <3>3, <3>4, SrcFacts
    <3>5. ASSUME NEW s \in Src, s.off < position'[s.part] PROVE s \in U \union {m}
      <4>1. s.part \in Partitions /\ s.off \in Nat
        BY SrcFacts
      <4> QED BY <2>3, <3>3, <3>4, <3>5, <4>1
    <3>6. ASSUME NEW t \in BatchSrcs \union {m}, NEW s \in Src, s.part = t.part, s.off <= t.off
          PROVE  s \in U \union {m}
      BY <2>4, <3>2, <3>4, <3>6
    <3>7. U \union {m} \subseteq U'
      BY <2>1, <3>2
    <3> HIDE DEF U
    <3> QED BY <3>2, <3>5, <3>6, <3>7 DEF PassedOver, U
  <2>6. CASE ~ \E p \in Partitions : Poll(p)
    <3>1. position' = position
      BY <1>4, <2>6 DEF Next, Flush, Acknowledge, PollFatal, PollNothing, EndPolling,
            Upsert, UpsertRejected, Recompute, EndCompute, RecomputeFails, UpsertFails,
            WriteDlq, DlqFails, Commit, WriteRunMetrics, Crash, Sigterm, AbandonBatch, vars
    <3>2. BatchSrcs' \subseteq BatchSrcs
      BY <2>6, BatchStep, FreshBatchType DEF IInv, BatchSrcs
    <3> QED BY <2>1, <2>3, <2>4, <3>1, <3>2 DEF PassedOver
  <2> QED BY <2>5, <2>6
<1> QED BY <1>1, <1>2, <1>3, <1>4

LEMMA LossStep ==
    ASSUME IInv, [Next]_vars
    PROVE  LossIsAccountedFor'
<1> USE DEF durable, batch, injected
<1>1. CASE Start \/ Rejoin
  <2>1. committed' = committed
    BY <1>1 DEF Start, Rejoin
  <2>2. \A s \in Src : s.off < committed[s.part] => s \in Safe'
    BY <1>1, SeekKeepsSafe DEF IInv, Start, Rejoin
  <2> QED BY <2>1, <2>2 DEF LossIsAccountedFor, Committed, Safe
<1>2. CASE Commit
  <2>1. last \in Src /\ last \in BatchSrcs /\ pc = "commit"
    BY <1>2 DEF IInv, BatchShape, TypeOK, Commit
  <2>2. BatchSrcs \subseteq Safe
    BY <2>1, RowType DEF IInv, WrittenBeforeCommit, BatchSrcs, Safe, Handled
  <2>3. ASSUME NEW s \in Src, s.off < committed'[s.part] PROVE s \in Safe
    <3>1. s.part \in Partitions /\ s.off \in Nat /\ last.off \in Nat
      BY <2>1, SrcFacts
    <3>2. CASE s.part = last.part
      <4>1. s.off <= last.off
        BY <1>2, <2>3, <3>1, <3>2 DEF Commit, IInv, TypeOK
      <4> QED BY <4>1, <3>2, <2>1, <2>2 DEF IInv, PassedOver
    <3>3. CASE s.part # last.part
      <4>1. s.off < committed[s.part]
        BY <1>2, <2>3, <3>1, <3>3 DEF Commit, IInv, TypeOK
      <4> QED BY <4>1 DEF IInv, LossIsAccountedFor, Committed, Safe
    <3> QED BY <3>2, <3>3
  <2>4. Safe \subseteq Safe'
    BY <1>2, SafeGrows DEF IInv, Commit, Start, Rejoin, CanPoll
  <2> QED BY <2>3, <2>4 DEF LossIsAccountedFor, Committed, Safe
<1>3. CASE ~Start /\ ~Rejoin /\ ~Commit
  <2>1. committed' = committed
    BY <1>3 DEF Next, Flush, Acknowledge, Poll, PollFatal, PollNothing, EndPolling,
          Upsert, UpsertRejected, Recompute, EndCompute, RecomputeFails, UpsertFails,
          WriteDlq, DlqFails, WriteRunMetrics, Crash, Sigterm, AbandonBatch, vars
  <2>2. Safe \subseteq Safe'
    BY <1>3, SafeGrows DEF IInv
  <2> QED BY <2>1, <2>2 DEF IInv, LossIsAccountedFor, Committed, Safe
<1> QED BY <1>1, <1>2, <1>3

-----------------------------------------------------------------------------
\* The inductive invariant holds in every reachable state.
THEOREM Invariance == Spec => []IInv
<1>1. IInv /\ [Next]_vars => IInv'
  BY TypeStep, BatchShapeStep, LastRowStep, RowsHaveKeysStep, PassedOverStep, WrittenStep,
     LossStep DEF IInv
<1> QED BY <1>1, InitInv, PTL DEF Spec

\* Every variable keeps its type, whatever fails and whenever.
THEOREM TypeCorrect == Spec => []TypeOK
<1>1. IInv => TypeOK
  BY DEF IInv
<1> QED BY <1>1, Invariance, PTL

\* No crash, restart or rejoin loses a message behind the committed offset: what
\* is missing there was in an abandoned batch or a failed dead-letter insert.
THEOREM OnlyAbandonedBatchesLose == Spec => []LossIsAccountedFor
<1>1. IInv => LossIsAccountedFor
  BY DEF IInv
<1> QED BY <1>1, Invariance, PTL

-----------------------------------------------------------------------------
\* The stores accept what they are given, and answer.
NoStoreFails ==
    /\ Faults \intersect {"flush", "dlq"} = {}
    /\ BadClients = {}
    /\ \A s \in Src : Msg(s).kind \notin {"unstorable", "unrecordable"}

LEMMA NothingSkipped ==
    ASSUME NoStoreFails
    PROVE  Spec => [](skipped = {})
<1> USE DEF durable, batch, injected
<1>1. Init => skipped = {}
  BY DEF Init
<1>2. ASSUME TypeOK, skipped = {}, [Next]_vars PROVE skipped' = {}
  <2>1. ~Unstorable /\ BadClients = {} /\ ~Inject("flush") /\ ~Inject("dlq")
    BY <1>2, RowType DEF NoStoreFails, Unstorable, Inject, MayFail
  <2>0. ~Unrecordable
    BY <1>2 DEF NoStoreFails, Unrecordable, TypeOK
  <2>2. ~UpsertRejected /\ ~UpsertFails /\ ~RecomputeFails /\ ~DlqFails
    BY <2>0, <2>1 DEF UpsertRejected, UpsertFails, RecomputeFails, DlqFails
  <2>3. CASE Start \/ Rejoin
    BY <1>2, <2>3 DEF Start, Rejoin, SeekToCommitted
  <2>4. CASE \/ \E p \in Partitions : Poll(p) \/ PollFatal(p)
             \/ \E c \in Clients : Recompute(c)
    BY <1>2, <2>4 DEF Poll, PollFatal, Recompute
  <2>5. CASE PollNothing \/ EndPolling \/ Upsert \/ EndCompute \/ WriteDlq \/ Commit
             \/ WriteRunMetrics \/ Crash \/ Sigterm \/ UNCHANGED vars
    BY <1>2, <2>5 DEF PollNothing, EndPolling, Upsert, EndCompute, WriteDlq, Commit,
          WriteRunMetrics, Crash, Sigterm, vars
  <2> QED BY <1>2, <2>2, <2>3, <2>4, <2>5 DEF Next, Flush, Acknowledge
<1>3. TypeOK /\ skipped = {} /\ [Next]_vars => (skipped = {})'
  BY <1>2
<1> QED BY <1>1, <1>3, TypeCorrect, PTL DEF Spec

\* As long as no store fails and none refuses a value, nothing is lost behind the
\* committed offset, whatever crashes and rejoins there are.
THEOREM NothingLostUnlessAStoreFails ==
    ASSUME NoStoreFails
    PROVE  Spec => []NothingLost
<1>1. LossIsAccountedFor /\ skipped = {} => NothingLost
  BY DEF LossIsAccountedFor, NothingLost
<1> QED BY <1>1, NothingSkipped, OnlyAbandonedBatchesLose, PTL

=============================================================================
