---------------------------- MODULE DeliveryProofs ----------------------------
(***************************************************************************)
(* Proofs about FeatureConsumer that need to know where the committed       *)
(* offsets are.  They never go back, and, with stores that work, the consumer *)
(* implements AtLeastOnce; what lies behind them is in the table and in the  *)
(* cache at its version or a newer one; what is delivered again because of   *)
(* them adds no more rows than there were faults; and what they have wrongly  *)
(* passed over is a batch for every fault.                                  *)
(***************************************************************************)
EXTENDS FeatureConsumerProofs, FiniteSetTheorems

\* Unless a batch has outlived its assignment, the process is never behind what it has
\* committed: neither with its fetch position nor with a message that it still holds.
AheadOfCommit ==
    ~astray =>
        /\ pc # "down" => \A p \in Partitions : committed[p] <= position[p]
        /\ \A t \in BatchSrcs : t.off < position[t.part]
        /\ pc # "metrics" => \A t \in BatchSrcs : committed[t.part] <= t.off

\* Every step keeps it: the batch ends below the fetch position, and only the offset of
\* its last message is committed.
LEMMA AheadStep ==
    ASSUME IInv, AheadOfCommit, [Next]_vars
    PROVE  AheadOfCommit'
<1> USE DEF durable, batch, injected
<1>0. /\ committed \in [Partitions -> Nat] /\ position \in [Partitions -> Nat]
      /\ BatchSrcs \subseteq Src
      /\ \A t \in Src : t.part \in Partitions /\ t.off \in Nat
  BY BatchTypes, SrcFacts DEF IInv, TypeOK
<1>1. CASE Start
  BY <1>0, <1>1, FreshBatchType DEF AheadOfCommit, Start, SeekToCommitted
<1>2. CASE Rejoin
  <2>1. CASE last = NoSrc
    <3>1. UNCHANGED <<committed, rows, rejected, pc>> /\ position' = committed
      BY <1>2 DEF Rejoin, SeekToCommitted
    <3>2. BatchSrcs' = {}
      BY <2>1, <3>1 DEF IInv, BatchShape, BatchSrcs
    <3> QED BY <1>0, <3>1, <3>2 DEF AheadOfCommit
  <2>2. CASE last # NoSrc
    <3>1. astray'
      BY <1>2, <2>2 DEF Rejoin, Inject
    <3> QED BY <3>1 DEF AheadOfCommit
  <2> QED BY <2>1, <2>2
<1>3. ASSUME NEW p \in Partitions, Poll(p) PROVE AheadOfCommit'
  <2> DEFINE m == At(p, position[p])
  <2>1. /\ BatchSrcs' = BatchSrcs \union {m}
        /\ m \in Src /\ m.part = p /\ m.off = position[p]
    BY <1>3, PollEffect, PollBatchSrcs DEF IInv
  <2>2. /\ UNCHANGED <<committed, pc, astray>> /\ pc = "polling"
        /\ position' = [position EXCEPT ![p] = @ + 1]
    BY <1>3 DEF Poll, CanPoll
  <2> HIDE DEF m
  <2> QED BY <1>0, <2>1, <2>2 DEF AheadOfCommit
<1>4. CASE Commit
  <2>1. /\ last \in BatchSrcs /\ committed' = [committed EXCEPT ![last.part] = last.off + 1]
        /\ UNCHANGED <<position, rows, rejected, astray>> /\ pc' = "metrics" /\ pc = "commit"
    BY <1>4 DEF Commit, IInv, BatchShape
  <2>2. BatchSrcs' = BatchSrcs
    BY <2>1 DEF BatchSrcs
  <2> QED BY <1>0, <2>1, <2>2 DEF AheadOfCommit
<1>5. CASE ~Start /\ ~Rejoin /\ ~Commit /\ ~ \E p \in Partitions : Poll(p)
  <2>1. /\ UNCHANGED <<committed, position>>
        /\ pc' # "down" => pc # "down"
        /\ pc = "metrics" => pc' = "metrics" \/ BatchSrcs' = {}
    BY <1>5, FreshBatchType
       DEF Next, Flush, Acknowledge, PollFatal, CanPoll, PollNothing, EndPolling, Upsert,
           UpsertRejected, Recompute, EndCompute, RecomputeFails, UpsertFails, WriteDlq,
           DlqFails, WriteRunMetrics, ReturnToLoop, Crash, Sigterm, AbandonBatch, vars,
           BatchSrcs
  <2>2. astray => astray'
    BY <1>5
       DEF Next, Flush, Acknowledge, PollFatal, PollNothing, EndPolling, Upsert,
           UpsertRejected, Recompute, EndCompute, RecomputeFails, UpsertFails, WriteDlq,
           DlqFails, WriteRunMetrics, Crash, Sigterm, Inject, vars
  <2>3. BatchSrcs' \subseteq BatchSrcs
    BY <1>5, BatchStep, FreshBatchType DEF IInv, BatchSrcs
  <2> QED BY <2>1, <2>2, <2>3 DEF AheadOfCommit
<1> QED BY <1>1, <1>2, <1>3, <1>4, <1>5

\* So it holds in every state.
LEMMA AheadAlways == Spec => []AheadOfCommit
<1>1. Init => AheadOfCommit
  BY DEF Init, AheadOfCommit, BatchSrcs
<1>2. IInv /\ AheadOfCommit /\ [Next]_vars => AheadOfCommit'
  BY AheadStep
<1> QED BY <1>1, <1>2, Invariance, PTL DEF Spec

\* Only Commit moves an offset, and it moves the one of the last message past it.
LEMMA CommitStep ==
    ASSUME IInv, AheadOfCommit, [Next]_vars
    PROVE  \/ UNCHANGED committed
           \/ /\ last \in Src /\ UNCHANGED <<table, dlq>>
              /\ committed' = [committed EXCEPT ![last.part] = last.off + 1]
              /\ ~astray => last.off + 1 > committed[last.part]
<1> USE DEF durable, batch, injected
<1>1. CASE Commit
  <2>1. last \in BatchSrcs /\ last \in Src
    BY <1>1, BatchTypes DEF Commit, IInv, BatchShape
  <2>2. last.off \in Nat /\ last.part \in Partitions /\ committed \in [Partitions -> Nat]
    BY <2>1, SrcFacts DEF IInv, TypeOK
  <2> QED BY <1>1, <2>1, <2>2 DEF Commit, AheadOfCommit
<1>2. CASE ~Commit
  BY <1>2 DEF Next, Flush, Acknowledge, Start, Poll, PollFatal, PollNothing, EndPolling,
        Upsert, UpsertRejected, Recompute, EndCompute, RecomputeFails, UpsertFails,
        WriteDlq, DlqFails, WriteRunMetrics, Crash, Sigterm, Rejoin, AbandonBatch, vars
<1> QED BY <1>1, <1>2

\* No commit of the consumer takes an offset back, whatever fails and whatever is
\* delivered again, but for the batches after a rejoin in mid-batch.
THEOREM CommitNeverGoesBack == Spec => CommitMonotone
<1>1. ASSUME IInv, AheadOfCommit, [Next]_vars
      PROVE  [~astray => \A p \in Partitions : committed'[p] >= committed[p]]_committed
  <2>1. committed \in [Partitions -> Nat]
    BY <1>1 DEF IInv, TypeOK
  <2>2. CASE UNCHANGED committed
    BY <2>2
  <2>3. CASE ~UNCHANGED committed
    <3>1. last \in Src /\ committed' = [committed EXCEPT ![last.part] = last.off + 1]
          /\ (~astray => last.off + 1 > committed[last.part])
      BY <1>1, <2>3, CommitStep
    <3>2. last.off \in Nat /\ last.part \in Partitions
      BY <3>1, SrcFacts
    <3> QED BY <2>1, <3>1, <3>2
  <2> QED BY <2>2, <2>3
<1>2. IInv /\ AheadOfCommit /\ [Next]_vars
        => [~astray => \A p \in Partitions : committed'[p] >= committed[p]]_committed
  BY <1>1
<1> QED BY <1>2, Invariance, AheadAlways, PTL DEF Spec, CommitMonotone

-----------------------------------------------------------------------------
\* No assignment changes under a batch.
NoMidrejoin == "midrejoin" \notin Faults

\* Without such rejoins no batch outlives its assignment.
LEMMA NeverAstray ==
    ASSUME NoMidrejoin
    PROVE  Spec => [](~astray)
<1> USE DEF durable, batch, injected
<1>1. Init => ~astray
  BY DEF Init
<1>2. ASSUME ~astray, [Next]_vars PROVE ~astray'
  <2>1. ~Inject("midrejoin")
    BY DEF NoMidrejoin, Inject, MayFail
  <2>2. CASE UpsertFails \/ RecomputeFails \/ DlqFails \/ Crash \/ Sigterm \/ Rejoin
    BY <1>2, <2>1, <2>2 DEF UpsertFails, RecomputeFails, DlqFails, Crash, Sigterm, Rejoin, Inject
  <2>3. CASE ~UpsertFails /\ ~RecomputeFails /\ ~DlqFails /\ ~Crash /\ ~Sigterm /\ ~Rejoin
    <3>1. astray' = astray
      BY <1>2, <2>3 DEF Next, Flush, Acknowledge, Start, Poll, PollFatal, PollNothing,
            EndPolling, Upsert, UpsertRejected, Recompute, EndCompute, WriteDlq, Commit,
            WriteRunMetrics, vars
    <3> QED BY <1>2, <3>1
  <2> QED BY <2>2, <2>3
<1>3. ~astray /\ [Next]_vars => (~astray)'
  BY <1>2
<1> QED BY <1>1, <1>3, PTL DEF Spec

\* With stores that work and whole batches, the consumer is an at-least-once transfer:
\* each of its steps delivers some messages for good, moves one offset over messages
\* that have all been delivered, or changes nothing that can be seen from outside.
THEOREM ConsumerIsAtLeastOnce ==
    ASSUME NoStoreFails, NoMidrejoin
    PROVE  Spec => Implements
<1>1. Init => Delivery!Init
  <2>1. ASSUME Init PROVE Handled = {}
    <3>1. \A k \in Pks : table[k] = NoSrc
      BY <2>1 DEF Init
    <3>2. \A s \in Src : Msg(s).key # NoKey => Msg(s).key \in Pks
      BY SrcFacts DEF Message, Pks
    <3>3. \A s \in Src : s # NoSrc
      BY NameAssumption
    <3> QED BY <2>1, <3>1, <3>2, <3>3 DEF Init, Handled, Stored, Pks
  <2> QED BY <2>1 DEF Init, Delivery!Init
<1>2. ASSUME IInv, AheadOfCommit, ~astray, NothingLost', [Next]_vars
      PROVE  [Delivery!Next]_<<Handled, committed>>
  <2>1. Handled \subseteq Handled' /\ Handled' \subseteq Src
    <3>1. dlq' \subseteq Src
      BY <1>2, TypeStep DEF IInv, TypeOK
    <3> QED BY <1>2, <3>1, HandledGrows DEF IInv, Handled
  <2>2. CASE UNCHANGED committed
    <3>1. Delivery!Deliver(Handled')
      BY <2>1, <2>2 DEF Delivery!Deliver
    <3> QED BY <2>1, <3>1 DEF Delivery!Next
  <2>3. CASE ~UNCHANGED committed
    <3>1. /\ last \in Src /\ UNCHANGED <<table, dlq>>
          /\ committed' = [committed EXCEPT ![last.part] = last.off + 1]
          /\ last.off + 1 > committed[last.part]
      BY <1>2, <2>3, CommitStep
    <3>2. Handled' = Handled
      BY <3>1 DEF Handled, Stored
    <3>3. /\ last.part \in Partitions /\ committed'[last.part] = last.off + 1
      BY <1>2, <3>1, SrcFacts DEF IInv, TypeOK
    <3>4. \A s \in Src : s.part = last.part /\ s.off < last.off + 1 => s \in Handled
      BY <1>2, <3>2, <3>3 DEF NothingLost, Committed
    <3>5. Delivery!Acknowledge(last.part, last.off + 1)
      BY <3>1, <3>2, <3>4 DEF Delivery!Acknowledge
    <3> QED BY <3>1, <3>5 DEF Delivery!Next
  <2> QED BY <2>2, <2>3
<1>3. IInv /\ AheadOfCommit /\ ~astray /\ NothingLost' /\ [Next]_vars
        => [Delivery!Next]_<<Handled, committed>>
  BY <1>2
<1> QED BY <1>1, <1>3, Invariance, AheadAlways, NeverAstray, NothingLostUnlessAStoreFails, PTL
        DEF Spec, Implements, Delivery!Spec

-----------------------------------------------------------------------------
(***************************************************************************)
(* Rows and cache entries are not behind the committed offsets.             *)
(***************************************************************************)

\* The row of the message is in the table, or a newer version of it.
UpToDate(s) == Stored(s) /\ (Msg(s).key # NoKey => table[Msg(s).key].off >= s.off)

\* The cache entry of the message's client was computed from such a row.
Covered(s) ==
    Msg(s).client # NoClient =>
        \E t \in cache[Msg(s).client] :
            t = s \/ (Msg(s).key # NoKey /\ Msg(t).key = Msg(s).key /\ t.off >= s.off)

Settled == {s \in Src : UpToDate(s) /\ Covered(s)} \union skipped \union dlq

\* What the table has under a key is a message with that key.
TableHasKeys ==
    \A k \in Pks : table[k] # NoSrc
        => Msg(table[k]).key = IF k \in Keys THEN k ELSE NoKey

\* A batch holds what one fetch after another has returned: of each partition
\* everything from its first message up to the fetch position, in that order.
FetchedInOrder ==
    ~astray =>
        /\ \A i, j \in DOMAIN rows :
              i < j /\ rows[i].src.part = rows[j].src.part => rows[i].src.off < rows[j].src.off
        /\ \A t \in BatchSrcs, s \in Src :
              s.part = t.part /\ t.off <= s.off /\ s.off < position[s.part] => s \in BatchSrcs

\* The two reasons for which the client of a row is not recomputed are that it has been,
\* and that the message is rejected as well.
BatchSettles ==
    /\ \A i \in DOMAIN rows : Msg(rows[i].src).kind = "twofold" => rows[i].src \in rejected
    /\ ~astray /\ pc \in {"compute", "dlq", "commit", "metrics"} =>
          \A i \in DOMAIN rows :
              /\ UpToDate(rows[i].src)
              /\ \/ Covered(rows[i].src) \/ rows[i].src \in rejected
                 \/ pc = "compute" /\ Msg(rows[i].src).client \in pending
    /\ pc \in {"commit", "metrics"} => rejected \subseteq skipped \union dlq

\* Everything below the committed offset is settled; everything below the fetch
\* position is, or is in the batch.
SettledSoFar ==
    ~astray =>
        /\ Committed \subseteq Settled
        /\ pc # "down" => \A s \in Src : s.off < position[s.part] => s \in Settled \union BatchSrcs

RowInv == AheadOfCommit /\ TableHasKeys /\ FetchedInOrder /\ BatchSettles /\ SettledSoFar

\* The table changes by a statement that writes the batch, if at all.
LEMMA TableStep ==
    ASSUME [Next]_vars
    PROVE  \/ UNCHANGED table
           \/ pc = "upsert" /\ table' = Upserted /\ (Upsert \/ UpsertFails)
<1> USE DEF durable, batch, injected
<1>1. CASE Upsert \/ UpsertFails
  BY <1>1 DEF Upsert, UpsertFails
<1>2. CASE ~Upsert /\ ~UpsertFails
  BY <1>2 DEF Next, Flush, Acknowledge, Start, Poll, PollFatal, PollNothing, EndPolling,
        UpsertRejected, Recompute, EndCompute, RecomputeFails, WriteDlq, DlqFails, Commit,
        WriteRunMetrics, Crash, Sigterm, Rejoin, AbandonBatch, vars
<1> QED BY <1>1, <1>2

\* The row written under the key of an event is that of a message with this key.
LEMMA TableKeysStep ==
    ASSUME IInv, TableHasKeys, [Next]_vars
    PROVE  TableHasKeys'
<1>1. CASE UNCHANGED table
  BY <1>1 DEF TableHasKeys
<1>2. CASE table' = Upserted
  <2>1. ASSUME NEW k \in Pks, table'[k] # NoSrc
        PROVE  Msg(table'[k]).key = IF k \in Keys THEN k ELSE NoKey
    <3>1. CASE RowsFor(k) = {}
      BY <1>2, <2>1, <3>1, UpsertedType DEF IInv, TableHasKeys
    <3>2. CASE RowsFor(k) # {}
      <4>1. PICK i \in DOMAIN rows : rows[i].pk = k /\ table'[k] = rows[i].src
        BY <1>2, <3>2, UpsertedType DEF IInv
      <4>2. Msg(rows[i].src).key \in Keys \union {NoKey}
        BY <4>1, RowType, SrcFacts DEF IInv, Message
      <4> QED BY <4>1, <4>2, NameAssumption DEF IInv, RowsHaveKeys, Pks
    <3> QED BY <3>1, <3>2
  <2> QED BY <2>1 DEF TableHasKeys, Msg
<1> QED BY <1>1, <1>2, TableStep

\* Only a poll and a (re)assignment move the fetch position, and no step finds back.
LEMMA PositionStep ==
    ASSUME [Next]_vars
    PROVE  /\ \/ UNCHANGED position \/ Start \/ Rejoin \/ \E p \in Partitions : Poll(p)
           /\ astray => astray'
<1> USE DEF durable, batch, injected
<1>1. UNCHANGED position \/ Start \/ Rejoin \/ \E p \in Partitions : Poll(p)
  BY DEF Next, Flush, Acknowledge, PollFatal, PollNothing, EndPolling, Upsert,
        UpsertRejected, Recompute, EndCompute, RecomputeFails, UpsertFails, WriteDlq,
        DlqFails, Commit, WriteRunMetrics, Crash, Sigterm, AbandonBatch, vars
<1>2. astray' \in {astray, TRUE}
  <2>1. CASE UpsertFails \/ RecomputeFails \/ DlqFails \/ Crash \/ Sigterm \/ Rejoin
    BY <2>1 DEF UpsertFails, RecomputeFails, DlqFails, Crash, Sigterm, Rejoin, Inject
  <2>2. CASE ~UpsertFails /\ ~RecomputeFails /\ ~DlqFails /\ ~Crash /\ ~Sigterm /\ ~Rejoin
    BY <2>2 DEF Next, Flush, Acknowledge, Start, Poll, PollFatal, PollNothing,
          EndPolling, Upsert, UpsertRejected, Recompute, EndCompute, WriteDlq, Commit,
          WriteRunMetrics, vars
  <2> QED BY <2>1, <2>2
<1>3. astray => astray'
  BY <1>2, Zenon
<1> QED BY <1>1, <1>3

\* A rejoin with messages in the batch is what leads astray; without, there are none.
LEMMA RejoinEffect ==
    ASSUME IInv, Rejoin, ~astray'
    PROVE  /\ last = NoSrc /\ last' = NoSrc /\ BatchSrcs' = {} /\ DOMAIN rows' = {}
           /\ position' = committed
           /\ skipped' = {s \in skipped : s.off < committed[s.part]}
           /\ UNCHANGED <<committed, table, cache, dlq, pc, rows, rejected>>
<1> USE DEF durable, batch, injected
<1>1. last = NoSrc
  BY DEF Rejoin, Inject
<1>2. UNCHANGED <<committed, table, cache, dlq, pc, rows, rejected, last>>
  BY DEF Rejoin
<1>3. BatchSrcs = {} /\ BatchSrcs' = BatchSrcs
  BY <1>1, <1>2 DEF IInv, BatchShape, BatchSrcs
<1>4. DOMAIN rows' = {}
  BY <1>2, <1>3 DEF BatchSrcs
<1>5. SeekToCommitted
  BY DEF Rejoin
<1> QED BY <1>1, <1>2, <1>3, <1>4, <1>5 DEF SeekToCommitted

\* A poll appends the next message of its partition; nothing else lengthens a batch.
LEMMA OrderStep ==
    ASSUME IInv, AheadOfCommit, FetchedInOrder, [Next]_vars
    PROVE  FetchedInOrder'
<1> SUFFICES ASSUME ~astray' PROVE FetchedInOrder'
  BY DEF FetchedInOrder
<1>0. ~astray
  BY PositionStep
<1>1. CASE FreshBatch
  <2>1. DOMAIN rows' = {} /\ BatchSrcs' = {}
    BY <1>1, FreshBatchType DEF FreshBatch
  <2> QED BY <2>1 DEF FetchedInOrder
<1>2. CASE Rejoin
  BY <1>2, RejoinEffect DEF FetchedInOrder
<1>3. CASE UNCHANGED <<rows, rejected, position>>
  BY <1>0, <1>3 DEF FetchedInOrder, BatchSrcs
<1>4. ASSUME NEW p \in Partitions, Poll(p) PROVE FetchedInOrder'
  <2> DEFINE m == At(p, position[p])
  <2>1. /\ BatchSrcs' = BatchSrcs \union {m}
        /\ m \in Src /\ m.part = p /\ m.off = position[p]
    BY <1>4, PollEffect, PollBatchSrcs DEF IInv
  <2>2. position' = [position EXCEPT ![p] = @ + 1] /\ position \in [Partitions -> Nat]
    BY <1>4 DEF Poll, IInv, TypeOK
  <2>3. /\ BatchSrcs \subseteq Src
        /\ \A s \in Src : s.part \in Partitions /\ s.off \in Nat /\ s = At(s.part, s.off)
    BY BatchTypes, SrcFacts DEF IInv
  <2>4. ASSUME NEW t \in BatchSrcs', NEW s \in Src,
               s.part = t.part, t.off <= s.off, s.off < position'[s.part]
        PROVE  s \in BatchSrcs'
    <3>1. CASE s.part = p /\ s.off = position[p]
      BY <3>1, <2>1, <2>3
    <3>2. CASE ~ (s.part = p /\ s.off = position[p])
      <4>1. s.off < position[s.part]
        BY <2>2, <2>3, <2>4, <3>2
      <4>2. t \in BatchSrcs
        BY <2>1, <2>3, <2>4, <4>1
      <4> QED BY <1>0, <2>1, <2>4, <4>1, <4>2 DEF FetchedInOrder
    <3> QED BY <3>1, <3>2
  <2>5. ASSUME NEW i \in DOMAIN rows', NEW j \in DOMAIN rows', i < j,
               rows'[i].src.part = rows'[j].src.part
        PROVE  rows'[i].src.off < rows'[j].src.off
    <3>1. CASE rows' = rows
      BY <1>0, <2>5, <3>1 DEF FetchedInOrder
    <3>2. ASSUME NEW k \in Pks, rows' = Append(rows, [pk |-> k, src |-> m])
          PROVE  rows'[i].src.off < rows'[j].src.off
      <4>0. [pk |-> k, src |-> m] \in [pk : Pks, src : Src]
        BY <2>1
      <4>1. /\ DOMAIN rows' = (DOMAIN rows) \union {Len(rows) + 1}
            /\ \A l \in DOMAIN rows : rows'[l] = rows[l]
            /\ rows'[Len(rows) + 1].src = m
        BY <3>2, <4>0, AppendRow DEF IInv
      <4>2. DOMAIN rows = 1 .. Len(rows) /\ Len(rows) \in Nat
        BY RowType DEF IInv
      <4>3. i \in DOMAIN rows
        BY <2>5, <4>1, <4>2
      <4>4. CASE j \in DOMAIN rows
        BY <1>0, <2>5, <4>1, <4>3, <4>4 DEF FetchedInOrder
      <4>5. CASE j = Len(rows) + 1
        <5>1. rows[i].src \in BatchSrcs
          BY <4>3 DEF BatchSrcs
        <5>2. rows[i].src.off < position[rows[i].src.part]
          BY <1>0, <5>1 DEF AheadOfCommit
        <5> QED BY <5>2, <4>1, <4>3, <4>5, <2>1, <2>5
      <4> QED BY <2>5, <4>1, <4>4, <4>5
    <3> QED BY <1>4, <3>1, <3>2, PollEffect DEF IInv
  <2> QED BY <2>4, <2>5 DEF FetchedInOrder
<1> QED BY <1>1, <1>2, <1>3, <1>4, PositionStep, BatchStep DEF IInv, Start

\* The statement leaves the last row of a primary key in the table, which is the newest
\* of the batch; what it overwrites in other messages' rows is older still.
LEMMA WriteIsNewest ==
    ASSUME IInv, AheadOfCommit, FetchedInOrder, ~astray, pc = "upsert", table' = Upserted
    PROVE  /\ \A s \in Src : (\E i \in DOMAIN rows : rows[i].src = s) => UpToDate(s)'
           /\ \A s \in Src : UpToDate(s) /\ s \notin BatchSrcs /\ s.off < position[s.part]
                                => UpToDate(s)'
<1>1. /\ \A s \in Src : Stored(s) => Stored(s)'
      /\ \A s \in Src : (\E i \in DOMAIN rows : rows[i].src = s) => Stored(s)'
  BY WriteStores DEF IInv
<1>2. /\ DOMAIN rows = 1 .. Len(rows) /\ Len(rows) \in Nat
      /\ \A i \in DOMAIN rows : rows[i].src \in Src /\ rows[i].src \in BatchSrcs
  BY RowType DEF IInv, BatchSrcs
<1>3. \A s \in Src : s.part \in Partitions /\ s.off \in Nat /\ Msg(s).key \in Keys \union {NoKey}
  BY SrcFacts DEF Message
<1>4. ASSUME NEW k \in Pks, RowsFor(k) # {}
      PROVE  \E i \in RowsFor(k) : /\ \A j \in RowsFor(k) : i >= j
                                   /\ table'[k] = rows[i].src
  <2>1. PICK i \in RowsFor(k) : \A j \in RowsFor(k) : i >= j
    BY <1>4 DEF IInv, LastRowExists
  <2>2. Max(RowsFor(k)) \in RowsFor(k) /\ \A j \in RowsFor(k) : Max(RowsFor(k)) >= j
    BY <2>1 DEF Max
  <2>3. table'[k] = rows[Max(RowsFor(k))].src
    BY <1>4 DEF Upserted
  <2> QED BY <2>2, <2>3
<1>5. ASSUME NEW i \in DOMAIN rows, NEW s \in Src, Msg(s).key # NoKey,
             Msg(s).key = rows[i].pk
      PROVE  /\ Msg(rows[i].src).key = Msg(s).key
             /\ rows[i].src.part = s.part
  <2>1. Msg(rows[i].src).key = Msg(s).key
    BY <1>2, <1>3, <1>5, NameAssumption DEF IInv, RowsHaveKeys
  <2> QED BY <2>1, <1>2, <1>5, KeyAssumption
<1>6. ASSUME NEW s \in Src, NEW j \in DOMAIN rows, rows[j].src = s PROVE UpToDate(s)'
  <2>1. ASSUME Msg(s).key # NoKey PROVE table'[Msg(s).key].off >= s.off
    <3> DEFINE k == Msg(s).key
    <3>1. k \in Pks /\ j \in RowsFor(k)
      BY <1>3, <1>6, <2>1 DEF IInv, RowsHaveKeys, RowsFor, Pks
    <3>2. PICK i \in RowsFor(k) : i >= j /\ table'[k] = rows[i].src
      BY <1>4, <3>1
    <3>3. i \in DOMAIN rows /\ rows[i].src.part = s.part
      BY <1>5, <2>1, <3>2 DEF RowsFor
    <3>4. CASE i = j
      BY <1>3, <1>6, <3>2, <3>4
    <3>5. CASE i # j
      <4>1. j < i
        BY <1>2, <3>2, <3>3, <3>5
      <4>2. s.off < rows[i].src.off
        BY <1>6, <3>3, <4>1 DEF FetchedInOrder
      <4> QED BY <4>2, <3>2, <3>3, <1>2, <1>3
    <3> QED BY <3>4, <3>5
  <2> QED BY <1>1, <1>6, <2>1 DEF UpToDate
<1>7. ASSUME NEW s \in Src, UpToDate(s), s \notin BatchSrcs, s.off < position[s.part]
      PROVE  UpToDate(s)'
  <2>1. ASSUME Msg(s).key # NoKey PROVE table'[Msg(s).key].off >= s.off
    <3> DEFINE k == Msg(s).key
    <3>1. k \in Pks
      BY <1>3, <2>1 DEF Pks
    <3>2. CASE RowsFor(k) = {}
      <4>1. table'[k] = table[k]
        BY <3>1, <3>2 DEF Upserted
      <4> QED BY <4>1, <1>7, <2>1 DEF UpToDate
    <3>3. CASE RowsFor(k) # {}
      <4>1. PICK i \in RowsFor(k) : table'[k] = rows[i].src
        BY <1>4, <3>1, <3>3
      <4>2. i \in DOMAIN rows /\ rows[i].src.part = s.part
        BY <1>5, <2>1, <4>1 DEF RowsFor
      <4>3. ~ (rows[i].src.off <= s.off)
        BY <1>2, <1>7, <4>2 DEF FetchedInOrder
      <4> QED BY <4>1, <4>2, <4>3, <1>2, <1>3
    <3> QED BY <3>2, <3>3
  <2> QED BY <1>1, <1>7, <2>1 DEF UpToDate
<1> QED BY <1>6, <1>7

\* A recompute finds the row of an up-to-date message, or the newer one.
LEMMA RecomputeCovers ==
    ASSUME IInv, TableHasKeys, NEW c \in Clients, Recompute(c), NEW s \in Src, UpToDate(s)
    PROVE  /\ Msg(s).client = c => Covered(s)'
           /\ Covered(s) => Covered(s)'
<1>1. /\ cache' = [cache EXCEPT ![c] = RowsOfClient(c)]
      /\ cache \in [Clients -> SUBSET Src]
  BY DEF Recompute, IInv, TypeOK
<1>2. Msg(s).key \in Keys \union {NoKey} /\ Msg(s).client \in Clients \union {NoClient}
  BY SrcFacts DEF Message
<1>3. ASSUME Msg(s).client = c PROVE Covered(s)'
  <2>1. cache'[Msg(s).client] = RowsOfClient(c)
    BY <1>1, <1>3
  <2>2. CASE Msg(s).key = NoKey
    <3>1. PICK k \in Uuids : table[k] = s
      BY <2>2 DEF UpToDate, Stored
    <3>2. s \in RowsOfClient(c)
      BY <1>3, <3>1 DEF RowsOfClient, Pks
    <3> QED BY <2>1, <3>2 DEF Covered
  <2>3. CASE Msg(s).key # NoKey
    <3> DEFINE k == Msg(s).key
               t == table[k]
    <3>1. k \in Keys /\ k \in Pks
      BY <1>2, <2>3 DEF Pks
    <3>2. t \in Src /\ t.off >= s.off
      BY <2>3, <3>1 DEF UpToDate, Stored, IInv, TypeOK
    <3>3. t # NoSrc
      BY <3>2, NameAssumption
    <3>4. Msg(t).key = k
      BY <3>1, <3>3 DEF TableHasKeys
    <3>5. Msg(t).client = c
      BY <1>3, <2>3, <3>2, <3>4, KeyAssumption
    <3>6. t \in RowsOfClient(c)
      BY <3>1, <3>2, <3>5 DEF RowsOfClient
    <3> HIDE DEF t
    <3> QED BY <2>1, <2>3, <3>2, <3>4, <3>6 DEF Covered
  <2> QED BY <2>2, <2>3
<1>4. ASSUME Covered(s), Msg(s).client # c PROVE Covered(s)'
  <2>1. CASE Msg(s).client = NoClient
    BY <2>1 DEF Covered
  <2>2. CASE Msg(s).client # NoClient
    <3>1. cache'[Msg(s).client] = cache[Msg(s).client]
      BY <1>1, <1>2, <1>4, <2>2
    <3> QED BY <1>4, <3>1 DEF Covered
  <2> QED BY <2>1, <2>2
<1> QED BY <1>3, <1>4

\* Only a recompute changes the cache.
LEMMA CacheStep ==
    ASSUME [Next]_vars
    PROVE  UNCHANGED cache \/ \E c \in Clients : Recompute(c)
<1> USE DEF durable, batch, injected
<1> QED BY DEF Next, Flush, Acknowledge, Start, Poll, PollFatal, PollNothing, EndPolling,
        Upsert, UpsertRejected, UpsertFails, EndCompute, RecomputeFails, WriteDlq, DlqFails,
        Commit, WriteRunMetrics, Crash, Sigterm, Rejoin, AbandonBatch, vars

\* Only a (re)assignment takes messages off the skipped ones, and none off the dlq.
LEMMA ExcusedStep ==
    ASSUME [Next]_vars
    PROVE  dlq \subseteq dlq' /\ (Start \/ Rejoin \/ skipped \subseteq skipped')
<1> USE DEF durable, batch, injected
<1>1. CASE UNCHANGED dlq /\ (Start \/ Rejoin \/ UNCHANGED skipped)
  BY <1>1
<1>2. CASE UpsertRejected \/ UpsertFails \/ RecomputeFails \/ WriteDlq \/ DlqFails
  BY <1>2 DEF UpsertRejected, UpsertFails, RecomputeFails, WriteDlq, DlqFails, AbandonBatch
<1>3. CASE ~ (UpsertRejected \/ UpsertFails \/ RecomputeFails \/ WriteDlq \/ DlqFails)
  BY <1>1, <1>3 DEF Next, Flush, Acknowledge, Start, Poll, PollFatal, PollNothing, EndPolling,
        Upsert, Recompute, EndCompute, Commit, WriteRunMetrics, Crash, Sigterm, Rejoin, vars
<1> QED BY <1>2, <1>3

\* What is settled stays so, the messages of a batch that is being written apart.
LEMMA StaysSettled ==
    ASSUME IInv, AheadOfCommit, TableHasKeys, FetchedInOrder, ~astray, [Next]_vars,
           ~Start, ~Rejoin, NEW s \in Settled,
           pc = "upsert" => s \notin BatchSrcs /\ s.off < position[s.part]
    PROVE  s \in Settled'
<1>1. CASE s \in skipped \union dlq
  BY <1>1, ExcusedStep DEF Settled
<1>2. CASE s \in Src /\ UpToDate(s) /\ Covered(s)
  <2>1. UpToDate(s)'
    <3>1. CASE UNCHANGED table
      BY <1>2, <3>1 DEF UpToDate, Stored
    <3>2. CASE pc = "upsert" /\ table' = Upserted
      BY <1>2, <3>2, WriteIsNewest
    <3> QED BY <3>1, <3>2, TableStep
  <2>2. Covered(s)'
    <3>1. CASE UNCHANGED cache
      BY <1>2, <3>1 DEF Covered
    <3>2. CASE \E c \in Clients : Recompute(c)
      BY <1>2, <3>2, RecomputeCovers
    <3> QED BY <3>1, <3>2, CacheStep
  <2> QED BY <1>2, <2>1, <2>2 DEF Settled
<1> QED BY <1>1, <1>2 DEF Settled

\* Each stage of a flush settles its part of the batch, and undoes no other's.
LEMMA BatchSettlesStep ==
    ASSUME IInv, AheadOfCommit, TableHasKeys, FetchedInOrder, BatchSettles, [Next]_vars
    PROVE  BatchSettles'
<1> USE DEF durable, batch, injected
<1>0. \A i \in DOMAIN rows : rows[i].src \in Src
  BY RowType DEF IInv
<1>1. \A i \in DOMAIN rows' : Msg(rows'[i].src).kind = "twofold" => rows'[i].src \in rejected'
  <2>1. CASE FreshBatch
    BY <2>1 DEF FreshBatch
  <2>2. CASE UNCHANGED <<rows, rejected>>
    BY <2>2 DEF BatchSettles
  <2>3. ASSUME NEW p \in Partitions, Poll(p)
        PROVE  \A i \in DOMAIN rows' :
                  Msg(rows'[i].src).kind = "twofold" => rows'[i].src \in rejected'
    <3> DEFINE m == At(p, position[p])
    <3>1. /\ rejected \subseteq rejected' /\ m \in Src
          /\ Msg(m).kind = "twofold" => m \in rejected'
      BY <2>3, PollEffect DEF Poll, IInv
    <3>2. CASE rows' = rows
      BY <3>1, <3>2 DEF BatchSettles
    <3>3. ASSUME NEW k \in Pks, rows' = Append(rows, [pk |-> k, src |-> m])
          PROVE  \A i \in DOMAIN rows' :
                    Msg(rows'[i].src).kind = "twofold" => rows'[i].src \in rejected'
      <4>0. [pk |-> k, src |-> m] \in [pk : Pks, src : Src]
        BY <3>1
      <4>1. /\ DOMAIN rows' = (DOMAIN rows) \union {Len(rows) + 1}
            /\ \A l \in DOMAIN rows : rows'[l].src = rows[l].src
            /\ rows'[Len(rows) + 1].src = m
        BY <3>3, <4>0, AppendRow DEF IInv
      <4> HIDE DEF m
      <4> QED BY <3>1, <4>1 DEF BatchSettles
    <3> QED BY <2>3, <3>2, <3>3, PollEffect DEF IInv
  <2> QED BY <2>1, <2>2, <2>3, BatchStep DEF IInv
<1>2. CASE pc' \notin {"compute", "dlq", "commit", "metrics"}
  BY <1>1, <1>2 DEF BatchSettles
<1>3. CASE Upsert
  <2>1. /\ pc = "upsert" /\ pc' = "compute" /\ table' = Upserted /\ pending' = BatchClients
        /\ UNCHANGED <<rows, rejected, astray>>
    BY <1>3 DEF Upsert
  <2>2. ASSUME ~astray', NEW i \in DOMAIN rows
        PROVE  /\ UpToDate(rows[i].src)'
               /\ \/ Covered(rows[i].src)' \/ rows'[i].src \in rejected'
                  \/ Msg(rows'[i].src).client \in pending'
    <3> DEFINE s == rows[i].src
    <3>1. s \in Src /\ s' = s
      BY <1>0, <2>1
    <3>2. Msg(s).client \in Clients \union {NoClient}
      BY <3>1, SrcFacts DEF Message
    <3>3. UpToDate(rows[i].src)'
      <4>1. \A t \in Src : t = s => UpToDate(t)'
        BY <2>1, <2>2, WriteIsNewest
      <4> QED BY <3>1, <4>1 DEF UpToDate, Stored
    <3>4. CASE Msg(s).client = NoClient
      BY <3>1, <3>3, <3>4 DEF Covered
    <3>5. CASE Msg(s).kind = "twofold"
      BY <2>1, <3>1, <3>3, <3>5 DEF BatchSettles
    <3>6. CASE Msg(s).client # NoClient /\ Msg(s).kind # "twofold"
      <4>1. Msg(s).client \in BatchClients
        BY <3>2, <3>6 DEF BatchClients
      <4> QED BY <2>1, <3>1, <3>3, <4>1
    <3> QED BY <3>4, <3>5, <3>6
  <2> QED BY <1>1, <2>1, <2>2 DEF BatchSettles
<1>4. ASSUME NEW c \in Clients, Recompute(c) PROVE BatchSettles'
  <2>1. /\ pc = "compute" /\ pc' = "compute" /\ pending' = pending \ {c}
        /\ UNCHANGED <<table, rows, rejected, astray>>
    BY <1>4 DEF Recompute
  <2>2. ASSUME ~astray', NEW i \in DOMAIN rows
        PROVE  /\ UpToDate(rows[i].src)'
               /\ \/ Covered(rows[i].src)' \/ rows'[i].src \in rejected'
                  \/ Msg(rows'[i].src).client \in pending'
    <3> DEFINE s == rows[i].src
    <3>1. s \in Src /\ s' = s
      BY <1>0, <2>1
    <3>2. /\ UpToDate(s)
          /\ Covered(s) \/ s \in rejected \/ Msg(s).client \in pending
      BY <2>1, <2>2 DEF BatchSettles
    <3>3. UpToDate(rows[i].src)'
      BY <2>1, <3>1, <3>2 DEF UpToDate, Stored
    <3>4. CASE Covered(s) \/ Msg(s).client = c
      <4>1. \A t \in Src : t = s => Covered(t)'
        BY <1>4, <3>2, <3>4, RecomputeCovers
      <4> QED BY <3>1, <3>3, <4>1 DEF Covered
    <3> QED BY <2>1, <3>1, <3>2, <3>3, <3>4
  <2> QED BY <1>1, <2>1, <2>2 DEF BatchSettles
<1>5. CASE EndCompute
  BY <1>1, <1>5 DEF BatchSettles, EndCompute, UpToDate, Covered, Stored
<1>6. CASE WriteDlq \/ DlqFails
  <2>1. /\ pc = "dlq" /\ pc' = "commit" /\ rejected' \subseteq skipped' \union dlq'
        /\ UNCHANGED <<table, cache, rows, rejected>>
    BY <1>6 DEF WriteDlq, DlqFails
  <2>2. astray => astray'
    BY PositionStep
  <2> QED BY <1>1, <2>1, <2>2 DEF BatchSettles, UpToDate, Covered, Stored
<1>7. CASE Commit
  BY <1>1, <1>7 DEF BatchSettles, Commit, UpToDate, Covered, Stored
<1>8. CASE Sigterm
  <2>1. UNCHANGED <<durable, pc, batch, skipped>>
    BY <1>8 DEF Sigterm
  <2>2. astray => astray'
    BY PositionStep
  <2> QED BY <1>1, <2>1, <2>2 DEF BatchSettles, UpToDate, Covered, Stored
<1>9. CASE UNCHANGED vars
  BY <1>1, <1>9 DEF vars, BatchSettles, UpToDate, Covered, Stored
<1>10. CASE PollNothing \/ Rejoin \/ \E p \in Partitions : Poll(p) \/ PollFatal(p)
  BY <1>2, <1>10 DEF PollNothing, Rejoin, Poll, PollFatal, CanPoll
<1>11. CASE Start \/ EndPolling \/ Crash \/ WriteRunMetrics \/ UpsertRejected
           \/ UpsertFails \/ RecomputeFails
  BY <1>2, <1>11 DEF Start, EndPolling, Crash, WriteRunMetrics, UpsertRejected, UpsertFails,
        RecomputeFails, AbandonBatch, ReturnToLoop
<1> QED
  BY <1>3, <1>4, <1>5, <1>6, <1>7, <1>8, <1>9, <1>10, <1>11 DEF Next, Flush, Acknowledge

\* A batch that is about to be committed, or has been, is settled.
LEMMA BatchIsSettled ==
    ASSUME IInv, BatchSettles, ~astray, pc \in {"commit", "metrics"}
    PROVE  BatchSrcs \subseteq Settled
<1>1. \A i \in DOMAIN rows : rows[i].src \in Src
  BY RowType DEF IInv
<1>2. rejected \subseteq Settled
  BY DEF BatchSettles, Settled
<1>3. \A i \in DOMAIN rows : rows[i].src \in Settled
  BY <1>1, <1>2 DEF BatchSettles, Settled
<1> QED BY <1>2, <1>3 DEF BatchSrcs

\* Fetching from the committed offsets again, everything below them is still settled.
LEMMA SeekKeepsSettled ==
    ASSUME SettledSoFar, ~astray, UNCHANGED <<committed, table, cache, dlq>>,
           skipped' = {s \in skipped : s.off < committed[s.part]}
    PROVE  \A s \in Src : s.off < committed[s.part] => s \in Settled'
<1>1. \A s \in Src : (UpToDate(s)' <=> UpToDate(s)) /\ (Covered(s)' <=> Covered(s))
  BY DEF UpToDate, Covered, Stored
<1>2. \A s \in Src : s.off < committed[s.part] => s \in Settled
  BY DEF SettledSoFar, Committed
<1> QED BY <1>1, <1>2 DEF Settled

\* No message of the batch gets lost on the way back to polling.
LEMMA BatchStaysOrSettles ==
    ASSUME IInv, RowInv, ~astray, [Next]_vars, ~Start, ~Rejoin, pc' # "down"
    PROVE  BatchSrcs \subseteq BatchSrcs' \union Settled'
<1> USE DEF durable, batch, injected
<1>1. CASE UNCHANGED <<rows, rejected>>
  BY <1>1 DEF BatchSrcs
<1>2. CASE \E p \in Partitions : Poll(p)
  BY <1>2, PollBatchSrcs DEF IInv
<1>3. CASE EndPolling
  BY <1>1, <1>3 DEF EndPolling, IInv, BatchShape
<1>4. CASE UpsertRejected \/ UpsertFails \/ RecomputeFails
  BY <1>4 DEF UpsertRejected, UpsertFails, RecomputeFails, AbandonBatch, Settled
<1>5. CASE WriteRunMetrics
  <2>1. pc = "metrics"
    BY <1>5 DEF WriteRunMetrics
  <2> QED BY <2>1, BatchIsSettled, StaysSettled DEF RowInv
<1>6. CASE Upsert \/ EndCompute \/ WriteDlq \/ DlqFails \/ Commit \/ PollNothing \/ Sigterm
  BY <1>1, <1>6 DEF Upsert, EndCompute, WriteDlq, DlqFails, Commit, PollNothing, Sigterm
<1>7. CASE UNCHANGED vars \/ \E c \in Clients : Recompute(c)
  BY <1>1, <1>7 DEF vars, Recompute
<1>8. CASE Crash \/ \E p \in Partitions : PollFatal(p)
  BY <1>8 DEF Crash, PollFatal
<1> QED
  BY <1>2, <1>3, <1>4, <1>5, <1>6, <1>7, <1>8 DEF Next, Flush, Acknowledge

\* A commit passes over a batch that is settled; a restart fetches from what is.
LEMMA SettledStep ==
    ASSUME IInv, RowInv, [Next]_vars
    PROVE  SettledSoFar'
<1> USE DEF durable, batch, injected
<1> SUFFICES ASSUME ~astray' PROVE SettledSoFar'
  BY DEF SettledSoFar
<1>0. /\ ~astray
      /\ BatchSrcs \subseteq Src /\ committed \in [Partitions -> Nat]
      /\ position \in [Partitions -> Nat]
      /\ \A s \in Src : s.part \in Partitions /\ s.off \in Nat /\ s = At(s.part, s.off)
  BY PositionStep, BatchTypes, SrcFacts DEF IInv, TypeOK
<1>1. CASE Start \/ Rejoin
  <2>1. /\ position' = committed /\ UNCHANGED <<committed, table, cache, dlq>>
        /\ skipped' = {s \in skipped : s.off < committed[s.part]}
    <3>1. CASE Start
      BY <3>1, FreshBatchType DEF Start, SeekToCommitted
    <3>2. CASE Rejoin
      BY <3>2, RejoinEffect
    <3> QED BY <1>1, <3>1, <3>2
  <2>2. \A s \in Src : s.off < committed[s.part] => s \in Settled'
    BY <1>0, <2>1, SeekKeepsSettled DEF RowInv
  <2> QED BY <2>1, <2>2 DEF SettledSoFar, Committed
<1>2. \A s \in Src : s.off < committed[s.part] => s \in Settled
  BY <1>0 DEF RowInv, SettledSoFar, Committed
<1>3. pc # "down" => \A s \in Src : s.off < position[s.part] => s \in Settled \union BatchSrcs
  BY <1>0 DEF RowInv, SettledSoFar
<1>4. CASE Commit
  <2>1. /\ last \in BatchSrcs /\ pc = "commit" /\ pc' = "metrics"
        /\ committed' = [committed EXCEPT ![last.part] = last.off + 1]
        /\ UNCHANGED <<table, cache, dlq, skipped, position, rows, rejected>>
    BY <1>4 DEF Commit, IInv, BatchShape
  <2>2. Settled' = Settled /\ BatchSrcs' = BatchSrcs
    <3>1. \A s \in Src : (UpToDate(s)' <=> UpToDate(s)) /\ (Covered(s)' <=> Covered(s))
      BY <2>1 DEF UpToDate, Covered, Stored
    <3> QED BY <2>1, <3>1 DEF Settled, BatchSrcs
  <2>3. \A s \in Src : s.off < position[s.part] => s \in Settled
    BY <1>0, <1>3, <2>1, BatchIsSettled DEF RowInv
  <2>4. last.off < position[last.part]
    BY <1>0, <2>1 DEF RowInv, AheadOfCommit
  <2>5. ASSUME NEW s \in Src, s.off < committed'[s.part] PROVE s \in Settled
    <3>1. CASE s.part = last.part
      <4>1. s.off <= last.off
        BY <1>0, <2>1, <2>5, <3>1
      <4>2. s.off < position[s.part]
        BY <1>0, <2>1, <2>4, <3>1, <4>1
      <4> QED BY <2>3, <4>2
    <3>2. CASE s.part # last.part
      BY <1>0, <1>2, <2>1, <2>5, <3>2
    <3> QED BY <3>1, <3>2
  <2> QED BY <2>1, <2>2, <2>3, <2>5 DEF SettledSoFar, Committed
<1>5. CASE ~Start /\ ~Rejoin /\ ~Commit
  <2>1. UNCHANGED committed
    BY <1>5 DEF Next, Flush, Acknowledge, Poll, PollFatal, PollNothing, EndPolling,
          Upsert, UpsertRejected, Recompute, EndCompute, RecomputeFails, UpsertFails,
          WriteDlq, DlqFails, WriteRunMetrics, Crash, Sigterm, AbandonBatch, vars
  <2>2. ASSUME NEW s \in Src, s.off < committed[s.part] PROVE s \in Settled'
    <3>1. pc = "upsert" => s \notin BatchSrcs /\ s.off < position[s.part]
      BY <1>0, <2>2 DEF RowInv, AheadOfCommit
    <3> QED BY <1>0, <1>2, <1>5, <2>2, <3>1, StaysSettled DEF RowInv
  <2>3. ASSUME pc' # "down", NEW s \in Src, s.off < position'[s.part]
        PROVE  s \in Settled' \union BatchSrcs'
    <3>1. pc # "down"
      BY <1>5, <2>3 DEF Next, Flush, Acknowledge, Poll, PollFatal, CanPoll, PollNothing,
            EndPolling, Upsert, UpsertRejected, Recompute, EndCompute, RecomputeFails,
            UpsertFails, WriteDlq, DlqFails, Commit, WriteRunMetrics, Crash, Sigterm, vars
    <3>2. CASE s.off < position[s.part]
      <4>1. CASE s \in BatchSrcs
        BY <1>0, <1>5, <2>3, <4>1, BatchStaysOrSettles
      <4>2. CASE s \notin BatchSrcs
        BY <1>0, <1>3, <1>5, <3>1, <3>2, <4>2, StaysSettled DEF RowInv
      <4> QED BY <4>1, <4>2
    <3>3. CASE ~ (s.off < position[s.part])
      <4>1. PICK p \in Partitions : Poll(p)
        BY <1>5, <2>3, <3>3, PositionStep
      <4>2. position' = [position EXCEPT ![p] = @ + 1]
        BY <4>1 DEF Poll
      <4>3. s.part = p /\ s.off = position[p]
        BY <1>0, <2>3, <3>3, <4>2
      <4>4. s = At(p, position[p])
        BY <1>0, <4>3
      <4> QED BY <4>1, <4>4, PollBatchSrcs DEF IInv
    <3> QED BY <3>2, <3>3
  <2> QED BY <2>1, <2>2, <2>3 DEF SettledSoFar, Committed
<1> QED BY <1>1, <1>4, <1>5

\* The five parts are inductive together.
LEMMA RowsAlways == Spec => []RowInv
<1>1. Init => RowInv
  <2>1. ASSUME Init PROVE DOMAIN rows = {} /\ BatchSrcs = {} /\ Committed = {}
    BY <2>1, SrcFacts DEF Init, BatchSrcs, Committed
  <2>2. ASSUME Init PROVE AheadOfCommit /\ TableHasKeys /\ SettledSoFar
    BY <2>1, <2>2 DEF Init, AheadOfCommit, TableHasKeys, SettledSoFar
  <2>3. ASSUME Init PROVE FetchedInOrder /\ BatchSettles
    BY <2>1, <2>3 DEF Init, FetchedInOrder, BatchSettles
  <2> QED BY <2>2, <2>3 DEF RowInv
<1>2. IInv /\ RowInv /\ [Next]_vars => RowInv'
  BY AheadStep, TableKeysStep, OrderStep, BatchSettlesStep, SettledStep DEF RowInv
<1> QED BY <1>1, <1>2, Invariance, PTL DEF Spec

\* Whatever fails, is delivered again or restarts: behind the committed offset the row of
\* a message is as new as the message or newer, unless the batch was abandoned, the
\* message was rejected, or a batch has outlived its assignment.
THEOREM RowsKeepUp == Spec => []RowNotBehindCommit
<1>1. RowInv => RowNotBehindCommit
  BY DEF RowInv, SettledSoFar, RowNotBehindCommit, Settled, UpToDate, Stored
<1> QED BY <1>1, RowsAlways, PTL

\* Under the same conditions the cached features of its client reflect the message: a
\* crash between upsert and recompute is made good before the offset is committed.
THEOREM CacheKeepsUp == Spec => []CacheCoversCommitted
<1>1. RowInv => CacheCoversCommitted
  BY DEF RowInv, SettledSoFar, CacheCoversCommitted, Settled, Covered
<1> QED BY <1>1, RowsAlways, PTL

-----------------------------------------------------------------------------
(***************************************************************************)
(* An event without an id is stored at most once per delivery.              *)
(***************************************************************************)

\* The rows of a message that the batch under way is going to write.
BatchRows(s) == {k \in Pks : \E i \in DOMAIN rows : rows[i].pk = k /\ rows[i].src = s}

Places(s) == IF pc \in {"polling", "upsert"} THEN RowsOfEvent(s) \union BatchRows(s)
                                             ELSE RowsOfEvent(s)

\* Whether the message may still be fetched, and whether a restart is due.
StillToCome(s) == IF position[s.part] <= s.off THEN 1 ELSE 0
Stopping == IF running THEN 0 ELSE 1

\* Each fault pays for one row more: a row is written, about to be written, or still
\* to be fetched once; the fault that ends a process pays for what its successor fetches.
RowsArePaidFor ==
    \A s \in Src :
        /\ IsFiniteSet(Places(s))
        /\ IF pc = "down" THEN Cardinality(Places(s)) <= faults
           ELSE Cardinality(Places(s)) + StillToCome(s) + Stopping <= 1 + faults

NoFatal == \A s \in Src : Msg(s).kind # "fatal"

\* A step other than a poll finds no new place for a message.
LEMMA PlacesShrink ==
    ASSUME IInv, [Next]_vars, ~ \E p \in Partitions : Poll(p), NEW s \in Src
    PROVE  Places(s)' \subseteq Places(s)
<1> USE DEF durable, batch, injected
<1>1. CASE UNCHANGED table
  <2>1. RowsOfEvent(s)' = RowsOfEvent(s)
    BY <1>1 DEF RowsOfEvent
  <2>2. CASE FreshBatch
    <3>1. BatchRows(s)' = {}
      BY <2>2 DEF FreshBatch, BatchRows
    <3> QED BY <2>1, <3>1 DEF Places
  <2>3. CASE UNCHANGED rows /\ (pc' \in {"polling", "upsert"} => pc \in {"polling", "upsert"})
    <3>1. BatchRows(s)' = BatchRows(s)
      BY <2>3 DEF BatchRows
    <3> QED BY <2>1, <2>3, <3>1 DEF Places
  <2> QED BY <2>2, <2>3, BatchStep DEF IInv
<1>2. CASE pc = "upsert" /\ table' = Upserted /\ (Upsert \/ UpsertFails)
  <2>1. RowsOfEvent(s)' \subseteq RowsOfEvent(s) \union BatchRows(s)
    <3>1. ASSUME NEW k \in Pks, table'[k] = s PROVE table[k] = s \/ k \in BatchRows(s)
      BY <1>2, <3>1, UpsertedType DEF IInv, BatchRows
    <3> QED BY <3>1 DEF RowsOfEvent
  <2>2. pc' \in {"polling", "upsert"} => BatchRows(s)' = {}
    <3>1. CASE Upsert
      BY <3>1 DEF Upsert
    <3>2. CASE UpsertFails
      BY <3>2 DEF UpsertFails, AbandonBatch, ReturnToLoop, FreshBatch, BatchRows
    <3> QED BY <1>2, <3>1, <3>2
  <2> QED BY <1>2, <2>1, <2>2 DEF Places
<1> QED BY <1>1, <1>2, TableStep

\* A poll finds at most one for the message it returns, and none for another.
LEMMA PollPlaces ==
    ASSUME IInv, NEW p \in Partitions, Poll(p), NEW s \in Src
    PROVE  /\ s = At(p, position[p]) => \E k : Places(s)' \subseteq Places(s) \union {k}
           /\ s # At(p, position[p]) => Places(s)' = Places(s)
<1> DEFINE m == At(p, position[p])
<1>1. UNCHANGED <<table, pc>>
  BY DEF Poll, durable
<1>2. RowsOfEvent(s)' = RowsOfEvent(s)
  BY <1>1 DEF RowsOfEvent
<1>3. CASE rows' = rows
  <2>1. Places(s)' = Places(s)
    BY <1>1, <1>2, <1>3 DEF Places, BatchRows
  <2> QED BY <2>1
<1>4. ASSUME NEW k \in Pks, rows' = Append(rows, [pk |-> k, src |-> m])
      PROVE  /\ s = m => Places(s)' \subseteq Places(s) \union {k}
             /\ s # m => Places(s)' = Places(s)
  <2>0. [pk |-> k, src |-> m] \in [pk : Pks, src : Src]
    BY PollEffect DEF IInv
  <2>1. /\ DOMAIN rows' = (DOMAIN rows) \union {Len(rows) + 1}
        /\ \A l \in DOMAIN rows : rows'[l] = rows[l]
        /\ rows'[Len(rows) + 1].src = m /\ rows'[Len(rows) + 1].pk = k
    BY <1>4, <2>0, AppendRow DEF IInv
  <2> HIDE DEF m
  <2>2. /\ s = m => BatchRows(s)' \subseteq BatchRows(s) \union {k}
        /\ s # m => BatchRows(s)' = BatchRows(s)
    BY <2>1 DEF BatchRows
  <2> QED BY <1>1, <1>2, <2>2 DEF Places
<1> QED BY <1>3, <1>4, PollEffect DEF IInv

\* Fewer places are finitely many, and fewer.
LEMMA FewerPlaces ==
    ASSUME NEW S, NEW T, IsFiniteSet(S), T \subseteq S
    PROVE  IsFiniteSet(T) /\ Cardinality(T) \in Nat /\ Cardinality(S) \in Nat
           /\ Cardinality(T) <= Cardinality(S)
  BY FS_Subset, FS_CardinalityType

\* One element more is at most one more.
LEMMA OnePlaceMore ==
    ASSUME NEW S, NEW k, IsFiniteSet(S)
    PROVE  /\ IsFiniteSet(S \union {k}) /\ Cardinality(S \union {k}) \in Nat
           /\ Cardinality(S) \in Nat /\ Cardinality(S \union {k}) <= Cardinality(S) + 1
<1>1. Cardinality(S) \in Nat
  BY FS_CardinalityType
<1>2. /\ IsFiniteSet(S \union {k})
      /\ Cardinality(S \union {k}) = Cardinality(S)
           \/ Cardinality(S \union {k}) = Cardinality(S) + 1
  BY FS_AddElement
<1> QED BY <1>1, <1>2

\* Every step pays: a poll moves a row from the log to the batch, the other steps that
\* make a fetch due again count a fault or end the process.
LEMMA RowsPaidStep ==
    ASSUME NoFatal, IInv, RowsArePaidFor, [Next]_vars
    PROVE  RowsArePaidFor'
<1> USE DEF durable, batch, injected
<1>0. /\ position \in [Partitions -> Nat] /\ faults \in Nat /\ running \in BOOLEAN
      /\ \A s \in Src : s.part \in Partitions /\ s.off \in Nat
  BY SrcFacts DEF IInv, TypeOK
<1>1. \A p \in Partitions : ~PollFatal(p)
  <2>1. ASSUME NEW p \in Partitions, PollFatal(p) PROVE FALSE
    <3>1. At(p, position[p]) \in Src /\ Msg(At(p, position[p])).kind = "fatal"
      BY <1>0, <2>1, SrcFacts DEF PollFatal
    <3> QED BY <3>1 DEF NoFatal
  <2> QED BY <2>1
<1>2. ASSUME NEW p \in Partitions, Poll(p), NEW s \in Src
      PROVE  /\ IsFiniteSet(Places(s)')
             /\ IF pc' = "down" THEN Cardinality(Places(s)') <= faults'
                ELSE Cardinality(Places(s)') + StillToCome(s)' + Stopping' <= 1 + faults'
  <2>1. /\ pc = "polling" /\ UNCHANGED <<pc, running, faults>>
        /\ position' = [position EXCEPT ![p] = @ + 1]
    BY <1>2 DEF Poll, CanPoll
  <2>2. /\ IsFiniteSet(Places(s)) /\ Cardinality(Places(s)) \in Nat
        /\ Cardinality(Places(s)) + StillToCome(s) + Stopping <= 1 + faults
    BY <2>1, FewerPlaces DEF RowsArePaidFor
  <2>3. Stopping' = Stopping /\ Stopping \in Nat
    BY <2>1 DEF Stopping
  <2>4. CASE s = At(p, position[p])
    <3>1. PICK k : Places(s)' \subseteq Places(s) \union {k}
      BY <1>2, <2>4, PollPlaces
    <3>2. /\ IsFiniteSet(Places(s) \union {k})
          /\ Cardinality(Places(s) \union {k}) <= Cardinality(Places(s)) + 1
          /\ Cardinality(Places(s) \union {k}) \in Nat
      BY <2>2, OnePlaceMore
    <3>3. /\ IsFiniteSet(Places(s)') /\ Cardinality(Places(s)') \in Nat
          /\ Cardinality(Places(s)') <= Cardinality(Places(s)) + 1
      BY <2>2, <3>1, <3>2, FewerPlaces
    <3>4. StillToCome(s) = 1 /\ StillToCome(s)' = 0
      BY <1>0, <2>1, <2>4 DEF StillToCome, At
    <3> QED BY <1>0, <2>1, <2>2, <2>3, <3>3, <3>4
  <2>5. CASE s # At(p, position[p])
    <3>1. Places(s)' = Places(s)
      BY <1>2, <2>5, PollPlaces
    <3>2. StillToCome(s)' <= StillToCome(s) /\ StillToCome(s) \in Nat /\ StillToCome(s)' \in Nat
      BY <1>0, <2>1 DEF StillToCome
    <3> QED BY <1>0, <2>1, <2>2, <2>3, <3>1, <3>2
  <2> QED BY <2>4, <2>5
<1>3. ASSUME ~ \E p \in Partitions : Poll(p), NEW s \in Src
      PROVE  /\ IsFiniteSet(Places(s)')
             /\ IF pc' = "down" THEN Cardinality(Places(s)') <= faults'
                ELSE Cardinality(Places(s)') + StillToCome(s)' + Stopping' <= 1 + faults'
  <2> DEFINE n == Cardinality(Places(s))
             m == Cardinality(Places(s)')
  <2>1. /\ IsFiniteSet(Places(s)') /\ m \in Nat /\ n \in Nat /\ m <= n
    BY <1>3, PlacesShrink, FewerPlaces DEF RowsArePaidFor
  <2>2. IF pc = "down" THEN n <= faults ELSE n + StillToCome(s) + Stopping <= 1 + faults
    BY DEF RowsArePaidFor
  <2>3. /\ StillToCome(s) \in {0, 1} /\ StillToCome(s)' \in {0, 1}
        /\ Stopping = (IF running THEN 0 ELSE 1) /\ Stopping' = (IF running' THEN 0 ELSE 1)
        /\ UNCHANGED position => StillToCome(s)' = StillToCome(s)
    BY DEF StillToCome, Stopping
  <2> HIDE DEF n, m
  <2>4. CASE Start
    <3>1. pc = "down" /\ pc' = "polling" /\ running' = TRUE /\ UNCHANGED faults
      BY <2>4 DEF Start
    <3> QED BY <1>0, <2>1, <2>2, <2>3, <3>1 DEF n, m
  <2>5. CASE Crash
    <3>1. pc # "down" /\ pc' = "down" /\ faults' = faults + 1
      BY <2>5 DEF Crash, Inject
    <3> QED BY <1>0, <2>1, <2>2, <2>3, <3>1 DEF n, m
  <2>6. CASE Sigterm
    <3>1. /\ pc # "down" /\ UNCHANGED <<pc, position>> /\ faults' = faults + 1
          /\ running = TRUE
      BY <1>0, <2>6 DEF Sigterm, Inject
    <3> QED BY <1>0, <2>1, <2>2, <2>3, <3>1 DEF n, m
  <2>7. CASE Rejoin
    <3>1. pc = "polling" /\ UNCHANGED <<pc, running>>
      BY <2>7 DEF Rejoin, CanPoll
    <3>2. faults' = faults + 1
      BY <2>7 DEF Rejoin, Inject
    <3> QED BY <1>0, <2>1, <2>2, <2>3, <3>1, <3>2 DEF n, m
  <2>8. CASE ~Start /\ ~Crash /\ ~Sigterm /\ ~Rejoin
    <3>1. UNCHANGED <<position, running>>
      BY <1>1, <1>3, <2>8 DEF Next, Flush, Acknowledge, PollNothing, EndPolling, Upsert,
            UpsertRejected, Recompute, EndCompute, RecomputeFails, UpsertFails, WriteDlq,
            DlqFails, Commit, WriteRunMetrics, AbandonBatch, vars
    <3>2. faults' \in {faults, faults + 1}
      BY <1>1, <1>3, <2>8 DEF Next, Flush, Acknowledge, PollNothing, EndPolling, Upsert,
            UpsertRejected, Recompute, EndCompute, RecomputeFails, UpsertFails, WriteDlq,
            DlqFails, Commit, WriteRunMetrics, Inject, vars
    <3>3. /\ pc = "down" => pc' = "down"
          /\ pc # "down" /\ pc' = "down" => ~running
      BY <1>1, <1>3, <2>8 DEF Next, Flush, Acknowledge, PollNothing, EndPolling, Upsert,
            UpsertRejected, Recompute, EndCompute, RecomputeFails, UpsertFails, WriteDlq,
            DlqFails, Commit, WriteRunMetrics, AbandonBatch, ReturnToLoop, CanPoll, vars
    <3> QED BY <1>0, <2>1, <2>2, <2>3, <3>1, <3>2, <3>3 DEF n, m
  <2> QED BY <2>4, <2>5, <2>6, <2>7, <2>8
<1> QED BY <1>2, <1>3 DEF RowsArePaidFor

\* So the account is balanced in every state.
LEMMA RowsPaidAlways ==
    ASSUME NoFatal
    PROVE  Spec => []RowsArePaidFor
<1>1. Init => RowsArePaidFor
  <2>1. ASSUME Init, NEW s \in Src PROVE Places(s) = {}
    BY <2>1, NameAssumption DEF Init, Places, RowsOfEvent
  <2>2. ASSUME Init, NEW s \in Src
        PROVE  pc = "down" /\ IsFiniteSet(Places(s)) /\ Cardinality(Places(s)) <= faults
    <3>1. IsFiniteSet(Places(s)) /\ Cardinality(Places(s)) = 0
      BY <2>1, <2>2, FS_EmptySet
    <3> QED BY <2>2, <3>1 DEF Init
  <2> QED BY <2>2 DEF RowsArePaidFor
<1>2. IInv /\ RowsArePaidFor /\ [Next]_vars => RowsArePaidFor'
  BY RowsPaidStep
<1> QED BY <1>1, <1>2, Invariance, PTL DEF Spec

\* Without messages that kill the process, no event gets more than one row, and one more
\* for every fault, however many deliveries, partitions and batches there are.
THEOREM DuplicatesArePaidFor == Spec => []DuplicatesBounded
<1>1. CASE NoFatal
  <2>1. ASSUME RowsArePaidFor, IInv PROVE DuplicatesBounded
    <3>1. faults \in Nat
      BY <2>1 DEF IInv, TypeOK
    <3>2. ASSUME NEW s \in Src PROVE Cardinality(RowsOfEvent(s)) <= 1 + faults
      <4>1. IsFiniteSet(Places(s)) /\ RowsOfEvent(s) \subseteq Places(s)
        BY <2>1 DEF RowsArePaidFor, Places
      <4>2. /\ Cardinality(RowsOfEvent(s)) <= Cardinality(Places(s))
            /\ Cardinality(RowsOfEvent(s)) \in Nat /\ Cardinality(Places(s)) \in Nat
        BY <4>1, FewerPlaces
      <4>3. Cardinality(Places(s)) <= 1 + faults
        <5>1. StillToCome(s) \in Nat /\ Stopping \in Nat
          BY DEF StillToCome, Stopping
        <5> HIDE DEF StillToCome, Stopping
        <5> QED BY <2>1, <3>1, <4>2, <5>1 DEF RowsArePaidFor
      <4> QED BY <3>1, <4>2, <4>3
    <3> QED BY <3>2 DEF DuplicatesBounded
  <2>2. RowsArePaidFor /\ IInv => DuplicatesBounded
    BY <2>1
  <2>3. Spec => []RowsArePaidFor
    BY <1>1, RowsPaidAlways
  <2> QED BY <2>2, <2>3, Invariance, PTL
<1>2. CASE ~NoFatal
  <2>1. DuplicatesBounded
    BY <1>2 DEF NoFatal, DuplicatesBounded
  <2> QED BY <2>1, PTL
<1> QED BY <1>1, <1>2

-----------------------------------------------------------------------------
(***************************************************************************)
(* How much is lost.                                                       *)
(***************************************************************************)
\* TiDB, the recompute and Postgres accept every value: only faults make a batch fail.
NoRefusedValue ==
    BadClients = {} /\ \A s \in Src : Msg(s).kind \notin {"unstorable", "unrecordable"}

\* A fault costs one batch at most.
FewSkipped ==
    /\ IsFiniteSet(BatchSrcs) /\ Cardinality(BatchSrcs) <= polls
    /\ IsFiniteSet(skipped) /\ Cardinality(skipped) <= BatchSize * faults

\* A batch has no more messages than its loop has had turns.
LEMMA BatchCountedStep ==
    ASSUME IInv, FewSkipped, [Next]_vars
    PROVE  IsFiniteSet(BatchSrcs') /\ Cardinality(BatchSrcs') <= polls'
<1> USE DEF durable, batch, injected
<1>0. polls \in Nat
  BY BoundAssumption DEF IInv, TypeOK
<1>1. ASSUME NEW p \in Partitions, Poll(p)
      PROVE  IsFiniteSet(BatchSrcs') /\ Cardinality(BatchSrcs') <= polls'
  <2>1. BatchSrcs' = BatchSrcs \union {At(p, position[p])} /\ polls' = polls + 1
    BY <1>1, PollBatchSrcs DEF IInv, Poll
  <2>2. IsFiniteSet(BatchSrcs') /\ Cardinality(BatchSrcs') <= Cardinality(BatchSrcs) + 1
    BY <2>1, OnePlaceMore DEF FewSkipped
  <2> QED BY <1>0, <2>1, <2>2, FS_CardinalityType DEF FewSkipped
<1>2. CASE FreshBatch
  <2>1. BatchSrcs' = {} /\ polls' = 0
    BY <1>2 DEF FreshBatch, BatchSrcs
  <2> QED BY <2>1, FS_EmptySet
<1>3. CASE UNCHANGED <<rows, rejected>> /\ polls' \in {polls, polls + 1}
  <2>1. BatchSrcs' = BatchSrcs
    BY <1>3 DEF BatchSrcs
  <2> QED BY <1>0, <1>3, <2>1, FS_CardinalityType DEF FewSkipped
<1>4. CASE ~FreshBatch /\ ~ \E p \in Partitions : Poll(p)
  BY <1>3, <1>4 DEF Next, Flush, Acknowledge, Start, PollFatal, PollNothing, EndPolling,
     ReturnToLoop, Upsert, UpsertRejected, Recompute, EndCompute, RecomputeFails, UpsertFails,
     WriteDlq, DlqFails, Commit, WriteRunMetrics, AbandonBatch, Crash, Sigterm, Rejoin, vars
<1> QED BY <1>1, <1>2, <1>4

\* What is dropped is dropped by a fault, and is of the batch.
LEMMA SkippedStep ==
    ASSUME IInv, NoRefusedValue, [Next]_vars
    PROVE  \/ skipped' \subseteq skipped /\ faults' \in {faults, faults + 1}
           \/ skipped' \subseteq skipped \union BatchSrcs /\ faults' = faults + 1
<1> USE DEF durable, batch, injected
<1>1. ~Unstorable /\ ~Unrecordable /\ BadClients = {}
  BY RowType DEF NoRefusedValue, Unstorable, Unrecordable, IInv, TypeOK
<1>2. CASE UpsertRejected \/ UpsertFails \/ RecomputeFails \/ DlqFails
  BY <1>1, <1>2 DEF UpsertRejected, UpsertFails, RecomputeFails, DlqFails, AbandonBatch, Inject,
     BatchSrcs
<1>3. CASE Start \/ Rejoin
  BY <1>3 DEF Start, Rejoin, SeekToCommitted, Inject
<1>4. CASE UNCHANGED skipped /\ faults' \in {faults, faults + 1}
  BY <1>4
<1>5. CASE ~ (UpsertRejected \/ UpsertFails \/ RecomputeFails \/ DlqFails \/ Start \/ Rejoin)
  BY <1>4, <1>5 DEF Next, Flush, Acknowledge, Poll, PollFatal, PollNothing, EndPolling,
     Upsert, Recompute, EndCompute, WriteDlq, Commit, WriteRunMetrics, Crash, Sigterm, Inject,
     vars
<1> QED BY <1>2, <1>3, <1>5

\* One batch more is at most BatchSize messages more.
LEMMA OneBatchMore ==
    ASSUME NEW S, NEW B, NEW T, IsFiniteSet(S), IsFiniteSet(B), T \subseteq S \union B
    PROVE  IsFiniteSet(T) /\ Cardinality(T) <= Cardinality(S) + Cardinality(B)
<1>1. /\ IsFiniteSet(S \union B) /\ IsFiniteSet(S \cap B)
      /\ Cardinality(S \union B)
            = Cardinality(S) + Cardinality(B) - Cardinality(S \cap B)
  BY FS_Union, FS_Intersection
<1>2. IsFiniteSet(T) /\ Cardinality(T) <= Cardinality(S \union B)
  BY <1>1, FS_Subset
<1>3. /\ Cardinality(S) \in Nat /\ Cardinality(B) \in Nat /\ Cardinality(T) \in Nat
      /\ Cardinality(S \cap B) \in Nat /\ Cardinality(S \union B) \in Nat
  BY <1>1, <1>2, FS_CardinalityType
<1> QED BY <1>1, <1>2, <1>3

\* So the account of losses is kept.
LEMMA FewSkippedStep ==
    ASSUME IInv, NoRefusedValue, FewSkipped, [Next]_vars
    PROVE  FewSkipped'
<1> DEFINE n == Cardinality(skipped)
           b == Cardinality(BatchSrcs)
<1>0. /\ BatchSize \in Nat /\ polls \in Nat /\ polls <= BatchSize /\ faults \in Nat
      /\ n \in Nat /\ b \in Nat /\ b <= polls /\ n <= BatchSize * faults
      /\ IsFiniteSet(skipped) /\ IsFiniteSet(BatchSrcs)
  BY BoundAssumption, FS_CardinalityType DEF IInv, TypeOK, FewSkipped
<1>1. /\ BatchSize * faults \in Nat
      /\ BatchSize * (faults + 1) = BatchSize * faults + BatchSize
  BY <1>0
<1>2. CASE skipped' \subseteq skipped /\ faults' \in {faults, faults + 1}
  <2>1. IsFiniteSet(skipped') /\ Cardinality(skipped') <= n /\ Cardinality(skipped') \in Nat
    BY <1>0, <1>2, FS_Subset, FS_CardinalityType
  <2>2. CASE faults' = faults
    <3>1. Cardinality(skipped') <= BatchSize * faults'
      BY <1>0, <1>1, <2>1, <2>2
    <3> QED BY <2>1, <3>1, BatchCountedStep DEF FewSkipped
  <2>3. CASE faults' = faults + 1
    <3>1. BatchSize * faults' = BatchSize * faults + BatchSize
      BY <1>1, <2>3
    <3>2. Cardinality(skipped') <= BatchSize * faults'
      BY <1>0, <1>1, <2>1, <3>1
    <3> QED BY <2>1, <3>2, BatchCountedStep DEF FewSkipped
  <2> QED BY <1>2, <2>2, <2>3
<1>3. CASE skipped' \subseteq skipped \union BatchSrcs /\ faults' = faults + 1
  <2>1. IsFiniteSet(skipped') /\ Cardinality(skipped') <= n + b
    BY <1>0, <1>3, OneBatchMore
  <2>2. Cardinality(skipped') \in Nat
    BY <2>1, FS_CardinalityType
  <2>3. Cardinality(skipped') <= BatchSize * faults'
    BY <1>0, <1>1, <1>3, <2>1, <2>2
  <2> QED BY <2>1, <2>3, BatchCountedStep DEF FewSkipped
<1> QED BY <1>2, <1>3, SkippedStep

\* Where no value is refused, what is missing behind the committed offset is at most one
\* batch for every fault: a failed flush or dead-letter insert drops what it was to write
\* and nothing else, and what a crash or a rejoin drops comes again.
THEOREM AFaultCostsABatch ==
    ASSUME NoRefusedValue
    PROVE  Spec => [](IsFiniteSet(Committed \ Handled)
                      /\ Cardinality(Committed \ Handled) <= BatchSize * faults)
<1> DEFINE FewLost == /\ IsFiniteSet(Committed \ Handled)
                      /\ Cardinality(Committed \ Handled) <= BatchSize * faults
<1>1. Init => FewSkipped
  <2>1. ASSUME Init PROVE BatchSrcs = {} /\ skipped = {} /\ polls = 0 /\ faults = 0
    BY <2>1 DEF Init, BatchSrcs
  <2>2. BatchSize * 0 = 0
    BY BoundAssumption
  <2>3. IsFiniteSet({}) /\ Cardinality({}) = 0
    BY FS_EmptySet
  <2> QED BY <2>1, <2>2, <2>3 DEF FewSkipped
<1>2. IInv /\ FewSkipped /\ [Next]_vars => FewSkipped'
  BY FewSkippedStep
<1>3. IInv /\ FewSkipped => FewLost
  <2> SUFFICES ASSUME IInv, FewSkipped PROVE FewLost
    OBVIOUS
  <2>1. Committed \ Handled \subseteq skipped
    BY DEF IInv, LossIsAccountedFor
  <2>2. /\ IsFiniteSet(Committed \ Handled)
        /\ Cardinality(Committed \ Handled) <= Cardinality(skipped)
    BY <2>1, FS_Subset DEF FewSkipped
  <2>3. /\ Cardinality(Committed \ Handled) \in Nat /\ Cardinality(skipped) \in Nat
        /\ BatchSize * faults \in Nat
    BY <2>2, FS_CardinalityType, BoundAssumption DEF FewSkipped, IInv, TypeOK
  <2> QED BY <2>2, <2>3 DEF FewSkipped
<1> QED BY <1>1, <1>2, <1>3, Invariance, PTL DEF Spec

=============================================================================
