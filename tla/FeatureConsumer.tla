---------------------------- MODULE FeatureConsumer ----------------------------
(***************************************************************************)
(* One risk-feature-consumer process: the poll / upsert / recompute / DLQ / *)
(* commit loop of consumer.py for one topic, with its crashes, restarts,   *)
(* group rejoins and the partial failures of the stores it writes to.      *)
(*                                                                         *)
(* Durable state outlives the process: the offsets committed in Kafka, the *)
(* topic's TiDB table, the topic's own feature group in kv_cache and the   *)
(* dead-letter table in Postgres.  Everything else is process memory.      *)
(***************************************************************************)
EXTENDS Integers, Sequences, FiniteSetsExt

CONSTANTS
    Partitions,     \* partitions of the topic
    Log,            \* Log[p] is the sequence of messages of partition p
    Keys,           \* primary keys the messages bring along
    Uuids,          \* primary keys str(uuid.uuid4()) can return
    NoKey,          \* "the message has no event_id"
    Clients,        \* client ids
    BadClients,     \* client ids that are not strings: the recompute raises
    NoClient,       \* the empty client_id
    NoSrc,          \* "no message" / "no row"
    BatchSize,      \* topic_config.batch_size
    Faults,         \* kinds of fault the environment may inject
    MaxFaults       \* bound on the number of injected faults

FaultKinds == {"crash", "sigterm", "rejoin", "midrejoin", "flush", "dlq"}

\* "row"        is transformed into a row TiDB accepts,
\* "unstorable" is transformed, but TiDB rejects the statement that holds it,
\* "reject"     raises one of REJECT_ERRORS,
\* "unrecordable" does so too, and has a NUL byte, which psycopg2 refuses to send,
\* "twofold"    is transformed, but its client_id (a list of one) is not hashable:
\*              the row is kept, the message rejected too, the client not noted,
\* "fatal"      raises an exception that _process_batch does not catch.
MsgKinds == {"row", "unstorable", "reject", "unrecordable", "twofold", "fatal"}

\* The messages that raise before they have a row.
RowlessKinds == {"reject", "unrecordable"}

Message == [kind : MsgKinds, key : Keys \union {NoKey},
            client : Clients \union {NoClient}]

Pks == Keys \union Uuids

\* A message is named by its coordinates; offsets start at 0.
Src == UNION {[part : {p}, off : 0 .. (Len(Log[p]) - 1)] : p \in Partitions}
Msg(s) == Log[s.part][s.off + 1]
At(p, o) == [part |-> p, off |-> o]

ASSUME LogAssumption == Log \in [Partitions -> Seq(Message)]
ASSUME NameAssumption ==
    /\ NoSrc \notin Src /\ NoKey \notin Pks /\ NoClient \notin Clients
    /\ Keys \intersect Uuids = {} /\ BadClients \subseteq Clients
ASSUME BoundAssumption ==
    /\ BatchSize \in Nat \ {0} /\ MaxFaults \in Nat /\ Faults \subseteq FaultKinds
\* The messages about one application or event name one client, and the producer
\* keys every record by client_id: they are all in one partition.
ASSUME KeyAssumption ==
    \A s, t \in Src : Msg(s).key = Msg(t).key /\ Msg(s).key # NoKey
                     => s.part = t.part /\ Msg(s).client = Msg(t).client

VARIABLES
    committed,      \* Kafka: committed[p] is the next offset to hand out
    table,          \* TiDB: table[pk] is the message the row was last written from
    cache,          \* kv_cache: the messages whose rows cache[c] was computed from
    dlq,            \* Postgres: messages recorded in dlq_events
    pc,             \* where the process is in _process_batch
    running,        \* self._running
    position,       \* librdkafka's fetch position
    polls,          \* iterations of the poll loop so far
    rows,           \* rows transformed so far, in order
    rejected,       \* messages rejected so far
    last,           \* last_msg
    pending,        \* clients of the batch that are still to be recomputed
    skipped,        \* ghost: messages the process dropped and moved past
    faults,         \* number of faults injected so far
    astray          \* ghost: there has been a rejoin in the middle of a batch

durable == <<committed, table, cache, dlq>>
batch   == <<polls, rows, rejected, last, pending>>
injected == <<faults, astray>>
vars    == <<durable, pc, running, position, batch, skipped, injected>>

PCs == {"down", "polling", "upsert", "compute", "dlq", "commit", "metrics"}

TypeOK ==
    /\ committed \in [Partitions -> Nat]
    /\ table \in [Pks -> Src \union {NoSrc}]
    /\ cache \in [Clients -> SUBSET Src]
    /\ dlq \subseteq Src
    /\ pc \in PCs
    /\ running \in BOOLEAN
    /\ position \in [Partitions -> Nat]
    /\ polls \in 0 .. BatchSize
    /\ rows \in Seq([pk : Pks, src : Src])
    /\ rejected \subseteq Src
    /\ last \in Src \union {NoSrc}
    /\ pending \subseteq Clients
    /\ skipped \subseteq Src
    /\ faults \in Nat /\ astray \in BOOLEAN

Init ==
    /\ committed = [p \in Partitions |-> 0]
    /\ table = [k \in Pks |-> NoSrc]
    /\ cache = [c \in Clients |-> {}]
    /\ dlq = {}
    /\ pc = "down" /\ running = FALSE
    /\ position = committed
    /\ polls = 0 /\ rows = <<>> /\ rejected = {} /\ last = NoSrc /\ pending = {}
    /\ skipped = {} /\ faults = 0 /\ astray = FALSE

-----------------------------------------------------------------------------
MayFail(f) == f \in Faults /\ faults < MaxFaults
Inject(f)  ==
    /\ MayFail(f) /\ faults' = faults + 1
    /\ astray' = IF f = "midrejoin" THEN TRUE ELSE astray

BatchSrcs == {rows[i].src : i \in DOMAIN rows} \union rejected
\* Variant: recompute_on_miss taken at its word.
ClientsNotCached ==
    {c \in Clients : /\ cache[c] = {}
                    /\ \E i \in DOMAIN rows : Msg(rows[i].src).client = c}

BatchClients == {c \in Clients : \E i \in DOMAIN rows :
                    Msg(rows[i].src).client = c /\ Msg(rows[i].src).kind # "twofold"}
Unstorable == \E i \in DOMAIN rows : Msg(rows[i].src).kind = "unstorable"
Unrecordable == \E s \in rejected : Msg(s).kind = "unrecordable"

FreshBatch ==
    polls' = 0 /\ rows' = <<>> /\ rejected' = {} /\ last' = NoSrc /\ pending' = {}

\* _process_batch returns to `while self._running` in run(), which leaves
\* through close() once a signal has cleared the flag.
ReturnToLoop == FreshBatch /\ pc' = IF running THEN "polling" ELSE "down"

\* A (re)assignment makes librdkafka fetch from the committed offsets again.  With
\* no batch under way, what was passed over beyond them is not lost after all.
SeekToCommitted ==
    /\ position' = committed
    /\ skipped' = IF last' = NoSrc THEN {s \in skipped : s.off < committed[s.part]}
                                   ELSE skipped

-----------------------------------------------------------------------------
\* Variant: auto.offset.reset latest.
StartLatest ==
    /\ pc = "down"
    /\ pc' = "polling" /\ running' = TRUE
    /\ FreshBatch /\ UNCHANGED skipped
    /\ position' = [p \in Partitions |-> IF committed[p] = 0 THEN Len(Log[p]) ELSE committed[p]]
    /\ UNCHANGED <<durable, injected>>

\* main(): configuration, pool, Consumer(...), subscribe.
Start ==
    /\ pc = "down"
    /\ pc' = "polling" /\ running' = TRUE
    /\ FreshBatch /\ SeekToCommitted
    /\ UNCHANGED <<durable, injected>>

\* Variant: the loop is not bounded by batch_size.
CanPollBeyondBatch == pc = "polling" /\ running

CanPoll == pc = "polling" /\ running /\ polls < BatchSize

\* poll() hands out the next message of p and it is transformed or rejected.
\* A row without an event_id gets a fresh uuid as its primary key.
UsedPks == {k \in Pks : table[k] # NoSrc} \union {rows[i].pk : i \in DOMAIN rows}
PksFor(m) == IF m.key = NoKey THEN Uuids \ UsedPks ELSE {m.key}

Poll(p) ==
    /\ CanPoll
    /\ position[p] < Len(Log[p])
    /\ LET s == At(p, position[p]) IN
        /\ Msg(s).kind # "fatal"
        /\ \/ Msg(s).kind \in RowlessKinds /\ UNCHANGED rows
           \/ /\ Msg(s).kind \notin RowlessKinds
              /\ \E k \in PksFor(Msg(s)) : rows' = Append(rows, [pk |-> k, src |-> s])
        /\ rejected' = IF Msg(s).kind \in RowlessKinds \union {"twofold"}
                         THEN rejected \union {s} ELSE rejected
        /\ last' = s
    /\ position' = [position EXCEPT ![p] = @ + 1]
    /\ polls' = polls + 1
    /\ UNCHANGED <<durable, pc, running, pending, skipped, injected>>

\* Variant: enable.auto.commit, so that close() commits what was polled.
PollFatalAutoCommit(p) ==
    /\ CanPoll
    /\ position[p] < Len(Log[p])
    /\ Msg(At(p, position[p])).kind = "fatal"
    /\ committed' = [committed EXCEPT ![p] = position[p]]
    /\ pc' = "down"
    /\ FreshBatch
    /\ UNCHANGED <<table, cache, dlq, running, position, skipped, injected>>

\* The exception of a "fatal" message leaves run() through its finally clause.
PollFatal(p) ==
    /\ CanPoll
    /\ position[p] < Len(Log[p])
    /\ Msg(At(p, position[p])).kind = "fatal"
    /\ pc' = "down"
    /\ FreshBatch
    /\ UNCHANGED <<durable, running, position, skipped, injected>>

\* Variant: an error event makes the loop subscribe again.
PollNothingResubscribes ==
    /\ CanPoll
    /\ polls' = polls + 1
    /\ position' = committed
    /\ UNCHANGED <<durable, pc, running, rows, rejected, last, pending, skipped, injected>>

\* poll() timed out, or returned an error event.
PollNothing ==
    /\ CanPoll
    /\ polls' = polls + 1
    /\ UNCHANGED <<durable, pc, running, position, rows, rejected, last, pending,
                   skipped, injected>>

\* Variant: a batch without rows goes straight to the commit.
EndPollingNoRows ==
    /\ pc = "polling"
    /\ polls = BatchSize \/ ~running
    /\ IF last = NoSrc
         THEN ReturnToLoop
         ELSE pc' = (IF rows = <<>> THEN "commit" ELSE "upsert") /\ UNCHANGED batch
    /\ UNCHANGED <<durable, running, position, skipped, injected>>

EndPolling ==
    /\ pc = "polling"
    /\ polls = BatchSize \/ ~running
    /\ IF last = NoSrc
         THEN ReturnToLoop
         ELSE pc' = "upsert" /\ UNCHANGED batch
    /\ UNCHANGED <<durable, running, position, skipped, injected>>

\* One INSERT ... ON DUPLICATE KEY UPDATE for the whole batch: rows of the
\* same primary key overwrite each other in list order.
RowsFor(k) == {i \in DOMAIN rows : rows[i].pk = k}
\* Variant: INSERT IGNORE instead of ON DUPLICATE KEY UPDATE.
UpsertedFirstWins ==
    [k \in Pks |-> IF table[k] # NoSrc \/ RowsFor(k) = {} THEN table[k]
                   ELSE rows[CHOOSE i \in RowsFor(k) : \A j \in RowsFor(k) : i <= j].src]

Upserted == [k \in Pks |-> IF RowsFor(k) = {} THEN table[k]
                                              ELSE rows[Max(RowsFor(k))].src]

Upsert ==
    /\ pc = "upsert"
    /\ ~Unstorable
    /\ table' = Upserted
    /\ pending' = BatchClients
    /\ pc' = "compute"
    /\ UNCHANGED <<committed, cache, dlq, running, position, polls, rows, rejected,
                   last, skipped, injected>>

\* compute_and_cache for one client, its own-topic group: aggregate over the
\* client's rows, then overwrite the cache entry.
RowsOfClient(c) == {s \in Src : Msg(s).client = c /\ \E k \in Pks : table[k] = s}

Recompute(c) ==
    /\ pc = "compute"
    /\ c \in pending \ BadClients
    /\ cache' = [cache EXCEPT ![c] = RowsOfClient(c)]
    /\ pending' = pending \ {c}
    /\ UNCHANGED <<committed, table, dlq, pc, running, position, polls, rows,
                   rejected, last, skipped, injected>>

EndCompute ==
    /\ pc = "compute" /\ pending = {}
    /\ pc' = "dlq"
    /\ UNCHANGED <<durable, running, position, batch, skipped, injected>>

\* upsert_batch or compute_and_cache raised: the batch is logged and left
\* uncommitted, and the loop polls on from where it is.
AbandonBatch ==
    /\ skipped' = skipped \union BatchSrcs
    /\ ReturnToLoop
    /\ UNCHANGED <<committed, dlq, running, position>>

\* TiDB rejects a value, whatever the weather.
UpsertRejected ==
    /\ pc = "upsert" /\ Unstorable
    /\ AbandonBatch
    /\ UNCHANGED <<table, cache, injected>>

\* Connection or server failure: the statement's transaction may or may not
\* have been committed before the error came back.
UpsertFails ==
    /\ pc = "upsert" /\ ~Unstorable
    /\ Inject("flush")
    /\ table' \in {table, Upserted}
    /\ AbandonBatch
    /\ UNCHANGED cache

\* The recompute of some client raises; clients already done keep their entry.
RecomputeFails ==
    /\ pc = "compute"
    /\ \/ pending \intersect BadClients # {} /\ UNCHANGED injected
       \/ pending # {} /\ Inject("flush")
    /\ AbandonBatch
    /\ UNCHANGED <<table, cache>>

WriteDlq ==
    /\ pc = "dlq" /\ ~Unrecordable
    /\ dlq' = dlq \union rejected
    /\ pc' = "commit"
    /\ UNCHANGED <<committed, table, cache, running, position, batch, skipped, injected>>

\* _write_dlq swallows the error of the INSERT, a weak Postgres or a payload that can never be
\* sent, and rolls back what it has sent of the batch.
DlqFails ==
    /\ pc = "dlq" /\ rejected # {}
    /\ \/ Unrecordable /\ UNCHANGED injected
       \/ Inject("dlq")
    /\ skipped' = skipped \union rejected
    /\ pc' = "commit"
    /\ UNCHANGED <<durable, running, position, batch>>

\* Variant: the committed offset is one too far.
CommitTooFar ==
    /\ pc = "commit"
    /\ committed' = [committed EXCEPT ![last.part] = last.off + 2]
    /\ pc' = "metrics"
    /\ UNCHANGED <<table, cache, dlq, running, position, batch, skipped, injected>>

\* Variant: an offset is committed for every partition, 0 where the batch has none.
CommitEveryPartition ==
    /\ pc = "commit"
    /\ committed' = [p \in Partitions |-> Max({0} \union {s.off + 1 : s \in {t \in BatchSrcs : t.part = p}})]
    /\ pc' = "metrics"
    /\ UNCHANGED <<table, cache, dlq, running, position, batch, skipped, injected>>

\* commit(message=last_msg): only the partition of the last message moves.
Commit ==
    /\ pc = "commit"
    /\ committed' = [committed EXCEPT ![last.part] = last.off + 1]
    /\ pc' = "metrics"
    /\ UNCHANGED <<table, cache, dlq, running, position, batch, skipped, injected>>

\* _write_run_metrics: its rows are observability only and are not modelled.
WriteRunMetrics ==
    /\ pc = "metrics"
    /\ ReturnToLoop
    /\ UNCHANGED <<durable, running, position, skipped, injected>>

-----------------------------------------------------------------------------
\* kill -9, out-of-memory, or an exception that is not caught: Postgres
\* refuses the connection, commit() raises.
Crash ==
    /\ pc # "down"
    /\ Inject("crash")
    /\ pc' = "down"
    /\ FreshBatch
    /\ UNCHANGED <<durable, running, position, skipped>>

Sigterm ==
    /\ pc # "down" /\ running
    /\ Inject("sigterm")
    /\ running' = FALSE
    /\ UNCHANGED <<durable, pc, position, batch, skipped>>

\* The member was evicted (max.poll.interval.ms or session.timeout.ms) and joins
\* again inside poll(): before the first message of a batch, or in its middle.
Rejoin ==
    /\ CanPoll
    /\ \/ last = NoSrc /\ Inject("rejoin")
       \/ last # NoSrc /\ Inject("midrejoin")
    /\ UNCHANGED <<durable, pc, running, batch>>
    /\ SeekToCommitted

-----------------------------------------------------------------------------
Flush == \/ Upsert \/ UpsertRejected
         \/ \E c \in Clients : Recompute(c)
         \/ EndCompute
         \/ RecomputeFails \/ UpsertFails

Acknowledge == WriteDlq \/ DlqFails \/ Commit \/ WriteRunMetrics

Next == \/ Start
        \/ \E p \in Partitions : Poll(p) \/ PollFatal(p)
        \/ PollNothing \/ EndPolling
        \/ Flush \/ Acknowledge
        \/ Crash \/ Sigterm \/ Rejoin

Spec == Init /\ [][Next]_vars

\* What the deployment schedules: docker restarts the process (restart:
\* unless-stopped), the loop keeps running, and librdkafka serves every partition
\* that has messages when it is polled often enough.
Process == \/ \E p \in Partitions : Poll(p) \/ PollFatal(p)
           \/ PollNothing \/ EndPolling \/ Flush \/ Acknowledge

FairSpec ==
    /\ Spec
    /\ WF_vars(Start) /\ WF_vars(Process)
    /\ \A p \in Partitions : SF_vars(Poll(p))

-----------------------------------------------------------------------------
(***************************************************************************)
(* Properties.                                                             *)
(***************************************************************************)
Committed == {s \in Src : s.off < committed[s.part]}

\* The message has been written to the table: its row, or one written over it.
Stored(s) == IF Msg(s).key = NoKey THEN \E k \in Uuids : table[k] = s
                                   ELSE table[Msg(s).key] # NoSrc

Handled == {s \in Src : Stored(s)} \union dlq

\* README.md, "writes events to TiDB": no offset is committed before its message
\* is in the table or in the dead-letter table.
NothingLost == Committed \subseteq Handled

\* Whatever fails: the only messages ever lost behind the committed offset are
\* those of a batch the loop abandoned or of a dead-letter insert that failed;
\* a crash, a restart or a rejoin loses none.
LossIsAccountedFor == Committed \subseteq Handled \union skipped

\* A redelivered old version of a row never stays behind the committed offset:
\* once a message is committed, its row is at least as new as the message.  (Not after
\* a rejoin in mid-batch: the batch is committed with the position behind it, and a
\* crash then leaves the older versions that were fetched again in the table.)
RowNotBehindCommit ==
    ~astray => \A s \in Committed \ (skipped \union dlq) :
        Msg(s).key # NoKey => /\ table[Msg(s).key] # NoSrc
                              /\ table[Msg(s).key].off >= s.off

\* The cached features of a client reflect every committed message of the client,
\* so that a crash between the upsert and the recompute is made good.  (Again, not
\* after a rejoin in mid-batch.)
CacheCoversCommitted ==
    ~astray => \A s \in Committed \ (skipped \union dlq) :
        Msg(s).client # NoClient =>
            \E t \in cache[Msg(s).client] :
                t = s \/ (Msg(s).key # NoKey /\ Msg(t).key = Msg(s).key /\ t.off >= s.off)

\* A committed offset never goes back, but for the batches after a rejoin in mid-batch.
CommitMonotone ==
    [][~astray => \A p \in Partitions : committed'[p] >= committed[p]]_committed

\* COMMENT 'source Kafka offset for dedup' (01_tidb_schema.sql): a row is never
\* overwritten from an older offset than the one it holds.
NewestOffsetWins ==
    [][\A k \in Pks : table[k] # NoSrc => table'[k].off >= table[k].off]_table

\* An event without an id gets another row whenever it is delivered again: at most
\* one more for every fault, and only for a fault.  (A message that kills the process
\* makes each restart another one without a fault: its batch is never flushed, but a
\* batch before it that ended in another partition has been, and is not committed here.)
RowsOfEvent(s) == {k \in Pks : table[k] = s}
DuplicatesBounded ==
    (\A s \in Src : Msg(s).kind # "fatal") =>
        \A s \in Src : Cardinality(RowsOfEvent(s)) <= 1 + faults

\* Every message ends up in the table or in the dead-letter table.
EveryMessageHandled == <>(Src \subseteq Handled)

\* When the faults are over, the table holds the newest version of every event
\* and the cache what the table says.
Newest(k) == \A s \in Src : Msg(s).key = k /\ Msg(s).kind = "row"
                => table[k] # NoSrc /\ table[k].off >= s.off
Converges == <>[](/\ \A k \in Keys : Newest(k)
                  /\ \A c \in Clients : cache[c] = RowsOfClient(c))

-----------------------------------------------------------------------------
(***************************************************************************)
(* The strengthening of LossIsAccountedFor that every step preserves.      *)
(***************************************************************************)
Safe == Handled \union skipped

\* Where the process has nothing under way, it holds nothing; where it is about
\* to write, there is a last message, and that message is of the batch.
BatchShape ==
    /\ pc = "down" => last = NoSrc
    /\ pc \in {"upsert", "compute", "dlq", "commit"} => last # NoSrc
    /\ IF last = NoSrc THEN BatchSrcs = {} ELSE last \in BatchSrcs

\* Of the rows with one primary key there is a last one, which is the row that
\* the statement leaves in the table.
LastRowExists ==
    \A k \in Pks : RowsFor(k) # {} => \E i \in RowsFor(k) : \A j \in RowsFor(k) : i >= j

\* A row has the key its message brings along, or else a uuid of its own that
\* no row of the table has before the batch is written.
RowsHaveKeys ==
    /\ \A i \in DOMAIN rows :
          rows[i].pk \in (IF Msg(rows[i].src).key = NoKey THEN Uuids ELSE {Msg(rows[i].src).key})
    /\ \A i, j \in DOMAIN rows : rows[i].pk \in Uuids /\ rows[i].pk = rows[j].pk => i = j
    /\ pc \in {"polling", "upsert"} =>
          \A i \in DOMAIN rows : rows[i].pk \in Uuids => table[rows[i].pk] = NoSrc

\* Nothing is skipped silently: what lies below the fetch position, or below any
\* message of the batch, is safe or in the batch itself.
PassedOver ==
    /\ pc # "down" => \A s \in Src : s.off < position[s.part] => s \in Safe \union BatchSrcs
    /\ \A t \in BatchSrcs, s \in Src :
          s.part = t.part /\ s.off <= t.off => s \in Safe \union BatchSrcs

\* The batch is written before it is committed.
WrittenBeforeCommit ==
    /\ pc \in {"compute", "dlq", "commit", "metrics"} =>
          \A i \in DOMAIN rows : Stored(rows[i].src)
    /\ pc \in {"commit", "metrics"} => rejected \subseteq Safe

IInv == /\ TypeOK /\ BatchShape /\ LastRowExists /\ RowsHaveKeys
        /\ PassedOver /\ WrittenBeforeCommit /\ LossIsAccountedFor

-----------------------------------------------------------------------------
\* The consumer, seen from outside, is an at-least-once transfer.
Delivery == INSTANCE AtLeastOnce WITH delivered <- Handled, acked <- committed
Implements == Delivery!Spec

=============================================================================
