---------------------------- MODULE EventProducer ----------------------------
(***************************************************************************)
(* The loop of risk-feature-producer (main.py) for one topic: events handed  *)
(* to librdkafka's bounded queue, delivery reports, the flush on the way     *)
(* out, SIGTERM, SIGKILL, and a broker that is away for a while.             *)
(*                                                                         *)
(* What an event looks like is Ingestion's matter; here it is its number and  *)
(* its client.                                                              *)
(***************************************************************************)
EXTENDS Integers, FiniteSets, Sequences, Functions

CONSTANTS
    Clients,
    Partitions,
    PartitionOf,    \* the partition librdkafka hashes a client's key to
    Limits,         \* values of MAX_EVENTS
    QueueSize,      \* queue.buffering.max.messages
    MaxGenerated,   \* bound on the events of all processes together
    MaxOutages      \* bound on the outages of the broker

ASSUME ProducerAssumption ==
    /\ PartitionOf \in [Clients -> Partitions]
    /\ Limits \subseteq Nat /\ QueueSize \in Nat \ {0}
    /\ MaxGenerated \in Nat /\ MaxOutages \in Nat

VARIABLES
    limit,          \* config.max_events
    pc,             \* where the process is in run()
    running,        \* self._running
    sent, malformed, failed,
    queue,          \* queue[p]: produced for p, not acknowledged or given up yet
    reports,        \* delivery reports not served yet
    log,            \* log[p]: partition p at the broker
    up,             \* the broker can be reached
    outages,
    generated,      \* number of events generated so far
    handed,         \* ghost: events produce() has accepted
    reported,       \* ghost: events whose failure check_delivery has logged
    cut             \* ghost: events that were in the queue of a killed process

counters == <<sent, malformed, failed>>
local    == <<pc, running, counters>>
ghosts   == <<handed, reported, cut>>
vars     == <<limit, local, queue, reports, log, up, outages, generated, ghosts>>

Event  == [id : Nat, client : Clients]
Report == [event : Event, ok : BOOLEAN]
PCs    == {"loop", "poll", "flush", "exited", "killed"}
Ended  == {"exited", "killed"}

TypeOK ==
    /\ limit \in Limits /\ pc \in PCs /\ running \in BOOLEAN
    /\ sent \in Nat /\ malformed \in 0 .. sent + 1 /\ failed \in Nat
    /\ queue \in [Partitions -> Seq(Event)] /\ log \in [Partitions -> Seq(Event)]
    /\ reports \subseteq Report
    /\ up \in BOOLEAN /\ outages \in 0 .. MaxOutages /\ generated \in 0 .. MaxGenerated
    /\ handed \subseteq Event /\ reported \subseteq Event /\ cut \subseteq Event

Init ==
    /\ limit \in Limits
    /\ pc = "loop" /\ running = TRUE /\ sent = 0 /\ malformed = 0 /\ failed = 0
    /\ queue = [p \in Partitions |-> <<>>] /\ log = [p \in Partitions |-> <<>>]
    /\ reports = {}
    /\ up = TRUE /\ outages = 0 /\ generated = 0
    /\ handed = {} /\ reported = {} /\ cut = {}

-----------------------------------------------------------------------------
Elements(qs) == UNION {Range(qs[p]) : p \in Partitions}

\* A message counts against the queue until its report has been served.
QueueFull == Cardinality(Elements(queue)) + Cardinality(reports) >= QueueSize

\* `if max_events > sent: break`: a limit that has not been reached ends the loop.
LimitReached == limit # 0 /\ limit > sent

\* Variant: produce() without a key.
TargetAny(e) == Partitions

\* key=client_id: the partitioner hashes it.
Target(e) == {PartitionOf[e.client]}

Iterates == pc = "loop" /\ running /\ ~LimitReached

\* Variant: the handler's flag is not looked at in the loop.
LeaveOnlyAtLimit ==
    /\ pc = "loop" /\ LimitReached
    /\ pc' = "flush"
    /\ UNCHANGED <<limit, running, counters, queue, reports, log, up, outages, generated, ghosts>>

Leave ==
    /\ pc = "loop" /\ (~running \/ LimitReached)
    /\ pc' = "flush"
    /\ UNCHANGED <<limit, running, counters, queue, reports, log, up, outages, generated, ghosts>>

\* send_event generates an event, and produces it or throws it away as malformed.
Generate == generated < MaxGenerated /\ generated' = generated + 1

\* Variant: a malformed event goes straight on to the next one.
SendMalformedContinues ==
    /\ Iterates /\ Generate
    /\ malformed' = malformed + 1
    /\ UNCHANGED <<limit, pc, running, sent, failed, queue, reports, log, up, outages, ghosts>>

SendMalformed ==
    /\ Iterates /\ Generate
    /\ malformed' = malformed + 1
    /\ pc' = "poll"
    /\ UNCHANGED <<limit, running, sent, failed, queue, reports, log, up, outages, ghosts>>

Send ==
    /\ Iterates /\ Generate
    /\ ~QueueFull
    /\ \E c \in Clients :
          LET e == [id |-> generated', client |-> c] IN
          /\ \E p \in Target(e) : queue' = [queue EXCEPT ![p] = Append(@, e)]
          /\ handed' = handed \union {e}
    /\ pc' = "poll"
    /\ UNCHANGED <<limit, running, counters, reports, log, up, outages, reported, cut>>

\* produce() raises BufferError, which leaves run() through its finally clause.
SendRaises ==
    /\ Iterates /\ Generate
    /\ QueueFull
    /\ pc' = "flush"
    /\ UNCHANGED <<limit, running, counters, queue, reports, log, up, outages, ghosts>>

\* poll and flush call check_delivery for every report there is.
Served == {r \in reports : ~r.ok}
CheckDeliveries ==
    /\ failed' = failed + Cardinality(Served)
    /\ reported' = reported \union {r.event : r \in Served}
    /\ reports' = {}

Poll ==
    /\ pc = "poll"
    /\ CheckDeliveries
    /\ sent' = sent + 1
    /\ pc' = "loop"
    /\ UNCHANGED <<limit, running, malformed, queue, log, up, outages, generated, handed, cut>>

FlushServes ==
    /\ pc = "flush" /\ reports # {}
    /\ CheckDeliveries
    /\ UNCHANGED <<limit, pc, running, sent, malformed, queue, log, up, outages, generated,
                   handed, cut>>

\* Variant: flush(timeout), with the events that are left forgotten.
FlushTimesOut ==
    /\ pc = "flush"
    /\ sent' = sent + 1
    /\ pc' = "exited"
    /\ queue' = [p \in Partitions |-> <<>>] /\ reports' = {}
    /\ UNCHANGED <<limit, running, malformed, failed, log, up, outages, generated, ghosts>>

\* flush() has no timeout: it returns when the queue is empty and all is reported.
FlushReturns ==
    /\ pc = "flush" /\ reports = {} /\ Elements(queue) = {}
    /\ sent' = sent + 1
    /\ pc' = "exited"
    /\ UNCHANGED <<limit, running, malformed, failed, queue, reports, log, up, outages,
                   generated, ghosts>>

-----------------------------------------------------------------------------
Sigterm ==
    /\ pc \notin Ended /\ running
    /\ running' = FALSE
    /\ UNCHANGED <<limit, pc, counters, queue, reports, log, up, outages, generated, ghosts>>

\* docker's SIGKILL after the grace period, or out of memory: the queue is gone.
Kill ==
    /\ pc \notin Ended
    /\ pc' = "killed"
    /\ cut' = cut \union Elements(queue) \union {r.event : r \in reports}
    /\ queue' = [p \in Partitions |-> <<>>] /\ reports' = {}
    /\ UNCHANGED <<limit, running, counters, log, up, outages, generated, handed, reported>>

\* restart: unless-stopped, or docker start.
Restart ==
    /\ pc \in Ended
    /\ pc' = "loop" /\ running' = TRUE
    /\ sent' = 0 /\ malformed' = 0 /\ failed' = 0
    /\ UNCHANGED <<limit, queue, reports, log, up, outages, generated, ghosts>>

-----------------------------------------------------------------------------
\* Variant: without enable.idempotence any request in flight may be written, again too.
TakesAny(p, i) == Cardinality({j \in DOMAIN log[p] : log[p][j] = queue[p][i]}) < 2

\* enable.idempotence: the broker takes sequence numbers in order and once.
Takes(p, i) ==
    /\ queue[p][i] \notin Range(log[p])
    /\ \A j \in 1 .. i - 1 : queue[p][j] \in Range(log[p])

\* A request gets through; its acknowledgement comes later, or is lost and asked for again.
BrokerWrites(p) ==
    /\ up
    /\ \E i \in DOMAIN queue[p] :
          /\ Takes(p, i)
          /\ log' = [log EXCEPT ![p] = Append(@, queue[p][i])]
    /\ UNCHANGED <<limit, local, queue, reports, up, outages, generated, ghosts>>

Conclude(p, ok) ==
    /\ queue' = [queue EXCEPT ![p] = Tail(@)]
    /\ reports' = reports \union {[event |-> Head(queue[p]), ok |-> ok]}
    /\ UNCHANGED <<limit, local, log, up, outages, generated, ghosts>>

Acknowledged(p) ==
    /\ up /\ queue[p] # <<>> /\ Head(queue[p]) \in Range(log[p])
    /\ Conclude(p, TRUE)

\* message.timeout.ms without an answer: perhaps it has been written all the same.
Expires(p) ==
    /\ ~up /\ queue[p] # <<>>
    /\ Conclude(p, FALSE)

BrokerGoes ==
    /\ up /\ outages < MaxOutages
    /\ up' = FALSE /\ outages' = outages + 1
    /\ UNCHANGED <<limit, local, queue, reports, log, generated, ghosts>>

BrokerReturns ==
    /\ ~up
    /\ up' = TRUE
    /\ UNCHANGED <<limit, local, queue, reports, log, outages, generated, ghosts>>

Run == Leave \/ SendMalformed \/ Send \/ SendRaises \/ Poll \/ FlushServes \/ FlushReturns

Transfer(p) == BrokerWrites(p) \/ Acknowledged(p) \/ Expires(p)

Next == \/ Run \/ Sigterm \/ Kill \/ Restart
        \/ \E p \in Partitions : Transfer(p)
        \/ BrokerGoes \/ BrokerReturns

Spec == Init /\ [][Next]_vars

\* The process runs, and librdkafka sends what it has or gives it up.  An outage need
\* not end.
FairSpec == Spec /\ WF_vars(Run) /\ \A p \in Partitions : WF_vars(Transfer(p))

-----------------------------------------------------------------------------
\* All events of one client are in one partition, each once, in the order they were
\* produced in, whatever was sent again: what FeatureConsumer assumes of keys, and more.
ClientOrder ==
    \A p, q \in Partitions : \A i \in DOMAIN log[p], j \in DOMAIN log[q] :
        log[p][i].client = log[q][j].client =>
            p = q /\ (i < j => log[p][i].id < log[q][j].id)

\* When run() is over, by a signal, a limit or a full queue, an event that is not in
\* Kafka has been logged as failed, or an earlier process was killed with it.
NothingLeftBehind ==
    pc = "exited" => handed \subseteq Elements(log) \union reported \union cut

\* SIGTERM, a limit or a full queue ends the process, be the broker there or not.
StopsInTheEnd == pc = "flush" \/ ~running ~> pc \in Ended

=============================================================================
