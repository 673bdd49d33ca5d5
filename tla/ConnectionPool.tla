---------------------------- MODULE ConnectionPool ----------------------------
(***************************************************************************)
(* The TiDB pool of db.py and the three kinds of call a consumer makes      *)
(* through it: upsert_batch, the aggregation SELECT, and write_kv_cache.    *)
(*                                                                         *)
(* Connections do not autocommit.  An aggregation never commits, so that    *)
(* its connection goes back to the pool inside a transaction, and whoever   *)
(* is handed the connection next reads from that old snapshot.              *)
(***************************************************************************)
EXTENDS Integers, FiniteSets, Sequences, SequencesExt

CONSTANTS
    Threads,        \* users of the pool; a consumer process has one
    Conns,          \* identities of connections
    NoConn,         \* "no connection"
    PoolSize,       \* pool_size
    MaxFaults       \* bound on connection losses and outages

ASSUME PoolAssumption ==
    /\ PoolSize \in Nat \ {0} /\ MaxFaults \in Nat
    /\ NoConn \notin Conns
    /\ IsFiniteSet(Conns) /\ IsFiniteSet(Threads)
    /\ Cardinality(Conns) >= PoolSize + Cardinality(Threads)

VARIABLES
    pool,           \* self._pool, a stack
    pc,             \* where the thread is in `with pool.connection()`
    op,             \* the call it is making
    conn,           \* the connection it holds
    snap,           \* the transaction open on a connection, as of the last upsert
    alive,          \* connections that still work
    up,             \* TiDB can be reached
    faults

vars == <<pool, pc, op, conn, snap, alive, up, faults>>

Ops == {"upsert", "aggregate", "write"}
PCs == {"between", "ping", "create", "holding", "executed", "done", "failed"}

\* "fresh" sees every upsert committed so far, "stale" misses one.
Snaps == {"none", "fresh", "stale"}

TypeOK ==
    /\ pool \in Seq(Conns)
    /\ pc \in [Threads -> PCs] /\ op \in [Threads -> Ops]
    /\ conn \in [Threads -> Conns \union {NoConn}]
    /\ snap \in [Conns -> Snaps] /\ alive \subseteq Conns
    /\ up \in BOOLEAN /\ faults \in 0 .. MaxFaults

\* The constructor opens pool_size connections.
Init ==
    /\ pool \in {s \in [1 .. PoolSize -> Conns] : IsInjective(s)}
    /\ pc = [t \in Threads |-> "between"] /\ op = [t \in Threads |-> "upsert"]
    /\ conn = [t \in Threads |-> NoConn]
    /\ snap = [c \in Conns |-> "none"] /\ alive = Range(pool)
    /\ up = TRUE /\ faults = 0

-----------------------------------------------------------------------------
Goto(t, l) == pc' = [pc EXCEPT ![t] = l]
InUse == Range(pool) \union {conn[t] : t \in Threads}

\* An upsert is followed by the aggregations of its clients, an aggregation by
\* the write of its result unless that is empty; an exception ends the batch.
Following(o) == IF o = "aggregate" THEN Ops ELSE {"aggregate", "upsert"}

Abandon(t) == Goto(t, "between") /\ op' = [op EXCEPT ![t] = "upsert"]

-----------------------------------------------------------------------------
\* Variant: wait for a connection if there is none.
AcquireOrWait(t) ==
    /\ pc[t] = "between" /\ pool # <<>>
    /\ conn' = [conn EXCEPT ![t] = Last(pool)]
    /\ pool' = Front(pool)
    /\ Goto(t, "ping")
    /\ UNCHANGED <<op, snap, alive, up, faults>>

\* acquire: pop the top of the stack, or open a connection if there is none.
Acquire(t) ==
    /\ pc[t] = "between"
    /\ IF pool # <<>>
         THEN /\ conn' = [conn EXCEPT ![t] = Last(pool)]
              /\ pool' = Front(pool)
              /\ Goto(t, "ping")
         ELSE Goto(t, "create") /\ UNCHANGED <<conn, pool>>
    /\ UNCHANGED <<op, snap, alive, up, faults>>

\* ping(reconnect=True): a dead connection is reconnected under the same object.
Ping(t) ==
    /\ pc[t] = "ping" /\ up
    /\ Goto(t, "holding")
    /\ alive' = alive \union {conn[t]}
    /\ UNCHANGED <<pool, op, conn, snap, up, faults>>

\* The ping raises: the old connection is dropped and a new one opened.
PingFails(t) ==
    /\ pc[t] = "ping" /\ ~up
    /\ conn' = [conn EXCEPT ![t] = NoConn]
    /\ Goto(t, "create")
    /\ UNCHANGED <<pool, op, snap, alive, up, faults>>

Create(t) ==
    /\ pc[t] = "create" /\ up
    /\ \E c \in Conns \ InUse :
          /\ conn' = [conn EXCEPT ![t] = c]
          /\ alive' = alive \union {c}
    /\ Goto(t, "holding")
    /\ UNCHANGED <<pool, op, snap, up, faults>>

\* Variant: acquire returns None.
CreateFailsUnnoticed(t) ==
    /\ pc[t] = "create" /\ ~up
    /\ Goto(t, "holding")
    /\ UNCHANGED <<pool, op, conn, snap, alive, up, faults>>

CreateFails(t) ==
    /\ pc[t] = "create" /\ ~up
    /\ Abandon(t)
    /\ UNCHANGED <<pool, conn, snap, alive, up, faults>>

-----------------------------------------------------------------------------
\* The first statement on a connection opens its transaction.
Opened(t) == snap' = IF snap[conn[t]] = "none" THEN [snap EXCEPT ![conn[t]] = "fresh"]
                                               ELSE snap

Execute(t) ==
    /\ pc[t] = "holding" /\ conn[t] \in alive
    /\ Opened(t)
    /\ Goto(t, IF op[t] = "aggregate" THEN "done" ELSE "executed")
    /\ UNCHANGED <<pool, op, conn, alive, up, faults>>

\* TiDB refuses the statement; its transaction stays open.
ExecuteRefused(t) ==
    /\ pc[t] = "holding" /\ conn[t] \in alive
    /\ Opened(t)
    /\ Goto(t, "failed")
    /\ UNCHANGED <<pool, op, conn, alive, up, faults>>

\* After the commit of an upsert every other open snapshot misses its rows.
Commit(t) ==
    /\ pc[t] = "executed" /\ conn[t] \in alive
    /\ Goto(t, "done")
    /\ snap' = [c \in Conns |-> IF c = conn[t] THEN "none"
                                ELSE IF op[t] = "upsert" /\ snap[c] = "fresh" THEN "stale"
                                ELSE snap[c]]
    /\ UNCHANGED <<pool, op, conn, alive, up, faults>>

\* execute() or commit() finds the connection lost.
ConnectionLost(t) ==
    /\ pc[t] \in {"holding", "executed"} /\ conn[t] \notin alive
    /\ Goto(t, "failed")
    /\ UNCHANGED <<pool, op, conn, snap, alive, up, faults>>

-----------------------------------------------------------------------------
\* The call returns to its caller, or raises into the handler of the batch.
NextCall(t) ==
    /\ Goto(t, "between")
    /\ \E o \in (IF pc[t] = "done" THEN Following(op[t]) ELSE {"upsert"}) :
          op' = [op EXCEPT ![t] = o]

\* Closing a connection rolls its transaction back.
Close(c) == alive' = alive \ {c} /\ snap' = [snap EXCEPT ![c] = "none"]

\* Variant: a queue instead of a stack.
ReleaseToFront(t) ==
    /\ pc[t] \in {"done", "failed"}
    /\ NextCall(t)
    /\ conn' = [conn EXCEPT ![t] = NoConn]
    /\ IF Len(pool) < PoolSize
         THEN pool' = <<conn[t]>> \o pool /\ UNCHANGED <<snap, alive>>
         ELSE Close(conn[t]) /\ UNCHANGED pool
    /\ UNCHANGED <<up, faults>>

\* release: back on the stack if there is room, closed otherwise.
Release(t) ==
    /\ pc[t] \in {"done", "failed"}
    /\ NextCall(t)
    /\ conn' = [conn EXCEPT ![t] = NoConn]
    /\ IF Len(pool) < PoolSize
         THEN pool' = Append(pool, conn[t]) /\ UNCHANGED <<snap, alive>>
         ELSE Close(conn[t]) /\ UNCHANGED pool
    /\ UNCHANGED <<up, faults>>

-----------------------------------------------------------------------------
\* The server closes a connection (idle timeout, kill), or cannot be reached; the
\* transactions go with their connections.
LoseConnection(c) ==
    /\ c \in alive /\ faults < MaxFaults
    /\ Close(c)
    /\ faults' = faults + 1
    /\ UNCHANGED <<pool, pc, op, conn, up>>

Outage ==
    /\ up /\ faults < MaxFaults
    /\ up' = FALSE /\ alive' = {} /\ snap' = [c \in Conns |-> "none"]
    /\ faults' = faults + 1
    /\ UNCHANGED <<pool, pc, op, conn>>

Restore ==
    /\ ~up
    /\ up' = TRUE
    /\ UNCHANGED <<pool, pc, op, conn, snap, alive, faults>>

Step(t) == \/ Acquire(t) \/ Ping(t) \/ PingFails(t) \/ Create(t) \/ CreateFails(t)
           \/ Execute(t) \/ ExecuteRefused(t) \/ Commit(t) \/ ConnectionLost(t)
           \/ Release(t)

Next == \/ \E t \in Threads : Step(t)
        \/ \E c \in Conns : LoseConnection(c)
        \/ Outage \/ Restore

Spec == Init /\ [][Next]_vars

\* Threads run, and outages end.
FairSpec == Spec /\ WF_vars(Restore) /\ \A t \in Threads : WF_vars(Step(t))

-----------------------------------------------------------------------------
\* A consumer that aggregates sees the rows it has upserted: no aggregation runs in
\* a transaction older than the last upsert.
ReadsOwnWrites ==
    \A t \in Threads : pc[t] = "done" /\ op[t] = "aggregate" => snap[conn[t]] # "stale"

\* Connections dropped in an outage are made up for: every thread holds a working
\* connection again and again.
KeepsServing ==
    \A t \in Threads : []<>(pc[t] = "holding" /\ conn[t] \in alive)

=============================================================================
