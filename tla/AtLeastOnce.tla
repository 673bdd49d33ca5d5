------------------------------ MODULE AtLeastOnce ------------------------------
(***************************************************************************)
(* What a feature consumer promises the pipeline: messages are delivered to *)
(* their stores in any order and possibly again, never taken back, and the *)
(* offset of a partition is acknowledged only over messages that have all  *)
(* been delivered.                                                         *)
(***************************************************************************)
EXTENDS Integers

CONSTANTS
    Partitions,     \* partitions of the topic
    Src             \* the messages, as records [part, off]

VARIABLES
    delivered,      \* messages that are in a store for good
    acked           \* acked[p]: messages of p below this offset are done with

Init ==
    /\ delivered = {}
    /\ acked = [p \in Partitions |-> 0]

\* A whole batch is delivered at once.
Deliver(S) ==
    /\ delivered' = delivered \union S
    /\ UNCHANGED acked

Acknowledge(p, n) ==
    /\ n > acked[p]
    /\ \A s \in Src : s.part = p /\ s.off < n => s \in delivered
    /\ acked' = [acked EXCEPT ![p] = n]
    /\ UNCHANGED delivered

Next ==
    \/ \E S \in SUBSET Src : Deliver(S)
    \/ \E s \in Src : Acknowledge(s.part, s.off + 1)

Spec == Init /\ [][Next]_<<delivered, acked>>

=============================================================================
