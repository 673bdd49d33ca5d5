-------------------------- MODULE MC_FeatureConsumer --------------------------
(***************************************************************************)
(* Small instances of FeatureConsumer: the logs the runs consume.          *)
(***************************************************************************)
EXTENDS FeatureConsumer, TLC

CONSTANTS p1, p2, k1, k2, c1, c2, c3

Row(k, c)     == [kind |-> "row", key |-> k, client |-> c]
Reject        == [kind |-> "reject", key |-> NoKey, client |-> NoClient]
NulByte       == [kind |-> "unrecordable", key |-> NoKey, client |-> NoClient]
Unfit(c)      == [kind |-> "unstorable", key |-> NoKey, client |-> c]
Twofold(c)    == [kind |-> "twofold", key |-> NoKey, client |-> c]
Fatal         == [kind |-> "fatal", key |-> NoKey, client |-> NoClient]

\* Three versions of one row and a rejected message against one other row.
LogVersions == p1 :> <<Row(k1, c1), Row(k1, c1), Row(k1, c1)>>
            @@ p2 :> <<Reject, Row(k2, c2)>>

\* Three versions of one row against a rejected message and an event without an id.
LogAnonymous == p1 :> <<Row(k1, c1), Row(k1, c1), Row(k1, c1)>>
             @@ p2 :> <<Reject, Row(NoKey, c2)>>

UuidSymmetry == Permutations(Uuids)

\* A value TiDB refuses between two versions of a row, and a payload Postgres refuses behind
\* them, against a message that is both kept and rejected, a client id that is not a string
\* (c3) and an exception that REJECT_ERRORS does not name.
LogPoison == p1 :> <<Row(k1, c1), Unfit(c1), Row(k1, c1), NulByte>>
          @@ p2 :> <<Twofold(c2), Row(NoKey, c3), Fatal>>

LogFatal == p1 :> <<Row(k1, c1), Fatal, Row(k1, c1)>> @@ p2 :> <<Row(k2, c2)>>

=============================================================================
