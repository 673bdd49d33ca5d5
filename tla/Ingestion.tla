------------------------------- MODULE Ingestion -------------------------------
(***************************************************************************)
(* Messages on their way into the tables: those of generator.py, and those of *)
(* other producers, who get some fields wrong or send no object at all.       *)
(***************************************************************************)
EXTENDS Transformer

VARIABLES
    topic,
    source,         \* who has sent the message
    message,
    outcome         \* what has become of it

vars == <<topic, source, message, outcome>>

NoMessage == Val("no_message", 0)
Outcomes == {"none", "pending", "row", "unstorable", "reject", "unrecordable", "twofold", "fatal"}

-----------------------------------------------------------------------------
\* What generator.py can send: the longest value of each field, and null or zero where
\* it can be that.  The alternatives are those of the status or the event type.
D(n) == Val("number", n)
T(n) == Val("text", n)
Day  == Val("date", 10)
Time == Val("datetime", 20)

Application(approved, rejected, decided, purpose) ==
    [application_id |-> T(36), client_id |-> T(12), product_code |-> T(13),
     requested_amount |-> D(7), approved_amount |-> IF approved THEN D(7) ELSE Null,
     term_months |-> D(2), annual_rate |-> D(1), purpose |-> purpose, channel |-> T(11),
     status |-> T(9), rejection_reason |-> IF rejected THEN T(16) ELSE Null,
     score_at_decision |-> IF decided THEN D(3) ELSE Null, city |-> T(9),
     applied_at |-> Time, decided_at |-> IF decided THEN Time ELSE Null]

Payment(missed, late) ==
    LET paid(v) == IF missed THEN Null ELSE v IN
    [event_id |-> T(36), client_id |-> T(12), loan_id |-> T(12), event_type |-> T(15),
     scheduled_amount |-> D(5), actual_amount |-> paid(D(5)), principal_part |-> paid(D(5)),
     interest_part |-> paid(D(5)), penalty_amount |-> IF late THEN D(4) ELSE Zero,
     days_overdue |-> IF late \/ missed THEN D(3) ELSE Zero, payment_channel |-> T(13),
     due_date |-> Day, event_at |-> Time]

Operation(suspicious) ==
    [event_id |-> T(36), client_id |-> T(12), loan_id |-> T(12), operation_type |-> T(12),
     amount |-> D(7), device_id |-> T(36), device_type |-> T(7), ip_country |-> T(2),
     is_suspicious |-> Val("bool", IF suspicious THEN 1 ELSE 0),
     suspicious_reason |-> IF suspicious THEN T(16) ELSE Null, operation_at |-> Time]

Money(transfer, monthEnd, after) ==
    [event_id |-> T(36), client_id |-> T(12), event_type |-> T(17), account_type |-> T(7),
     balance_before |-> D(7), balance_after |-> after, amount |-> D(6), currency |-> T(3),
     counterparty_id |-> IF transfer THEN T(36) ELSE Null, source_system |-> T(11),
     event_at |-> Time, period_month |-> IF monthEnd THEN Day ELSE Null]

Generated ==
    [t \in Topics |->
       CASE t = "loan-applications" ->
              {Application(s = "APPROVED", s = "REJECTED", s # "PENDING", p) :
                  s \in {"APPROVED", "REJECTED", "PENDING", "CANCELLED"}, p \in {T(11), Null}}
         [] t = "loan-payments" ->
              {Payment(FALSE, FALSE), Payment(FALSE, TRUE), Payment(TRUE, FALSE)}
         [] t = "loan-operations" -> {Operation(s) : s \in BOOLEAN}
         [] t = "client-money" ->
              {Money(FALSE, TRUE, D(7)), Money(FALSE, FALSE, D(7)), Money(FALSE, FALSE, Zero),
               Money(TRUE, FALSE, D(7)), Money(TRUE, FALSE, Zero)}]

\* A message of another producer: two fields of a good one, or one, hold something else.
Good(t) == CHOOSE m \in Generated[t] : TRUE
Spoilt(m, f, v, g, w) == [m EXCEPT ![f] = v, ![g] = w]

-----------------------------------------------------------------------------
Init ==
    /\ topic \in Topics
    /\ source = "none" /\ message = NoMessage /\ outcome = "none"

Send(s, m) == source' = s /\ message' = m /\ outcome' = "pending" /\ UNCHANGED topic

Generate ==
    /\ outcome = "none"
    /\ \E m \in Generated[topic] : Send("generator", m)

ReceiveForeign ==
    /\ outcome = "none"
    /\ \/ \E m \in {NotAnObject, Tombstone, TooDeep, NulByte} : Send("other", m)
       \/ \E f, g \in FieldNames(topic), v, w \in Values :
              Send("other", Spoilt(Good(topic), f, v, g, w))

\* The consumer of the topic takes the message.
Process ==
    /\ outcome = "pending"
    /\ outcome' = Outcome(topic, message)
    /\ UNCHANGED <<topic, source, message>>

NextMessage ==
    /\ outcome \notin {"none", "pending"}
    /\ source' = "none" /\ message' = NoMessage /\ outcome' = "none"
    /\ UNCHANGED topic

Next == Generate \/ ReceiveForeign \/ Process \/ NextMessage

Spec == Init /\ [][Next]_vars

-----------------------------------------------------------------------------
TypeOK ==
    /\ topic \in Topics /\ source \in {"none", "generator", "other"} /\ outcome \in Outcomes
    /\ outcome = "none" <=> message = NoMessage

Holds(f, kinds) == f \in FieldNames(topic) /\ message[f].kind \in kinds

\* generator.py, transformer.py and 01_tidb_schema.sql agree: whatever the generator sends
\* becomes a row that TiDB takes, its optional fields and longest values included.
GeneratedEventsFit ==
    source = "generator" => outcome \in {"pending", "row"}

\* "route the message to the DLQ instead of dying on it" (transformer.py:15) holds of the
\* conversions: every error of theirs is caught under some name, whatever other fields hold,
\* but for int() of an infinite number.  What is fatal besides is so before any field is
\* looked at: a tombstone, and nesting that is too deep.
IntegerFields == {"term_months", "days_overdue"}
FatalForAReason ==
    outcome = "fatal" => \/ message \in {Tombstone, TooDeep}
                         \/ \E f \in IntegerFields : Holds(f, {"inf"})

\* A row that makes TiDB refuse the batch has got past the checks for one of these reasons:
\* NaN or Infinity, a value out of the column's range, a text that has no UTF-8, a list or an
\* object, or a null for an id, alone or in a list.  No other null, empty string, flag or
\* wrong type costs the rest of the batch.
Ids == {"application_id", "client_id", "loan_id"}
RefusedForAReason ==
    outcome = "unstorable" =>
        \E f \in FieldNames(topic) :
            \/ Holds(f, {"nan", "inf", "special", "list", "surrogate"})
            \/ message[f].size > Columns[topic][f].size
            \/ f \in Ids /\ message[f] = Null
            \/ f \in Ids \union {"event_id"} /\ Holds(f, {"single_null"})

=============================================================================
