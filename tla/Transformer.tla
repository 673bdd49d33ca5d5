------------------------------ MODULE Transformer ------------------------------
(***************************************************************************)
(* What becomes of one message: transformer.py turns it into a row or raises, *)
(* consumer.py catches what it names in REJECT_ERRORS, and TiDB accepts the   *)
(* row or refuses the statement it is in.  The outcomes are the message kinds *)
(* of FeatureConsumer.                                                      *)
(*                                                                         *)
(* A JSON value is known by its kind and its size, as the field it is in sees *)
(* them.  The kind of a string is what the field's converter takes it for.    *)
(* The size is what the value takes of its column: the characters of a text   *)
(* (in capitals, where the code makes them) without trailing blanks, or the   *)
(* digits of a number before the point; a value that is out of the range of   *)
(* its column is larger than the column.  Size 0 is what Python takes for     *)
(* false, and nothing else.                                                 *)
(***************************************************************************)
EXTENDS Integers, Sequences, FiniteSetsExt

CONSTANTS
    Sizes           \* sizes of the texts, numbers and lists in a message

ASSUME SizesAssumption == Sizes \subseteq Nat /\ {0, 1} \subseteq Sizes

Topics == {"loan-applications", "loan-payments", "loan-operations", "client-money"}

\* Strings: both int() and Decimal() take a numeral, only Decimal() a decimal ("1.5");
\* "NaN" and "Infinity" are special, "yes" and "false" are flags; a surrogate is a string
\* with half of a pair, which has no UTF-8; any other string is a text.
Strings == {"text", "numeral", "decimal", "special", "flag", "date", "datetime", "surrogate"}

\* Lists and objects: a single is a list of one thing that can be stored, at whatever
\* depth, a single_null a list of null.  NaN and Infinity are numbers in Python's JSON.
Val(kind, size) == [kind |-> kind, size |-> size]
Absent  == Val("absent", 0)
Null    == Val("null", 0)
Zero    == Val("number", 0)
Values ==
    [kind : {"text", "number"}, size : Sizes]
    \union [kind : {"numeral", "decimal", "single"}, size : Sizes \ {0}]
    \union [kind : {"bool"}, size : {0, 1}]
    \union {Absent, Null, Val("single_null", 1), Val("list", 0), Val("list", 2),
            Val("nan", 1), Val("inf", 1), Val("special", 1), Val("flag", 1),
            Val("surrogate", 1), Val("date", 10), Val("datetime", 20), Val("datetime", 21)}

Falsy(v)   == v.size = 0
IsStr(v)   == v.kind \in Strings
NotGiven(v)  == v.kind \in {"absent", "null"}
EmptyStr(v)  == v = Val("text", 0)

\* An exception is a value as well, so that a converter has one kind of result.
Raise(e) == [kind |-> "raised", error |-> e]
Raised(v) == v.kind = "raised"

\* Variant: AttributeError is forgotten.
RejectErrorsForgetful == {"TransformError", "TypeError", "ValueError"}

\* The part of REJECT_ERRORS that comes up.
RejectErrors == {"TransformError", "AttributeError", "TypeError", "ValueError"}

-----------------------------------------------------------------------------
\* The converters.
Req(v) == IF v = Absent THEN Raise("TransformError") ELSE v
Get(v) == IF v = Absent THEN Null ELSE v
ReqUpper(v) == IF IsStr(v) THEN v ELSE Raise("TransformError")

\* int(): a float that is infinite is an OverflowError.
ReqInt(v) == CASE v.kind \in {"number", "numeral", "bool"} -> Val("number", v.size)
               [] v.kind = "inf" -> Raise("OverflowError")
               [] OTHER -> Raise("TransformError")
OptInt(v) == IF NotGiven(v) THEN Zero ELSE ReqInt(v)

\* Decimal(str()): a bool is no number, NaN and Infinity are.
ReqDecimal(v) == CASE v.kind \in {"number", "numeral", "decimal"} -> Val("number", v.size)
                   [] v.kind \in {"nan", "inf", "special"} -> Val("nan", v.size)
                   [] OTHER -> Raise("TransformError")

\* Variant: null is converted like a value.
OptDecimalOfNull(v) == IF v = Absent THEN Null ELSE ReqDecimal(v)
OptDecimal(v) == IF NotGiven(v) THEN Null ELSE ReqDecimal(v)
DecimalOrZero(v) == IF NotGiven(v) THEN Zero ELSE ReqDecimal(v)

\* Whatever is not a string has no upper().
OptUpper(v) == IF NotGiven(v) \/ EmptyStr(v) THEN Null
               ELSE IF IsStr(v) THEN v ELSE Raise("AttributeError")

\* Variant: the default holds for a missing currency only.
CurrencyOfAbsent(v) == IF v = Absent THEN Val("text", 3) ELSE OptUpper(v)
Currency(v) == IF NotGiven(v) \/ EmptyStr(v) THEN Val("text", 3) ELSE OptUpper(v)

ReqDate(v) == IF v.kind = "date" THEN v ELSE Raise("TransformError")
OptDate(v) == IF NotGiven(v) \/ EmptyStr(v) THEN Null ELSE ReqDate(v)
ReqDatetime(v) == CASE v.kind = "date" -> Val("datetime", 20)
                    [] v.kind = "datetime" -> v
                    [] OTHER -> Raise("TransformError")
OptDatetime(v) == IF NotGiven(v) THEN Null ELSE ReqDatetime(v)

\* str(uuid.uuid4()), and the first half of a SHA-256: encode() raises a UnicodeEncodeError,
\* which is a ValueError, for half of a surrogate pair (str() of a list escapes it).
EventId(v) == IF Falsy(v) THEN Val("text", 36) ELSE v
DeviceId(v) == CASE NotGiven(v) -> Null
                 [] v.kind = "surrogate" -> Raise("ValueError")
                 [] OTHER -> Val("text", 32)

\* true and false, 0 and 1, and their spellings; a number of size 1 stands for 1.
Flag(v) == IF v.kind \in {"bool", "flag"} \/ v = Zero
              \/ (v.kind \in {"number", "numeral"} /\ v.size = 1)
             THEN Val("number", v.size) ELSE Raise("TransformError")

Convert(c, v) ==
    CASE c = "req" -> Req(v)             [] c = "get" -> Get(v)
      [] c = "upper" -> ReqUpper(v)      [] c = "opt_upper" -> OptUpper(v)
      [] c = "int" -> ReqInt(v)          [] c = "opt_int" -> OptInt(v)
      [] c = "decimal" -> ReqDecimal(v)  [] c = "opt_decimal" -> OptDecimal(v)
      [] c = "decimal_or_0" -> DecimalOrZero(v)
      [] c = "date" -> ReqDate(v)        [] c = "opt_date" -> OptDate(v)
      [] c = "datetime" -> ReqDatetime(v) [] c = "opt_datetime" -> OptDatetime(v)
      [] c = "event_id" -> EventId(v)    [] c = "device_id" -> DeviceId(v)
      [] c = "flag" -> Flag(v)           [] c = "currency" -> Currency(v)

-----------------------------------------------------------------------------
\* The fields of each topic, in the order in which the code converts them.
Field(name, by) == [name |-> name, by |-> by]
LoanApplication ==
    << Field("application_id", "req"), Field("client_id", "req"),
       Field("product_code", "upper"), Field("requested_amount", "decimal"),
       Field("term_months", "int"), Field("annual_rate", "decimal"),
       Field("channel", "upper"), Field("status", "upper"),
       Field("approved_amount", "opt_decimal"), Field("purpose", "get"),
       Field("rejection_reason", "get"), Field("score_at_decision", "opt_decimal"),
       Field("city", "get"), Field("applied_at", "datetime"),
       Field("decided_at", "opt_datetime") >>
LoanPayment ==
    << Field("event_id", "event_id"), Field("client_id", "req"), Field("loan_id", "req"),
       Field("event_type", "upper"), Field("scheduled_amount", "opt_decimal"),
       Field("actual_amount", "opt_decimal"), Field("principal_part", "opt_decimal"),
       Field("interest_part", "opt_decimal"), Field("penalty_amount", "decimal_or_0"),
       Field("days_overdue", "opt_int"), Field("payment_channel", "opt_upper"),
       Field("due_date", "date"), Field("event_at", "datetime") >>
LoanOperation ==
    << Field("event_id", "event_id"), Field("client_id", "req"), Field("loan_id", "req"),
       Field("operation_type", "upper"), Field("amount", "opt_decimal"),
       Field("device_id", "device_id"), Field("device_type", "opt_upper"),
       Field("ip_country", "opt_upper"), Field("is_suspicious", "flag"),
       Field("suspicious_reason", "get"), Field("operation_at", "datetime") >>
ClientMoney ==
    << Field("event_id", "event_id"), Field("client_id", "req"), Field("event_type", "upper"),
       Field("account_type", "opt_upper"), Field("balance_before", "opt_decimal"),
       Field("balance_after", "opt_decimal"), Field("amount", "decimal"),
       Field("currency", "currency"), Field("counterparty_id", "get"),
       Field("source_system", "get"), Field("event_at", "datetime"),
       Field("period_month", "opt_date") >>

Fields == [t \in Topics |->
             CASE t = "loan-applications" -> LoanApplication
               [] t = "loan-payments"     -> LoanPayment
               [] t = "loan-operations"   -> LoanOperation
               [] t = "client-money"      -> ClientMoney]
FieldNames(t) == {Fields[t][i].name : i \in DOMAIN Fields[t]}

\* The columns: VARCHAR(n) and CHAR(n); DECIMAL by its integer digits; SMALLINT and
\* TINYINT by the digits that are sure to fit; DATETIME(3) up to the last millisecond of 9999.
Text(n)    == [type |-> "text", size |-> n, null |-> FALSE]
Number(n)  == [type |-> "number", size |-> n, null |-> FALSE]
Date       == [type |-> "date", size |-> 10, null |-> FALSE]
Datetime   == [type |-> "datetime", size |-> 20, null |-> FALSE]
OrNull(c)  == [type |-> c.type, size |-> c.size, null |-> TRUE]

LoanApplicationColumns ==
    [application_id |-> Text(36), client_id |-> Text(20), product_code |-> Text(20),
     requested_amount |-> Number(13), approved_amount |-> OrNull(Number(13)),
     term_months |-> Number(4), annual_rate |-> Number(2), purpose |-> OrNull(Text(100)),
     channel |-> Text(30), status |-> Text(20), rejection_reason |-> OrNull(Text(100)),
     score_at_decision |-> OrNull(Number(3)), city |-> OrNull(Text(60)),
     applied_at |-> Datetime, decided_at |-> OrNull(Datetime)]
LoanPaymentColumns ==
    [event_id |-> Text(36), client_id |-> Text(20), loan_id |-> Text(36), event_type |-> Text(30),
     scheduled_amount |-> OrNull(Number(13)), actual_amount |-> OrNull(Number(13)),
     principal_part |-> OrNull(Number(13)), interest_part |-> OrNull(Number(13)),
     penalty_amount |-> OrNull(Number(13)), days_overdue |-> OrNull(Number(4)),
     payment_channel |-> OrNull(Text(30)), due_date |-> Date, event_at |-> Datetime]
LoanOperationColumns ==
    [event_id |-> Text(36), client_id |-> Text(20), loan_id |-> Text(36),
     operation_type |-> Text(40), amount |-> OrNull(Number(13)), device_id |-> OrNull(Text(64)),
     device_type |-> OrNull(Text(20)), ip_country |-> OrNull(Text(2)),
     is_suspicious |-> OrNull(Number(2)), suspicious_reason |-> OrNull(Text(100)),
     operation_at |-> Datetime]
ClientMoneyColumns ==
    [event_id |-> Text(36), client_id |-> Text(20), event_type |-> Text(30),
     account_type |-> OrNull(Text(20)), balance_before |-> OrNull(Number(13)),
     balance_after |-> OrNull(Number(13)), amount |-> Number(13), currency |-> Text(3),
     counterparty_id |-> OrNull(Text(36)), source_system |-> OrNull(Text(30)),
     event_at |-> Datetime, period_month |-> OrNull(Date)]

Columns == [t \in Topics |->
              CASE t = "loan-applications" -> LoanApplicationColumns
                [] t = "loan-payments"     -> LoanPaymentColumns
                [] t = "loan-operations"   -> LoanOperationColumns
                [] t = "client-money"      -> ClientMoneyColumns]

\* PyMySQL writes a list of one thing as that thing in parentheses: (5), ('a'), (('a')) or
\* (NULL).  It cannot encode half of a surrogate pair, or sends a byte that is no UTF-8.
StoredAs(type) == IF type = "text" THEN (Strings \ {"surrogate"}) \union {"number", "bool", "single"}
                                   ELSE {type}
Fits(v, col) == IF v.kind \in {"null", "single_null"} THEN col.null
                ELSE v.kind \in StoredAs(col.type) /\ v.size <= col.size

-----------------------------------------------------------------------------
\* A message that is no JSON object (or no JSON, or no UTF-8), one that has no value at all
\* (a tombstone), and one nested so deep that json.loads(), or the str() of a converter, comes
\* to Python's limit, have no fields to look at.
NotAnObject == Val("not_an_object", 0)
Tombstone   == Val("tombstone", 0)
TooDeep     == Val("too_deep", 0)
\* No JSON either: JSON has no NUL byte, and a column of Postgres neither.
NulByte     == Val("nul_byte", 0)

Converted(t, m) == [i \in DOMAIN Fields[t] |-> Convert(Fields[t][i].by, m[Fields[t][i].name])]

\* The first field that raises ends the transformation.
Raises(res) == \E i \in DOMAIN res : Raised(res[i])
FirstError(res) == res[Min({i \in DOMAIN res : Raised(res[i])})].error

\* client_ids.add(): a list cannot be hashed, when its row is in the batch already.
ClientOf(t, res) == res[CHOOSE i \in DOMAIN res : Fields[t][i].name = "client_id"]
Unhashable(v) == v.kind \in {"single", "single_null", "list"} /\ ~Falsy(v)

Refused(t, res) == \E i \in DOMAIN res : ~Fits(res[i], Columns[t][Fields[t][i].name])

\* Variant: a row without a client is passed over.
OutcomeOfRowWithClient(t, row) == IF Falsy(ClientOf(t, row)) THEN "none" ELSE "row"

OutcomeOfRow(t, row) == IF Refused(t, row) THEN "unstorable"
                        ELSE IF Unhashable(ClientOf(t, row)) THEN "twofold" ELSE "row"

OutcomeOfFields(t, res) ==
    IF ~Raises(res) THEN OutcomeOfRow(t, res)
    ELSE IF FirstError(res) \in RejectErrors THEN "reject" ELSE "fatal"

\* The handler of a rejected message decodes the value once more, which a tombstone
\* does not survive; no handler names RecursionError.
Outcome(t, m) == CASE m \in {Tombstone, TooDeep} -> "fatal"
                   [] m = NotAnObject            -> "reject"
                   [] m = NulByte                -> "unrecordable"
                   [] OTHER                      -> OutcomeOfFields(t, Converted(t, m))
=============================================================================
