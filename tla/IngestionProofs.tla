---------------------------- MODULE IngestionProofs ----------------------------
(***************************************************************************)
(* Proofs about Ingestion, for messages with values of every size.  The      *)
(* lemmas are about one value, one field, one message in turn; they hold for  *)
(* messages with any number of spoilt fields.                                *)
(***************************************************************************)
EXTENDS Ingestion, TLAPS, WellFoundedInduction

Kinds == Strings \union {"number", "bool", "absent", "null", "nan", "inf",
                        "single", "single_null", "list"}
Json == {v \in [kind : Kinds, size : Nat] : v.kind \in {"absent", "null"} => v.size = 0}

-----------------------------------------------------------------------------
(***************************************************************************)
(* One value: what a converter makes of it.                                 *)
(***************************************************************************)
ToText   == {"req", "get", "upper", "opt_upper", "event_id", "device_id", "currency"}
ToNumber == {"int", "opt_int", "decimal", "opt_decimal", "decimal_or_0", "flag"}
ToDate   == {"date", "opt_date"}
ToTime   == {"datetime", "opt_datetime"}
ToNull   == {"get", "opt_upper", "opt_decimal", "opt_date", "opt_datetime", "device_id"}
Converters == ToText \union ToNumber \union ToDate \union ToTime

\* The columns that take what a converter makes of an ordinary value.
Suits(by, col) ==
    /\ by \in ToText   => col.type = "text"
    /\ by \in ToNumber => col.type = "number"
    /\ by \in ToDate   => col.type = "date"
    /\ by \in ToTime   => col.type = "datetime" /\ col.size >= 20
    /\ by \in ToNull   => col.null
    /\ by = "event_id" => col.size >= 36
    /\ by = "device_id" => col.size >= 32
    /\ by = "currency" => col.size >= 3
    /\ col.size \in Nat

\* Why a value that a converter has let through does not fit a column.
Unfit(by, v, col) ==
    \/ v.kind \in {"nan", "inf", "special", "list", "surrogate"}
    \/ v.size > col.size
    \/ by = "req" /\ v = Null
    \/ by \in {"req", "event_id"} /\ v.kind = "single_null"

\* Any set of sizes gives JSON values.
LEMMA ValuesAreJson == Values \subseteq Json
<1>1. [kind : {"text", "number"}, size : Sizes] \subseteq Json
  BY SizesAssumption DEF Json, Kinds, Strings
<1>2. [kind : {"numeral", "decimal", "single"}, size : Sizes \ {0}] \subseteq Json
  BY SizesAssumption DEF Json, Kinds, Strings
<1>3. [kind : {"bool"}, size : {0, 1}] \subseteq Json
  BY DEF Json, Kinds
<1>4. {Absent, Null, Val("single_null", 1), Val("list", 0), Val("list", 2),
       Val("nan", 1), Val("inf", 1), Val("special", 1), Val("flag", 1),
       Val("surrogate", 1), Val("date", 10), Val("datetime", 20), Val("datetime", 21)}
          \subseteq Json
  BY DEF Json, Kinds, Strings, Absent, Null, Val
<1> QED BY <1>1, <1>2, <1>3, <1>4 DEF Values

\* A value is known by its kind and its size.
LEMMA ValueOf ==
    ASSUME NEW v \in Json
    PROVE  /\ v.kind \in Kinds /\ v.size \in Nat
           /\ v.kind = "null" <=> v = Null
           /\ v.kind = "absent" <=> v = Absent
           /\ \A k, n : v = Val(k, n) <=> v.kind = k /\ v.size = n
  BY DEF Json, Val, Null, Absent

\* Val and Raise build what they say.
LEMMA ResultOf ==
    /\ \A k, n : Val(k, n).kind = k /\ Val(k, n).size = n
    /\ \A e : Raised(Raise(e)) /\ Raise(e).error = e
    /\ \A k, n : k # "raised" => ~Raised(Val(k, n))
  BY DEF Val, Raise, Raised

\* Every exception of a converter is named by a handler or by REJECT_ERRORS, but for one.
LEMMA ConversionErrors ==
    ASSUME NEW v \in Json, NEW by \in Converters, Raised(Convert(by, v))
    PROVE  \/ Convert(by, v).error \in RejectErrors
           \/ by \in {"int", "opt_int"} /\ v.kind = "inf"
<1>0. v.kind # "raised" /\ ~Raised(v) /\ ~Raised(Null) /\ ~Raised(Zero)
  BY DEF Json, Kinds, Strings, Raised, Null, Zero, Val
<1>1. CASE by \in ToText
  BY <1>0, <1>1, ResultOf DEF ToText, Convert, Req, Get, ReqUpper, OptUpper, EventId, DeviceId,
        Currency, RejectErrors
<1>2. CASE by \in ToNumber
  BY <1>0, <1>2, ResultOf DEF ToNumber, Convert, ReqInt, OptInt, ReqDecimal, OptDecimal,
        DecimalOrZero, Flag, RejectErrors
<1>3. CASE by \in ToDate \union ToTime
  BY <1>0, <1>3, ResultOf DEF ToDate, ToTime, Convert, ReqDate, OptDate, ReqDatetime,
        OptDatetime, RejectErrors
<1> QED BY <1>1, <1>2, <1>3 DEF Converters

\* What a column takes.
LEMMA FitsIf ==
    ASSUME NEW v, NEW col
    PROVE  /\ col.null => Fits(Null, col)
           /\ v.kind = "single_null" /\ col.null => Fits(v, col)
           /\ /\ v.kind \in StoredAs(col.type) /\ v.size <= col.size
              /\ v.kind \notin {"null", "single_null"}
              => Fits(v, col)
  BY DEF Fits, Null, Val

\* What the converters of strings return, when they do not raise.
LEMMA TextOf ==
    ASSUME NEW v \in Json, NEW by \in ToText, ~Raised(Convert(by, v))
    PROVE  \/ /\ Convert(by, v) = v /\ v # Null /\ v # Absent
              /\ v.kind = "single_null" => by \in {"req", "get", "event_id"}
           \/ Convert(by, v) = Null /\ by \in ToNull
           \/ Convert(by, v) = Null /\ by = "req" /\ v = Null
           \/ Convert(by, v) = Val("text", 36) /\ by = "event_id"
           \/ Convert(by, v) = Val("text", 32) /\ by = "device_id"
           \/ Convert(by, v) = Val("text", 3) /\ by = "currency"
<1>0. Absent # Null /\ Falsy(Absent) /\ Falsy(Null)
  BY DEF Absent, Null, Falsy, Val
<1>1. (v.kind = "null" <=> v = Null) /\ (v.kind = "absent" <=> v = Absent)
  BY ValueOf
<1>2. CASE by = "req"
  BY <1>0, <1>2, ResultOf DEF Convert, Req
<1>3. CASE by = "get"
  BY <1>0, <1>3 DEF Convert, Get, ToNull
<1>4. CASE by = "upper"
  BY <1>1, <1>4, ResultOf DEF Convert, ReqUpper, IsStr, Strings
<1>5. CASE by = "opt_upper"
  <2>1. Convert(by, v) = OptUpper(v)
    BY <1>5 DEF Convert
  <2>2. \/ OptUpper(v) = Null \/ OptUpper(v) = Raise("AttributeError")
        \/ OptUpper(v) = v /\ IsStr(v)
    BY DEF OptUpper
  <2>3. IsStr(v) => v # Null /\ v # Absent /\ v.kind # "single_null"
    BY <1>1 DEF IsStr, Strings
  <2> QED BY <1>5, <2>1, <2>2, <2>3, ResultOf DEF ToNull
<1>6. CASE by = "event_id"
  BY <1>0, <1>6 DEF Convert, EventId
<1>7. CASE by = "device_id"
  BY <1>7, ResultOf DEF Convert, DeviceId, ToNull
<1>8. CASE by = "currency"
  BY <1>1, <1>8, ResultOf DEF Convert, Currency, OptUpper, IsStr, Strings, NotGiven, ToNull
<1> QED BY <1>2, <1>3, <1>4, <1>5, <1>6, <1>7, <1>8 DEF ToText

\* What the converters of numbers return, when they do not raise.
LEMMA NumberOf ==
    ASSUME NEW v \in Json, NEW by \in ToNumber, ~Raised(Convert(by, v))
    PROVE  \/ Convert(by, v) = Null /\ by \in ToNull
           \/ Convert(by, v) = Zero
           \/ Convert(by, v) = Val("number", v.size)
           \/ v.kind \in {"nan", "inf", "special"}
<1>1. CASE by \in {"int", "opt_int"}
  BY <1>1, ResultOf DEF Convert, ReqInt, OptInt
<1>2. CASE by \in {"decimal", "opt_decimal", "decimal_or_0"}
  BY <1>2, ResultOf DEF Convert, ReqDecimal, OptDecimal, DecimalOrZero, ToNull
<1>3. CASE by = "flag"
  BY <1>3, ResultOf DEF Convert, Flag
<1> QED BY <1>1, <1>2, <1>3 DEF ToNumber

\* What the converters of dates return, when they do not raise.
LEMMA DateOf ==
    ASSUME NEW v \in Json, NEW by \in ToDate \union ToTime, ~Raised(Convert(by, v))
    PROVE  \/ Convert(by, v) = Null /\ by \in ToNull
           \/ Convert(by, v) = v /\ v.kind = "date" /\ by \in ToDate
           \/ Convert(by, v) = Val("datetime", 20) /\ by \in ToTime
           \/ Convert(by, v) = v /\ v.kind = "datetime" /\ by \in ToTime
<1>1. CASE by = "date"
  BY <1>1, ResultOf DEF Convert, ReqDate, ToDate
<1>2. CASE by = "opt_date"
  BY <1>2, ResultOf DEF Convert, ReqDate, OptDate, ToDate, ToNull
<1>3. CASE by = "datetime"
  BY <1>3, ResultOf DEF Convert, ReqDatetime, ToTime
<1>4. CASE by = "opt_datetime"
  BY <1>4, ResultOf DEF Convert, ReqDatetime, OptDatetime, ToTime, ToNull
<1> QED BY <1>1, <1>2, <1>3, <1>4 DEF ToDate, ToTime

\* What a converter lets through fits a column that suits it, unless there is a reason.
LEMMA ConvertedFits ==
    ASSUME NEW v \in Json, NEW by \in Converters, NEW col, Suits(by, col),
           ~Raised(Convert(by, v)), ~Unfit(by, v, col)
    PROVE  Fits(Convert(by, v), col)
<1>1. /\ v.kind \in Kinds /\ v.kind \notin {"nan", "inf", "special", "list", "surrogate"}
      /\ col.size \in Nat /\ v.size \in Nat
  BY ValueOf DEF Unfit, Suits
<1>2. v.size <= col.size
  BY <1>1 DEF Unfit
<1>3. /\ by = "req" => v # Null
      /\ by \in {"req", "event_id"} => v.kind # "single_null"
  BY DEF Unfit
<1>4. ASSUME NEW n \in Nat, n <= col.size, NEW k, k \in StoredAs(col.type),
             k \notin {"null", "single_null"}
      PROVE  Fits(Val(k, n), col)
  BY <1>4, FitsIf DEF Val
<1>5. CASE by \in ToText
  <2>1. /\ col.type = "text"
        /\ StoredAs("text") = (Strings \ {"surrogate"}) \union {"number", "bool", "single"}
    BY <1>5 DEF Suits, StoredAs
  <2>2. v # Null /\ v # Absent /\ (v.kind = "single_null" => by = "get") => Fits(v, col)
    <3>1. CASE v.kind = "single_null" /\ by = "get"
      BY <3>1, FitsIf DEF Suits, ToNull
    <3>2. CASE v # Null /\ v # Absent /\ v.kind # "single_null"
      BY <1>1, <1>2, <2>1, <3>2, ValueOf, FitsIf DEF Kinds
    <3> QED BY <3>1, <3>2
  <2>3. by \in ToNull => Fits(Null, col)
    BY FitsIf DEF Suits
  <2>4. /\ by = "event_id" => Fits(Val("text", 36), col)
        /\ by = "device_id" => Fits(Val("text", 32), col)
        /\ by = "currency" => Fits(Val("text", 3), col)
    BY <1>1, <1>4, <2>1 DEF Suits, Strings
  <2> QED BY <1>3, <1>5, <2>2, <2>3, <2>4, TextOf
<1>6. CASE by \in ToNumber
  <2>1. col.type = "number" /\ "number" \in StoredAs("number")
    BY <1>6 DEF Suits, StoredAs
  <2>2. Fits(Val("number", v.size), col) /\ Fits(Zero, col)
    BY <1>1, <1>2, <1>4, <2>1 DEF Zero
  <2>3. by \in ToNull => Fits(Null, col)
    BY FitsIf DEF Suits
  <2> QED BY <1>1, <1>6, <2>2, <2>3, NumberOf
<1>7. CASE by \in ToDate \union ToTime
  <2>1. v.kind = "date" /\ by \in ToDate => Fits(v, col)
    <3>1. ASSUME by \in ToDate PROVE "date" \in StoredAs(col.type)
      BY <3>1 DEF Suits, StoredAs
    <3> QED BY <1>2, <3>1, FitsIf
  <2>2. by \in ToTime => Fits(Val("datetime", 20), col)
    <3>1. ASSUME by \in ToTime PROVE 20 <= col.size /\ "datetime" \in StoredAs(col.type)
      BY <1>1, <3>1 DEF Suits, StoredAs
    <3> QED BY <1>4, <3>1
  <2>3. v.kind = "datetime" /\ by \in ToTime => Fits(v, col)
    <3>1. ASSUME by \in ToTime PROVE "datetime" \in StoredAs(col.type)
      BY <3>1 DEF Suits, StoredAs
    <3> QED BY <1>2, <3>1, FitsIf
  <2>4. by \in ToNull => Fits(Null, col)
    BY FitsIf DEF Suits
  <2> QED BY <1>7, <2>1, <2>2, <2>3, <2>4, DateOf
<1> QED BY <1>5, <1>6, <1>7 DEF Converters

-----------------------------------------------------------------------------
(***************************************************************************)
(* One field: transformer.py and 01_tidb_schema.sql agree about it.          *)
(***************************************************************************)
FieldSuits(f, columns) ==
    /\ f.by \in Converters /\ Suits(f.by, columns[f.name])
    /\ f.by = "req" => f.name \in Ids
    /\ f.by = "event_id" => f.name = "event_id"
    /\ f.by \in {"int", "opt_int"} => f.name \in IntegerFields
    /\ f.name = "client_id" => f.by = "req"

\* The pairs of a converter and a column that the four topics consist of.
LEMMA ColumnsSuit ==
    /\ \A n \in Nat : /\ Suits("req", Text(n)) /\ Suits("upper", Text(n))
                     /\ Suits("get", OrNull(Text(n))) /\ Suits("opt_upper", OrNull(Text(n)))
    /\ \A n \in Nat : /\ Suits("decimal", Number(n)) /\ Suits("int", Number(n))
                     /\ Suits("opt_decimal", OrNull(Number(n)))
                     /\ Suits("decimal_or_0", OrNull(Number(n)))
                     /\ Suits("opt_int", OrNull(Number(n))) /\ Suits("flag", OrNull(Number(n)))
    /\ Suits("event_id", Text(36)) /\ Suits("device_id", OrNull(Text(64)))
    /\ Suits("currency", Text(3))
    /\ Suits("date", Date) /\ Suits("opt_date", OrNull(Date))
    /\ Suits("datetime", Datetime) /\ Suits("opt_datetime", OrNull(Datetime))
<1> USE DEF Suits, ToText, ToNumber, ToDate, ToTime, ToNull
<1>1. ASSUME NEW n \in Nat
      PROVE  /\ Suits("req", Text(n)) /\ Suits("upper", Text(n))
             /\ Suits("get", OrNull(Text(n))) /\ Suits("opt_upper", OrNull(Text(n)))
  BY DEF Text, OrNull
<1>2. ASSUME NEW n \in Nat
      PROVE  /\ Suits("decimal", Number(n)) /\ Suits("int", Number(n))
             /\ Suits("opt_decimal", OrNull(Number(n)))
             /\ Suits("decimal_or_0", OrNull(Number(n)))
             /\ Suits("opt_int", OrNull(Number(n))) /\ Suits("flag", OrNull(Number(n)))
  BY DEF Number, OrNull
<1>3. /\ Suits("event_id", Text(36)) /\ Suits("device_id", OrNull(Text(64)))
      /\ Suits("currency", Text(3))
  BY DEF Text, OrNull
<1>4. Suits("date", Date) /\ Suits("opt_date", OrNull(Date))
  BY DEF Date, OrNull
<1>5. Suits("datetime", Datetime) /\ Suits("opt_datetime", OrNull(Datetime))
  BY DEF Datetime, OrNull
<1> HIDE DEF Suits
<1> QED BY <1>1, <1>2, <1>3, <1>4, <1>5

\* S(k): the column of the k-th field suits its converter; N(k): what its name tells.
LEMMA LoanApplicationSuits ==
    ASSUME NEW i \in DOMAIN LoanApplication
    PROVE  FieldSuits(LoanApplication[i], LoanApplicationColumns)
<1> DEFINE f(k) == LoanApplication[k]
           S(k) == /\ Suits(f(k).by, LoanApplicationColumns[f(k).name])
           N(k) == /\ f(k).by \in Converters
                   /\ f(k).by = "req" => f(k).name \in Ids
                   /\ f(k).by = "event_id" => f(k).name = "event_id"
                   /\ f(k).by \in {"int", "opt_int"} => f(k).name \in IntegerFields
                   /\ f(k).name = "client_id" => f(k).by = "req"
<1>1. S(1) /\ S(2) /\ S(3) /\ S(4) /\ S(5) /\ S(6) /\ S(7) /\ S(8) /\ S(9) /\ S(10)
      /\ S(11) /\ S(12) /\ S(13) /\ S(14) /\ S(15)
  BY ColumnsSuit DEF LoanApplication, LoanApplicationColumns, Field
<1>2. N(1) /\ N(2) /\ N(3) /\ N(4) /\ N(5) /\ N(6) /\ N(7) /\ N(8) /\ N(9) /\ N(10)
      /\ N(11) /\ N(12) /\ N(13) /\ N(14) /\ N(15)
  BY DEF LoanApplication, Field, Ids, IntegerFields, Converters, ToText, ToNumber, ToDate, ToTime
<1>3. i \in {1, 2, 3, 4, 5, 6, 7, 8, 9, 10, 11, 12, 13, 14, 15}
  BY DEF LoanApplication
<1>4. S(i) /\ N(i)
  <2> HIDE DEF S, N
  <2> QED BY <1>1, <1>2, <1>3
<1> QED BY <1>4 DEF FieldSuits

LEMMA LoanPaymentSuits ==
    ASSUME NEW i \in DOMAIN LoanPayment
    PROVE  FieldSuits(LoanPayment[i], LoanPaymentColumns)
<1> DEFINE f(k) == LoanPayment[k]
           S(k) == /\ Suits(f(k).by, LoanPaymentColumns[f(k).name])
           N(k) == /\ f(k).by \in Converters
                   /\ f(k).by = "req" => f(k).name \in Ids
                   /\ f(k).by = "event_id" => f(k).name = "event_id"
                   /\ f(k).by \in {"int", "opt_int"} => f(k).name \in IntegerFields
                   /\ f(k).name = "client_id" => f(k).by = "req"
<1>1. S(1) /\ S(2) /\ S(3) /\ S(4) /\ S(5) /\ S(6) /\ S(7) /\ S(8) /\ S(9) /\ S(10)
      /\ S(11) /\ S(12) /\ S(13)
  BY ColumnsSuit DEF LoanPayment, LoanPaymentColumns, Field
<1>2. N(1) /\ N(2) /\ N(3) /\ N(4) /\ N(5) /\ N(6) /\ N(7) /\ N(8) /\ N(9) /\ N(10)
      /\ N(11) /\ N(12) /\ N(13)
  BY DEF LoanPayment, Field, Ids, IntegerFields, Converters, ToText, ToNumber, ToDate, ToTime
<1>3. i \in {1, 2, 3, 4, 5, 6, 7, 8, 9, 10, 11, 12, 13}
  BY DEF LoanPayment
<1>4. S(i) /\ N(i)
  <2> HIDE DEF S, N
  <2> QED BY <1>1, <1>2, <1>3
<1> QED BY <1>4 DEF FieldSuits

LEMMA LoanOperationSuits ==
    ASSUME NEW i \in DOMAIN LoanOperation
    PROVE  FieldSuits(LoanOperation[i], LoanOperationColumns)
<1> DEFINE f(k) == LoanOperation[k]
           S(k) == /\ Suits(f(k).by, LoanOperationColumns[f(k).name])
           N(k) == /\ f(k).by \in Converters
                   /\ f(k).by = "req" => f(k).name \in Ids
                   /\ f(k).by = "event_id" => f(k).name = "event_id"
                   /\ f(k).by \in {"int", "opt_int"} => f(k).name \in IntegerFields
                   /\ f(k).name = "client_id" => f(k).by = "req"
<1>1. S(1) /\ S(2) /\ S(3) /\ S(4) /\ S(5) /\ S(6) /\ S(7) /\ S(8) /\ S(9) /\ S(10)
      /\ S(11)
  BY ColumnsSuit DEF LoanOperation, LoanOperationColumns, Field
<1>2. N(1) /\ N(2) /\ N(3) /\ N(4) /\ N(5) /\ N(6) /\ N(7) /\ N(8) /\ N(9) /\ N(10)
      /\ N(11)
  BY DEF LoanOperation, Field, Ids, IntegerFields, Converters, ToText, ToNumber, ToDate, ToTime
<1>3. i \in {1, 2, 3, 4, 5, 6, 7, 8, 9, 10, 11}
  BY DEF LoanOperation
<1>4. S(i) /\ N(i)
  <2> HIDE DEF S, N
  <2> QED BY <1>1, <1>2, <1>3
<1> QED BY <1>4 DEF FieldSuits

LEMMA ClientMoneySuits ==
    ASSUME NEW i \in DOMAIN ClientMoney
    PROVE  FieldSuits(ClientMoney[i], ClientMoneyColumns)
<1> DEFINE f(k) == ClientMoney[k]
           S(k) == /\ Suits(f(k).by, ClientMoneyColumns[f(k).name])
           N(k) == /\ f(k).by \in Converters
                   /\ f(k).by = "req" => f(k).name \in Ids
                   /\ f(k).by = "event_id" => f(k).name = "event_id"
                   /\ f(k).by \in {"int", "opt_int"} => f(k).name \in IntegerFields
                   /\ f(k).name = "client_id" => f(k).by = "req"
<1>1. S(1) /\ S(2) /\ S(3) /\ S(4) /\ S(5) /\ S(6) /\ S(7) /\ S(8) /\ S(9) /\ S(10)
      /\ S(11) /\ S(12)
  BY ColumnsSuit DEF ClientMoney, ClientMoneyColumns, Field
<1>2. N(1) /\ N(2) /\ N(3) /\ N(4) /\ N(5) /\ N(6) /\ N(7) /\ N(8) /\ N(9) /\ N(10)
      /\ N(11) /\ N(12)
  BY DEF ClientMoney, Field, Ids, IntegerFields, Converters, ToText, ToNumber, ToDate, ToTime
<1>3. i \in {1, 2, 3, 4, 5, 6, 7, 8, 9, 10, 11, 12}
  BY DEF ClientMoney
<1>4. S(i) /\ N(i)
  <2> HIDE DEF S, N
  <2> QED BY <1>1, <1>2, <1>3
<1> QED BY <1>4 DEF FieldSuits

\* What holds of each field of each topic.
LEMMA FieldFacts ==
    ASSUME NEW t \in Topics, NEW i \in DOMAIN Fields[t]
    PROVE  FieldSuits(Fields[t][i], Columns[t]) /\ Fields[t][i].name \in FieldNames(t)
<1>1. CASE t = "loan-applications"
  BY <1>1, LoanApplicationSuits DEF Fields, Columns, FieldNames, Topics
<1>2. CASE t = "loan-payments"
  BY <1>2, LoanPaymentSuits DEF Fields, Columns, FieldNames, Topics
<1>3. CASE t = "loan-operations"
  BY <1>3, LoanOperationSuits DEF Fields, Columns, FieldNames, Topics
<1>4. CASE t = "client-money"
  BY <1>4, ClientMoneySuits DEF Fields, Columns, FieldNames, Topics
<1> QED BY <1>1, <1>2, <1>3, <1>4 DEF Topics

\* Every topic has a client.
LEMMA ClientIsAField ==
    ASSUME NEW t \in Topics
    PROVE  /\ DOMAIN Fields[t] \subseteq Nat
           /\ \E i \in DOMAIN Fields[t] : Fields[t][i].name = "client_id"
<1>1. CASE t = "loan-applications"
  <2>1. LoanApplication[2].name = "client_id" /\ DOMAIN LoanApplication = 1..15
    BY DEF LoanApplication, Field
  <2> QED BY <1>1, <2>1 DEF Fields, Topics
<1>2. CASE t = "loan-payments"
  <2>1. LoanPayment[2].name = "client_id" /\ DOMAIN LoanPayment = 1..13
    BY DEF LoanPayment, Field
  <2> QED BY <1>2, <2>1 DEF Fields, Topics
<1>3. CASE t = "loan-operations"
  <2>1. LoanOperation[2].name = "client_id" /\ DOMAIN LoanOperation = 1..11
    BY DEF LoanOperation, Field
  <2> QED BY <1>3, <2>1 DEF Fields, Topics
<1>4. CASE t = "client-money"
  <2>1. ClientMoney[2].name = "client_id" /\ DOMAIN ClientMoney = 1..12
    BY DEF ClientMoney, Field
  <2> QED BY <1>4, <2>1 DEF Fields, Topics
<1> QED BY <1>1, <1>2, <1>3, <1>4 DEF Topics

-----------------------------------------------------------------------------
(***************************************************************************)
(* One message, whatever its fields hold.                                   *)
(***************************************************************************)
IsMessage(t, m) == FieldNames(t) \subseteq DOMAIN m /\ \A f \in FieldNames(t) : m[f] \in Json

\* A message with fields is none of the others.
LEMMA MessageHasFields ==
    ASSUME NEW t \in Topics, NEW m, IsMessage(t, m)
    PROVE  m \notin {Tombstone, TooDeep, NotAnObject, NulByte, NoMessage}
<1>1. "client_id" \in DOMAIN m
  BY ClientIsAField DEF IsMessage, FieldNames
<1>2. /\ DOMAIN Tombstone = {"kind", "size"} /\ DOMAIN NotAnObject = {"kind", "size"}
      /\ DOMAIN NoMessage = {"kind", "size"} /\ DOMAIN TooDeep = {"kind", "size"}
      /\ DOMAIN NulByte = {"kind", "size"}
  BY DEF Tombstone, TooDeep, NotAnObject, NulByte, NoMessage, Val
<1> QED BY <1>1, <1>2

\* A set of positions has a first one.
LEMMA FirstOfSome ==
    ASSUME NEW S, S \subseteq Nat, S # {}
    PROVE  Min(S) \in S
<1> DEFINE less == OpToRel(<, Nat)
<1>1. IsWellFoundedOn(less, Nat)
  BY NatLessThanWellFounded
<1>2. ASSUME NEW y \in Nat, NEW x \in Nat, y < x PROVE <<y, x>> \in less
  BY <1>2, Zenon DEF OpToRel
<1> HIDE DEF less
<1>3. PICK x \in S : \A y \in S : ~(<<y, x>> \in less)
  BY <1>1, WFMin
<1>4. ASSUME NEW y \in S PROVE x <= y
  <2>1. ~(y < x)
    BY <1>2, <1>3
  <2> QED BY <2>1
<1> QED BY <1>4 DEF Min

\* When the fields of a message are looked at, whatever they hold, only an infinite integer
\* ends the process: each other error of a conversion is caught under some name.
THEOREM FatalReason ==
    ASSUME NEW t \in Topics, NEW m, IsMessage(t, m), Outcome(t, m) = "fatal"
    PROVE  \E f \in FieldNames(t) \cap IntegerFields : m[f].kind = "inf"
<1> DEFINE res == Converted(t, m)
           failed == {i \in DOMAIN res : Raised(res[i])}
<1>1. Outcome(t, m) = OutcomeOfFields(t, res)
  BY MessageHasFields DEF Outcome
<1>2. Raises(res) /\ FirstError(res) \notin RejectErrors
  BY <1>1 DEF OutcomeOfFields, OutcomeOfRow
<1>3. failed # {} /\ failed \subseteq Nat
  BY <1>2, ClientIsAField DEF Raises, Converted
<1>4. PICK i \in DOMAIN Fields[t] : Raised(res[i]) /\ res[i].error \notin RejectErrors
  <2>1. Min(failed) \in failed
    BY <1>3, FirstOfSome
  <2> QED BY <1>2, <2>1 DEF FirstError, Converted
<1> DEFINE f == Fields[t][i]
<1>5. res[i] = Convert(f.by, m[f.name])
  BY DEF Converted
<1>6. m[f.name] \in Json /\ f.by \in Converters /\ f.name \in FieldNames(t)
  BY FieldFacts DEF IsMessage, FieldSuits
<1>7. f.by \in {"int", "opt_int"} /\ m[f.name].kind = "inf"
  BY <1>4, <1>5, <1>6, ConversionErrors
<1>8. f.name \in IntegerFields
  BY <1>7, FieldFacts DEF FieldSuits
<1> QED BY <1>6, <1>7, <1>8

\* What TiDB refuses has a field that shows why.
THEOREM UnstorableReason ==
    ASSUME NEW t \in Topics, NEW m, IsMessage(t, m), Outcome(t, m) = "unstorable"
    PROVE  \E f \in FieldNames(t) :
               \/ m[f].kind \in {"nan", "inf", "special", "list", "surrogate"}
               \/ m[f].size > Columns[t][f].size
               \/ f \in Ids /\ m[f] = Null
               \/ f \in Ids \union {"event_id"} /\ m[f].kind = "single_null"
<1> DEFINE res == Converted(t, m)
<1>1. Outcome(t, m) = OutcomeOfFields(t, res)
  BY MessageHasFields DEF Outcome
<1>2. ~Raises(res) /\ Refused(t, res)
  BY <1>1 DEF OutcomeOfFields, OutcomeOfRow
<1>3. PICK i \in DOMAIN Fields[t] :
          ~Raised(res[i]) /\ ~Fits(res[i], Columns[t][Fields[t][i].name])
  BY <1>2 DEF Raises, Refused, Converted
<1> DEFINE f == Fields[t][i]
<1>4. res[i] = Convert(f.by, m[f.name])
  BY DEF Converted
<1>5. /\ m[f.name] \in Json /\ f.by \in Converters /\ f.name \in FieldNames(t)
      /\ Suits(f.by, Columns[t][f.name])
  BY FieldFacts DEF IsMessage, FieldSuits
<1>6. Unfit(f.by, m[f.name], Columns[t][f.name])
  BY <1>3, <1>4, <1>5, ConvertedFits
<1>7. (f.by = "req" => f.name \in Ids) /\ (f.by = "event_id" => f.name = "event_id")
  BY FieldFacts DEF FieldSuits
<1> QED BY <1>5, <1>6, <1>7 DEF Unfit

\* The field of the client.
LEMMA ClientField ==
    ASSUME NEW t \in Topics, NEW m
    PROVE  \E i \in DOMAIN Fields[t] :
               /\ Fields[t][i].name = "client_id" /\ Fields[t][i].by = "req"
               /\ ClientOf(t, Converted(t, m)) = Converted(t, m)[i]
<1> DEFINE c == CHOOSE i \in DOMAIN Converted(t, m) : Fields[t][i].name = "client_id"
<1>1. c \in DOMAIN Fields[t] /\ Fields[t][c].name = "client_id"
  BY ClientIsAField DEF Converted
<1>2. Fields[t][c].by = "req"
  BY <1>1, FieldFacts DEF FieldSuits
<1> QED BY <1>1, <1>2 DEF ClientOf

\* A message that is both stored and dead-lettered has a list of one thing for a client, a
\* string or a number at whatever depth: nothing else that cannot be hashed gets into a row
\* that TiDB takes, as client_id is NOT NULL.
THEOREM TwofoldReason ==
    ASSUME NEW t \in Topics, NEW m, IsMessage(t, m), Outcome(t, m) = "twofold"
    PROVE  m["client_id"].kind = "single"
<1> DEFINE res == Converted(t, m)
           v == m["client_id"]
           col == Columns[t]["client_id"]
<1>1. Outcome(t, m) = OutcomeOfFields(t, res)
  BY MessageHasFields DEF Outcome
<1>2. ~Raises(res) /\ ~Refused(t, res) /\ Unhashable(ClientOf(t, res))
  BY <1>1 DEF OutcomeOfFields, OutcomeOfRow
<1>3. PICK i \in DOMAIN Fields[t] :
          Fields[t][i].name = "client_id" /\ Fields[t][i].by = "req" /\ ClientOf(t, res) = res[i]
  BY ClientField
<1>4. res[i] = Convert("req", v) /\ ~Raised(res[i]) /\ Fits(res[i], col)
  BY <1>2, <1>3 DEF Raises, Refused, Converted
<1>5. Convert("req", v) = v
  BY <1>4, ResultOf DEF Convert, Req
<1>6. v.kind \in {"single", "single_null", "list"}
  BY <1>2, <1>3, <1>4, <1>5 DEF Unhashable
<1>7. col.type = "text" /\ ~col.null
  <2>1. col = Text(20)
    BY DEF Topics, Columns, LoanApplicationColumns, LoanPaymentColumns, LoanOperationColumns,
       ClientMoneyColumns
  <2> QED BY <2>1 DEF Text
<1>8. v.kind \in StoredAs("text")
  BY <1>4, <1>5, <1>6, <1>7 DEF Fits
<1> QED BY <1>6, <1>8 DEF StoredAs, Strings

-----------------------------------------------------------------------------
(***************************************************************************)
(* The generator: every field of every event passes.                        *)
(***************************************************************************)
Passes(by, v, col) == /\ v \in Json /\ ~Raised(Convert(by, v))
                      /\ Fits(Convert(by, v), col)

\* The values of the generator are JSON values.
LEMMA GeneratedJson ==
    /\ \A n \in Nat : T(n) \in Json /\ D(n) \in Json
    /\ Null \in Json /\ Zero \in Json /\ Day \in Json /\ Time \in Json
    /\ Val("bool", 0) \in Json /\ Val("bool", 1) \in Json
  BY DEF T, D, Null, Zero, Day, Time, Val, Json, Kinds, Strings

\* Strings of the generator.
LEMMA TextPasses ==
    /\ \A n, k \in Nat : n <= k => Passes("req", T(n), Text(k))
    /\ \A n, k \in Nat : n <= k => Passes("upper", T(n), Text(k))
    /\ \A n, k \in Nat : n <= k => Passes("get", T(n), OrNull(Text(k)))
    /\ \A n, k \in Nat : n <= k => Passes("opt_upper", T(n), OrNull(Text(k)))
    /\ \A k \in Nat : Passes("get", Null, OrNull(Text(k)))
<1> SUFFICES ASSUME NEW n \in Nat, NEW k \in Nat, n <= k
             PROVE  /\ Passes("req", T(n), Text(k)) /\ Passes("upper", T(n), Text(k))
                    /\ Passes("get", T(n), OrNull(Text(k)))
                    /\ Passes("opt_upper", T(n), OrNull(Text(k)))
                    /\ Passes("get", Null, OrNull(Text(k)))
  OBVIOUS
<1> DEFINE c == Text(k)
           d == OrNull(Text(k))
<1>1. /\ c.type = "text" /\ d.type = "text" /\ c.size = k /\ d.size = k /\ d.null = TRUE
      /\ T(n).kind = "text" /\ T(n).size = n
  BY DEF Text, OrNull, T, Val
<1>2. Fits(T(n), c) /\ Fits(T(n), d) /\ Fits(Null, d)
  <2>1. "text" \in StoredAs("text")
    BY DEF StoredAs, Strings
  <2> QED BY <1>1, <2>1, FitsIf
<1>3. /\ Convert("req", T(n)) = T(n) /\ Convert("upper", T(n)) = T(n)
      /\ Convert("get", T(n)) = T(n) /\ Convert("get", Null) = Null
      /\ Convert("opt_upper", T(n)) \in {T(n), Null}
  BY <1>1 DEF Convert, Req, Get, ReqUpper, OptUpper, IsStr, Strings, T, Null, Absent, Val,
     NotGiven, EmptyStr
<1>4. ~Raised(T(n)) /\ ~Raised(Null)
  BY DEF Raised, T, Null, Val
<1> HIDE DEF c, d
<1>5. /\ Passes("req", T(n), c) /\ Passes("upper", T(n), c)
      /\ Passes("get", T(n), d) /\ Passes("opt_upper", T(n), d) /\ Passes("get", Null, d)
  BY <1>2, <1>3, <1>4, GeneratedJson DEF Passes
<1> QED BY <1>5 DEF c, d

\* Its numbers.
LEMMA NumberPasses ==
    /\ \A n, k \in Nat : n <= k => Passes("decimal", D(n), Number(k))
    /\ \A n, k \in Nat : n <= k => Passes("int", D(n), Number(k))
    /\ \A n, k \in Nat : n <= k => Passes("opt_decimal", D(n), OrNull(Number(k)))
    /\ \A n, k \in Nat : n <= k => Passes("decimal_or_0", D(n), OrNull(Number(k)))
    /\ \A n, k \in Nat : n <= k => Passes("opt_int", D(n), OrNull(Number(k)))
    /\ \A k \in Nat : Passes("opt_decimal", Null, OrNull(Number(k)))
<1> SUFFICES ASSUME NEW n \in Nat, NEW k \in Nat, n <= k
             PROVE  /\ Passes("decimal", D(n), Number(k)) /\ Passes("int", D(n), Number(k))
                    /\ Passes("opt_decimal", D(n), OrNull(Number(k)))
                    /\ Passes("decimal_or_0", D(n), OrNull(Number(k)))
                    /\ Passes("opt_int", D(n), OrNull(Number(k)))
                    /\ Passes("opt_decimal", Null, OrNull(Number(k)))
  OBVIOUS
<1> DEFINE c == Number(k)
           d == OrNull(Number(k))
<1>1. /\ c.type = "number" /\ d.type = "number" /\ c.size = k /\ d.size = k /\ d.null = TRUE
      /\ D(n).kind = "number" /\ D(n).size = n
  BY DEF Number, OrNull, D, Val
<1>2. Fits(D(n), c) /\ Fits(D(n), d) /\ Fits(Null, d)
  <2>1. "number" \in StoredAs("number")
    BY DEF StoredAs
  <2> QED BY <1>1, <2>1, FitsIf
<1>3. /\ Convert("decimal", D(n)) = D(n) /\ Convert("int", D(n)) = D(n)
      /\ Convert("opt_decimal", D(n)) = D(n) /\ Convert("decimal_or_0", D(n)) = D(n)
      /\ Convert("opt_int", D(n)) = D(n) /\ Convert("opt_decimal", Null) = Null
  BY DEF Convert, ReqDecimal, ReqInt, OptDecimal, OptInt, DecimalOrZero, NotGiven, D, Null, Val
<1>4. ~Raised(D(n)) /\ ~Raised(Null)
  BY DEF Raised, D, Null, Val
<1> HIDE DEF c, d
<1>5. /\ Passes("decimal", D(n), c) /\ Passes("int", D(n), c)
      /\ Passes("opt_decimal", D(n), d) /\ Passes("decimal_or_0", D(n), d)
      /\ Passes("opt_int", D(n), d) /\ Passes("opt_decimal", Null, d)
  BY <1>2, <1>3, <1>4, GeneratedJson DEF Passes
<1> QED BY <1>5 DEF c, d

\* Its dates, identifiers and flags.
LEMMA OthersPass ==
    /\ Passes("date", Day, Date) /\ Passes("opt_date", Day, OrNull(Date))
    /\ Passes("opt_date", Null, OrNull(Date))
    /\ Passes("datetime", Time, Datetime) /\ Passes("opt_datetime", Time, OrNull(Datetime))
    /\ Passes("opt_datetime", Null, OrNull(Datetime))
    /\ Passes("event_id", T(36), Text(36)) /\ Passes("device_id", T(36), OrNull(Text(64)))
    /\ Passes("currency", T(3), Text(3))
    /\ Passes("flag", Val("bool", 0), OrNull(Number(2)))
    /\ Passes("flag", Val("bool", 1), OrNull(Number(2)))
<1>1. Passes("date", Day, Date) /\ Passes("opt_date", Day, OrNull(Date))
  BY GeneratedJson DEF Passes, Day, Date, OrNull, Val, Convert, ReqDate, OptDate, NotGiven,
     EmptyStr, Raised, Fits, StoredAs, Null
<1>2. Passes("opt_date", Null, OrNull(Date)) /\ Passes("opt_datetime", Null, OrNull(Datetime))
  BY GeneratedJson DEF Passes, Date, Datetime, OrNull, Val, Convert, OptDate, OptDatetime,
     NotGiven, Raised, Fits, Null
<1>3. Passes("datetime", Time, Datetime) /\ Passes("opt_datetime", Time, OrNull(Datetime))
  BY GeneratedJson DEF Passes, Time, Datetime, OrNull, Val, Convert, ReqDatetime, OptDatetime,
     NotGiven, Raised, Fits, StoredAs, Strings, Null
<1>4. Passes("event_id", T(36), Text(36)) /\ Passes("device_id", T(36), OrNull(Text(64)))
  BY GeneratedJson DEF Passes, T, Text, OrNull, Val, Convert, EventId, DeviceId, Falsy,
     NotGiven, Raised, Fits, StoredAs, Strings, Null
<1>5. Passes("currency", T(3), Text(3))
  BY GeneratedJson DEF Passes, T, Text, Val, Convert, Currency, OptUpper, IsStr, EmptyStr,
     NotGiven, Raised, Fits, StoredAs, Strings, Null
<1>6. /\ Passes("flag", Val("bool", 0), OrNull(Number(2)))
      /\ Passes("flag", Val("bool", 1), OrNull(Number(2)))
  BY GeneratedJson DEF Passes, Number, OrNull, Val, Convert, Flag, Raised, Fits, StoredAs, Null
<1> QED BY <1>1, <1>2, <1>3, <1>4, <1>5, <1>6

\* A field of a message that is there and passes.
FieldPasses(f, m, columns) == /\ f.name \in DOMAIN m
                              /\ Passes(f.by, m[f.name], columns[f.name])

\* Each field of a generated loan application is there, N(k), and passes, S(k).
LEMMA ApplicationPasses ==
    ASSUME NEW a \in BOOLEAN, NEW r \in BOOLEAN, NEW d \in BOOLEAN, NEW p \in {T(11), Null},
           NEW i \in DOMAIN LoanApplication
    PROVE  FieldPasses(LoanApplication[i], Application(a, r, d, p), LoanApplicationColumns)
<1> DEFINE f(k) == LoanApplication[k]
           m == Application(a, r, d, p)
           S(k) == Passes(f(k).by, m[f(k).name], LoanApplicationColumns[f(k).name])
           N(k) == f(k).name \in DOMAIN m
<1>0. Zero = D(0)
  BY DEF Zero, D
<1>1. S(1) /\ S(2) /\ S(3) /\ S(4) /\ S(5) /\ S(6) /\ S(7) /\ S(8) /\ S(9) /\ S(10)
      /\ S(11) /\ S(12) /\ S(13) /\ S(14) /\ S(15)
  BY <1>0, TextPasses, NumberPasses, OthersPass
     DEF LoanApplication, LoanApplicationColumns, Field, Application
<1>2. N(1) /\ N(2) /\ N(3) /\ N(4) /\ N(5) /\ N(6) /\ N(7) /\ N(8) /\ N(9) /\ N(10)
      /\ N(11) /\ N(12) /\ N(13) /\ N(14) /\ N(15)
  BY DEF LoanApplication, Field, Application
<1>3. i \in {1, 2, 3, 4, 5, 6, 7, 8, 9, 10, 11, 12, 13, 14, 15}
  BY DEF LoanApplication
<1>4. S(i) /\ N(i)
  <2> HIDE DEF S, N
  <2> QED BY <1>1, <1>2, <1>3
<1> QED BY <1>4 DEF FieldPasses

\* Each field of a generated payment is there, N(k), and passes, S(k).
LEMMA PaymentPasses ==
    ASSUME NEW a \in BOOLEAN, NEW l \in BOOLEAN, NEW i \in DOMAIN LoanPayment
    PROVE  FieldPasses(LoanPayment[i], Payment(a, l), LoanPaymentColumns)
<1> DEFINE f(k) == LoanPayment[k]
           m == Payment(a, l)
           S(k) == Passes(f(k).by, m[f(k).name], LoanPaymentColumns[f(k).name])
           N(k) == f(k).name \in DOMAIN m
<1>0. Zero = D(0)
  BY DEF Zero, D
<1>1. S(1) /\ S(2) /\ S(3) /\ S(4) /\ S(5) /\ S(6) /\ S(7) /\ S(8) /\ S(9) /\ S(10)
      /\ S(11) /\ S(12) /\ S(13)
  BY <1>0, TextPasses, NumberPasses, OthersPass
     DEF LoanPayment, LoanPaymentColumns, Field, Payment
<1>2. N(1) /\ N(2) /\ N(3) /\ N(4) /\ N(5) /\ N(6) /\ N(7) /\ N(8) /\ N(9) /\ N(10)
      /\ N(11) /\ N(12) /\ N(13)
  BY DEF LoanPayment, Field, Payment
<1>3. i \in {1, 2, 3, 4, 5, 6, 7, 8, 9, 10, 11, 12, 13}
  BY DEF LoanPayment
<1>4. S(i) /\ N(i)
  <2> HIDE DEF S, N
  <2> QED BY <1>1, <1>2, <1>3
<1> QED BY <1>4 DEF FieldPasses

\* Each field of a generated operation on a loan is there, N(k), and passes, S(k).
LEMMA OperationPasses ==
    ASSUME NEW s \in BOOLEAN, NEW i \in DOMAIN LoanOperation
    PROVE  FieldPasses(LoanOperation[i], Operation(s), LoanOperationColumns)
<1> DEFINE f(k) == LoanOperation[k]
           m == Operation(s)
           S(k) == Passes(f(k).by, m[f(k).name], LoanOperationColumns[f(k).name])
           N(k) == f(k).name \in DOMAIN m
<1>0. Zero = D(0)
  BY DEF Zero, D
<1>1. S(1) /\ S(2) /\ S(3) /\ S(4) /\ S(5) /\ S(6) /\ S(7) /\ S(8) /\ S(9) /\ S(10)
      /\ S(11)
  BY <1>0, TextPasses, NumberPasses, OthersPass
     DEF LoanOperation, LoanOperationColumns, Field, Operation
<1>2. N(1) /\ N(2) /\ N(3) /\ N(4) /\ N(5) /\ N(6) /\ N(7) /\ N(8) /\ N(9) /\ N(10)
      /\ N(11)
  BY DEF LoanOperation, Field, Operation
<1>3. i \in {1, 2, 3, 4, 5, 6, 7, 8, 9, 10, 11}
  BY DEF LoanOperation
<1>4. S(i) /\ N(i)
  <2> HIDE DEF S, N
  <2> QED BY <1>1, <1>2, <1>3
<1> QED BY <1>4 DEF FieldPasses

\* Each field of a generated movement of money is there, N(k), and passes, S(k).
LEMMA MoneyPasses ==
    ASSUME NEW a \in BOOLEAN, NEW e \in BOOLEAN, NEW b \in {D(7), Zero},
           NEW i \in DOMAIN ClientMoney
    PROVE  FieldPasses(ClientMoney[i], Money(a, e, b), ClientMoneyColumns)
<1> DEFINE f(k) == ClientMoney[k]
           m == Money(a, e, b)
           S(k) == Passes(f(k).by, m[f(k).name], ClientMoneyColumns[f(k).name])
           N(k) == f(k).name \in DOMAIN m
<1>0. Zero = D(0)
  BY DEF Zero, D
<1>1. S(1) /\ S(2) /\ S(3) /\ S(4) /\ S(5) /\ S(6) /\ S(7) /\ S(8) /\ S(9) /\ S(10)
      /\ S(11) /\ S(12)
  BY <1>0, TextPasses, NumberPasses, OthersPass
     DEF ClientMoney, ClientMoneyColumns, Field, Money
<1>2. N(1) /\ N(2) /\ N(3) /\ N(4) /\ N(5) /\ N(6) /\ N(7) /\ N(8) /\ N(9) /\ N(10)
      /\ N(11) /\ N(12)
  BY DEF ClientMoney, Field, Money
<1>3. i \in {1, 2, 3, 4, 5, 6, 7, 8, 9, 10, 11, 12}
  BY DEF ClientMoney
<1>4. S(i) /\ N(i)
  <2> HIDE DEF S, N
  <2> QED BY <1>1, <1>2, <1>3
<1> QED BY <1>4 DEF FieldPasses

\* Each event of the generator passes, field by field.
LEMMA GeneratedPasses ==
    ASSUME NEW t \in Topics, NEW m \in Generated[t], NEW i \in DOMAIN Fields[t]
    PROVE  FieldPasses(Fields[t][i], m, Columns[t])
<1>1. CASE t = "loan-applications"
  <2>1. PICK s \in {"APPROVED", "REJECTED", "PENDING", "CANCELLED"}, p \in {T(11), Null} :
            m = Application(s = "APPROVED", s = "REJECTED", s # "PENDING", p)
    BY <1>1 DEF Generated, Topics
  <2> QED BY <1>1, <2>1, ApplicationPasses DEF Fields, Columns, Topics
<1>2. CASE t = "loan-payments"
  <2>1. Generated[t] = {Payment(FALSE, FALSE), Payment(FALSE, TRUE), Payment(TRUE, FALSE)}
    BY <1>2 DEF Generated, Topics
  <2>2. PICK a \in BOOLEAN, l \in BOOLEAN : m = Payment(a, l)
    BY <2>1
  <2> QED BY <1>2, <2>2, PaymentPasses DEF Fields, Columns, Topics
<1>3. CASE t = "loan-operations"
  <2>1. PICK s \in BOOLEAN : m = Operation(s)
    BY <1>3 DEF Generated, Topics
  <2> QED BY <1>3, <2>1, OperationPasses DEF Fields, Columns, Topics
<1>4. CASE t = "client-money"
  <2>1. Generated[t] = {Money(FALSE, TRUE, D(7)), Money(FALSE, FALSE, D(7)),
                        Money(FALSE, FALSE, Zero), Money(TRUE, FALSE, D(7)),
                        Money(TRUE, FALSE, Zero)}
    BY <1>4 DEF Generated, Topics
  <2>2. PICK a \in BOOLEAN, e \in BOOLEAN, b \in {D(7), Zero} : m = Money(a, e, b)
    BY <2>1
  <2> QED BY <1>4, <2>2, MoneyPasses DEF Fields, Columns, Topics
<1> QED BY <1>1, <1>2, <1>3, <1>4 DEF Topics

\* So each of its events is a message.
LEMMA GeneratedIsMessage ==
    ASSUME NEW t \in Topics, NEW m \in Generated[t]
    PROVE  IsMessage(t, m)
  BY GeneratedPasses DEF FieldPasses, Passes, IsMessage, FieldNames

\* Its client is a string.
LEMMA GeneratedClient ==
    ASSUME NEW t \in Topics, NEW m \in Generated[t]
    PROVE  m["client_id"] = T(12)
<1>1. CASE t = "loan-applications"
  BY <1>1 DEF Generated, Topics, Application
<1>2. CASE t = "loan-payments"
  BY <1>2 DEF Generated, Topics, Payment
<1>3. CASE t = "loan-operations"
  BY <1>3 DEF Generated, Topics, Operation
<1>4. CASE t = "client-money"
  BY <1>4 DEF Generated, Topics, Money
<1> QED BY <1>1, <1>2, <1>3, <1>4 DEF Topics

\* What the generator sends becomes a row.
THEOREM GeneratedIsStored ==
    ASSUME NEW t \in Topics, NEW m \in Generated[t]
    PROVE  Outcome(t, m) = "row"
<1> DEFINE res == Converted(t, m)
<1>1. Outcome(t, m) = OutcomeOfFields(t, res)
  BY GeneratedIsMessage, MessageHasFields DEF Outcome
<1>2. \A i \in DOMAIN Fields[t] :
          /\ res[i] = Convert(Fields[t][i].by, m[Fields[t][i].name])
          /\ ~Raised(res[i]) /\ Fits(res[i], Columns[t][Fields[t][i].name])
  BY GeneratedPasses DEF Converted, FieldPasses, Passes
<1>3. ~Raises(res) /\ ~Refused(t, res)
  BY <1>2 DEF Raises, Refused, Converted
<1>4. ~Unhashable(ClientOf(t, res))
  <2>1. PICK i \in DOMAIN Fields[t] :
            /\ Fields[t][i].name = "client_id" /\ Fields[t][i].by = "req"
            /\ ClientOf(t, res) = res[i]
    BY ClientField
  <2>2. ClientOf(t, res) = Convert("req", T(12))
    BY <1>2, <2>1, GeneratedClient
  <2>3. Convert("req", T(12)) = T(12)
    BY DEF Convert, Req, T, Absent, Val
  <2> QED BY <2>2, <2>3 DEF Unhashable, T, Val
<1> QED BY <1>1, <1>3, <1>4 DEF OutcomeOfFields, OutcomeOfRow

\* Spoilt messages are messages, whatever the fields hold.
LEMMA SpoiltIsMessage ==
    ASSUME NEW t \in Topics, NEW f \in FieldNames(t), NEW g \in FieldNames(t),
           NEW v \in Values, NEW w \in Values
    PROVE  IsMessage(t, Spoilt(Good(t), f, v, g, w))
<1>1. \E m : m \in Generated[t]
  <2>1. CASE t = "loan-applications"
    <3>1. Application("PENDING" = "APPROVED", "PENDING" = "REJECTED", "PENDING" # "PENDING", Null)
              \in Generated[t]
      BY <2>1 DEF Generated, Topics
    <3> QED BY <3>1
  <2>2. CASE t = "loan-payments"
    <3>1. Payment(FALSE, FALSE) \in Generated[t]
      BY <2>2 DEF Generated, Topics
    <3> QED BY <3>1
  <2>3. CASE t = "loan-operations"
    <3>1. Generated[t] = {Operation(s) : s \in BOOLEAN}
      BY <2>3 DEF Generated, Topics
    <3>2. Operation(FALSE) \in Generated[t]
      BY <3>1
    <3> QED BY <3>2
  <2>4. CASE t = "client-money"
    <3>1. Money(FALSE, TRUE, D(7)) \in Generated[t]
      BY <2>4 DEF Generated, Topics
    <3> QED BY <3>1
  <2> QED BY <2>1, <2>2, <2>3, <2>4 DEF Topics
<1>2. Good(t) \in Generated[t]
  BY <1>1 DEF Good
<1>3. IsMessage(t, Good(t))
  BY <1>2, GeneratedIsMessage
<1> QED BY <1>3, ValuesAreJson DEF IsMessage, Spoilt

-----------------------------------------------------------------------------
(***************************************************************************)
(* The inductive invariant: what is on its way is a message of its topic, and *)
(* an outcome is the one the message has.                                   *)
(***************************************************************************)
Settled == outcome \in {"pending", Outcome(topic, message)}
IInv ==
    /\ topic \in Topics
    /\ \/ source = "none" /\ message = NoMessage /\ outcome = "none"
       \/ /\ source \in {"generator", "other"} /\ Settled
          /\ message \in {NotAnObject, Tombstone, TooDeep, NulByte} \/ IsMessage(topic, message)
          /\ source = "generator" => message \in Generated[topic]

\* What can become of a message.
LEMMA OutcomeOf ==
    ASSUME NEW t \in Topics, NEW m
    PROVE  /\ Outcome(t, m) \in {"row", "unstorable", "reject", "unrecordable", "twofold", "fatal"}
           /\ Outcome(t, NotAnObject) = "reject" /\ Outcome(t, NulByte) = "unrecordable"
           /\ Outcome(t, Tombstone) = "fatal" /\ Outcome(t, TooDeep) = "fatal"
<1>1. /\ Tombstone # NotAnObject /\ TooDeep # NotAnObject /\ NulByte # NotAnObject
      /\ Tombstone # NulByte /\ TooDeep # NulByte
  BY DEF Tombstone, TooDeep, NotAnObject, NulByte, Val
<1> QED BY <1>1 DEF Outcome, OutcomeOfFields, OutcomeOfRow

\* It holds before the first message,
LEMMA InitIInv == Init => IInv
  BY DEF Init, IInv

\* and every step keeps it,
LEMMA NextIInv == IInv /\ [Next]_vars => IInv'
<1> SUFFICES ASSUME IInv, [Next]_vars PROVE IInv'
  OBVIOUS
<1>1. CASE Generate
  BY <1>1, GeneratedIsMessage DEF Generate, Send, IInv, Settled
<1>2. CASE ReceiveForeign
  BY <1>2, SpoiltIsMessage DEF ReceiveForeign, Send, IInv, Settled
<1>3. CASE Process
  BY <1>3 DEF Process, IInv, Settled
<1>4. CASE NextMessage
  BY <1>4 DEF NextMessage, IInv
<1>5. CASE UNCHANGED vars
  BY <1>5 DEF vars, IInv, Settled
<1> QED BY <1>1, <1>2, <1>3, <1>4, <1>5 DEF Next

\* so that it always holds.
LEMMA AlwaysIInv == Spec => []IInv
  BY InitIInv, NextIInv, PTL DEF Spec

\* Every state is well typed, and there is a message until its outcome is dealt with.
THEOREM TypeCorrect == Spec => []TypeOK
<1>1. IInv => TypeOK
  <2>1. NoMessage \notin {NotAnObject, Tombstone, TooDeep, NulByte}
    BY DEF NotAnObject, NulByte, Tombstone, TooDeep, NoMessage, Val
  <2> QED BY <2>1, MessageHasFields, OutcomeOf DEF IInv, Settled, TypeOK, Outcomes
<1> QED BY <1>1, AlwaysIInv, PTL

\* Whatever generator.py sends, transformer.py and the columns of TiDB take.
THEOREM GeneratedAlwaysFit == Spec => []GeneratedEventsFit
<1>1. IInv => GeneratedEventsFit
  BY GeneratedIsStored DEF IInv, Settled, GeneratedEventsFit
<1> QED BY <1>1, AlwaysIInv, PTL

\* No conversion ends the process but that of an infinite integer, whatever the fields hold;
\* besides it are the messages whose fields are never looked at.
THEOREM FatalHasAReason == Spec => []FatalForAReason
<1>1. IInv => FatalForAReason
  BY FatalReason, OutcomeOf DEF IInv, Settled, FatalForAReason, Holds
<1> QED BY <1>1, AlwaysIInv, PTL

\* A row that TiDB refuses has a field that shows one of the reasons.
THEOREM RefusalHasAReason == Spec => []RefusedForAReason
<1>1. IInv => RefusedForAReason
  <2> SUFFICES ASSUME IInv, outcome = "unstorable" PROVE RefusedForAReason
    BY DEF RefusedForAReason
  <2>1. Outcome(topic, message) = "unstorable" /\ topic \in Topics
    BY DEF IInv, Settled
  <2>2. message \notin {NotAnObject, Tombstone, TooDeep, NulByte}
    BY <2>1, OutcomeOf
  <2>3. IsMessage(topic, message)
    BY <2>2 DEF IInv
  <2> QED BY <2>1, <2>3, UnstorableReason DEF RefusedForAReason, Holds
<1> QED BY <1>1, AlwaysIInv, PTL

=============================================================================
