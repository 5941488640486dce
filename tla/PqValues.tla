------------------------------ MODULE PqValues ------------------------------
(***************************************************************************)
(* What becomes of a value on its way to PostgreSQL: the column type that  *)
(* TypeMapper gives it, the COPY text WritePqCopyStream makes of it, the   *)
(* parameter Bindings makes of it, what PostgreSQL takes either for, and   *)
(* what PqRecordSet reads back.  A text is a sequence of tokens: strings   *)
(* character by character, anything else as one token.                     *)
(***************************************************************************)
EXTENDS MySQLTypes

\* A type as it is declared: int(10) unsigned is [base |-> "int", args |-> <<10>>,
\* sign |-> "unsigned"].  The labels of an enum are left out.
Declared(base, args, sign) == [base |-> base, args |-> args, sign |-> sign]

NoArgs == {<<>>}
OneArg == [1..1 -> Nat]
UpTo1  == NoArgs \union OneArg
TwoArgs == [1..2 -> Nat]
Plain  == {""}
Signs  == {"", "signed", "unsigned"}

Same      == "same"
NoMapping == Declared("none", <<>>, "")

Rule(base, args, sign, target) ==
  [base |-> base, args |-> args, sign |-> sign, target |-> target]

\* TypeMapper's rules, of which the first that matches decides.
mappings ==
  <<Rule({"bit"}, OneArg, Plain, Same),
    Rule({"tinyint"}, {<<1>>}, Signs, "boolean"),
    Rule({"tinyint", "smallint"}, UpTo1, Signs, "smallint"),
    Rule({"mediumint", "int"}, UpTo1, Signs, "int"),
    Rule({"bigint"}, UpTo1, Signs, "bigint"),
    Rule({"numeric", "decimal"}, UpTo1 \union TwoArgs, Plain, Same),
    Rule({"float"}, NoArgs \union TwoArgs, Plain, "float"),
    Rule({"real", "double", "double precision"}, NoArgs \union TwoArgs, Plain, "real"),
    Rule({"date"}, NoArgs, Plain, "date"),
    Rule({"datetime", "timestamp"}, UpTo1, Plain, "timestamp"),
    Rule({"time"}, UpTo1, Plain, "time"),
    Rule({"year"}, UpTo1, Plain, "smallint"),
    Rule({"binary", "varbinary"}, UpTo1, Plain, "bytea"),
    Rule({"char", "varchar"}, UpTo1, Plain, Same),
    Rule({"tinyblob", "blob", "mediumblob", "longblob"}, UpTo1, Plain, "bytea"),
    Rule({"tinytext", "text", "mediumtext", "longtext"}, UpTo1, Plain, "text"),
    Rule({"enum"}, NoArgs, Plain, "text"),
    Rule({"json"}, NoArgs, Plain, "json")>>

MapBy(rules, t) ==
  LET Matches(rule) == t.base \in rule.base /\ t.args \in rule.args /\ t.sign \in rule.sign
      first == SelectInSeq(rules, Matches)
  IN IF first = 0 THEN NoMapping
     ELSE IF rules[first].target = Same THEN t
     ELSE Declared(rules[first].target, <<>>, "")

\* Faulty: the rule for tinyint(1) stands behind the one for every tinyint.
mapSmallintFirst(t) ==
  MapBy([mappings EXCEPT ![2] = mappings[3], ![3] = mappings[2]], t)

map(t) == MapBy(mappings, t)

-----------------------------------------------------------------------------
Char(c) == DbValue("char", <<c>>)
Chars(cs) == [i \in DOMAIN cs |-> Char(cs[i])]

TAB == 9
LF == 10
Backslash == 92
Escaped(token) == <<Char(Backslash), token>>

iscntrl(c) == c < 32 \/ c = 127

\* A decimal is its digits, no more of them than an integer of TLC has and without
\* zeros at their end, and the exponent of ten.  A FLOAT is such a number itself (one
\* tenth is none), a DOUBLE the one nearest to it, both without a sign, which would
\* change nothing.
Magnitude(n) == IF n < 0 THEN -n ELSE n

DigitCount(n) == Cardinality({k \in 0..9 : 10^k <= Magnitude(n)})

\* A decimal rounded to its first n digits, halves to the even one.
Rounded(d, n) ==
  LET digits   == DigitCount(d[1])
      unit     == 10^(digits - n)
      quotient == d[1] \div unit
      doubled  == 2 * (d[1] % unit)
      mantissa == IF doubled > unit \/ (doubled = unit /\ quotient % 2 = 1) THEN quotient + 1 ELSE quotient
  IN IF digits <= n THEN d
     ELSE IF n < 0 \/ mantissa = 0 THEN <<0, 0>>
     ELSE <<mantissa, d[2] + digits - n>>

\* printf's %g keeps six digits, std::to_string six decimals.
General(d) == Rounded(d, 6)
ToDecimals(d, n) == Rounded(d, DigitCount(d[1]) + d[2] + n)

\* WritePqCopyStream's text of a value; it has none of a timespec or a BitSet.
CopyText(v) ==
  CASE v.is = "null"    -> Escaped(Char(78))
    [] v.is = "decimal" -> <<DbValue("decimal", General(v.of))>>
    [] v.is = "string"  ->
         FlattenSeq([i \in DOMAIN v.of |->
           IF iscntrl(v.of[i]) THEN Escaped(DbValue("octal", <<v.of[i]>>)) ELSE <<Char(v.of[i])>>])
    [] v.is = "blob"    -> Escaped(Char(Backslash)) \o <<Char(120), DbValue("hex", v.of)>>
    [] OTHER            -> <<v>>

Copyable(v) == v.is \notin {"timespec", "bitset"}

\* Bindings' parameter: text, or the bytes of a string as they are.
Binding(v) ==
  CASE v.is = "null"    -> [format |-> 0, text |-> <<v>>]
    [] v.is = "decimal" -> [format |-> 0, text |-> <<DbValue("decimal", ToDecimals(v.of, 6))>>]
    [] v.is = "string"  -> [format |-> 1, text |-> Chars(v.of)]
    [] OTHER            -> [format |-> 0, text |-> <<v>>]

Bindable(v) == v.is # "timespec"

-----------------------------------------------------------------------------
\* COPY's reader: records and fields end at a line feed or a tab that no backslash
\* precedes; what one precedes is a control character, NULL or the character itself.
\* A last line may lack its line feed.
Unescaped(token) ==
  CASE token.is = "octal"  -> Char(token.of[1])
    [] token = Char(78)    -> DbValue("null", <<78>>)
    [] token = Char(110)   -> Char(LF)
    [] token = Char(116)   -> Char(TAB)
    [] OTHER               -> token

CopyRecords(text) ==
  LET read1(acc, token) ==
        CASE acc.escaped -> [acc EXCEPT !.escaped = FALSE, !.field = Append(@, Unescaped(token))]
          [] ~acc.escaped /\ token = Char(Backslash) -> [acc EXCEPT !.escaped = TRUE]
          [] ~acc.escaped /\ token = Char(TAB) ->
               [acc EXCEPT !.record = Append(@, acc.field), !.field = <<>>]
          [] ~acc.escaped /\ token = Char(LF) ->
               [acc EXCEPT !.records = Append(@, Append(acc.record, acc.field)),
                           !.record = <<>>, !.field = <<>>]
          [] OTHER -> [acc EXCEPT !.field = Append(@, token)]
      end == FoldLeft(read1, [escaped |-> FALSE, field |-> <<>>, record |-> <<>>, records |-> <<>>],
                      text)
  IN IF end.field = <<>> /\ end.record = <<>> THEN end.records
     ELSE Append(end.records, Append(end.record, end.field))

Refused == DbValue("refused", <<>>)

\* A real is a number of 24 bits times a power of two.  (5^11 alone has more bits, 5^14
\* divides no integer of TLC, and none is 2^7 times a number of more than 24.)
IsReal(d) ==
  LET five == 5^Magnitude(d[2])
      n    == IF d[2] < 0 THEN d[1] \div five ELSE d[1] * five
  IN /\ d[2] \in -13..10
     /\ d[2] < 0 => d[1] % five = 0
     /\ \E k \in 0..7 : n % 2^k = 0 /\ n \div 2^k < 2^24

\* Decimals compared by their size and their first nine digits.
Above(d, bound) ==
  LET size(x)  == DigitCount(x[1]) + x[2]
      nine(x)  == IF DigitCount(x[1]) > 9 THEN x[1] \div 10 ELSE x[1] * 10^(9 - DigitCount(x[1]))
  IN \/ size(d) > size(bound)
     \/ size(d) = size(bound) /\ nine(d) > nine(bound)

\* Half a unit of the last place beyond the largest real, and half the smallest.
LARGEST  == <<340282356, 30>>
SMALLEST == <<700649232, -54>>

\* The numbers that do not become an infinite real, or 0.
FitsReal(d) == d[1] = 0 \/ (Above(d, SMALLEST) /\ ~Above(d, LARGEST))

\* The real nearest to a decimal, which is another number unless it is a real itself;
\* PostgreSQL prints as many digits of it as reading it back takes.
NearestReal(d) == DbValue(IF IsReal(d) THEN "decimal" ELSE "nearest", d)

IsDate(d) == d[1] > 0 /\ d[2] \in 1..12 /\ d[3] \in 1..31
IsTime(t) == (t[1] < 24 /\ t[2] < 60 /\ t[3] < 60) \/ t = <<24, 0, 0>>

\* A char(n) is filled up with blanks.
Blanks(chars, n) == chars \o [i \in 1..(n - Len(chars)) |-> 32]

\* The value a column of the target takes a text or a parameter for.
Input(target, format, text) ==
  LET is    == IF Len(text) = 1 THEN Head(text).is ELSE "chars"
      of    == Head(text).of
      chars == [i \in DOMAIN text |-> text[i].of[1]]
      If(ok) == IF ok THEN Head(text) ELSE Refused
  IN IF is = "null" THEN Null
     ELSE CASE target.base = "boolean"  -> If(is = "int" /\ of \in {<<0>>, <<1>>})
            [] target.base = "smallint" -> If(is = "int" /\ Len(of) = 1 /\ of[1] \in -32768..32767)
            [] target.base = "int"      -> If(is = "int" /\ Len(of) = 1)
            [] target.base = "bigint"   -> If(is = "int")
            [] target.base = "float"    -> If(is = "decimal")
            [] target.base = "real"     ->
                 IF is = "decimal" /\ FitsReal(of) THEN NearestReal(of) ELSE Refused
            [] target.base \in {"numeric", "decimal"} ->
                 IF is = "decimal" THEN DbValue("decimal", ToDecimals(of, target.args[2])) ELSE Refused
            [] target.base = "date"      -> If(is = "date" /\ IsDate(of))
            [] target.base = "time"      -> If(is = "time" /\ IsTime(of))
            [] target.base = "timestamp" ->
                 If(is = "datetime" /\ IsDate(of) /\ IsTime(SubSeq(of, 4, 6)))
            [] target.base = "bytea" ->
                 IF format = 1 THEN DbValue("blob", chars)
                 ELSE IF Len(text) = 3 /\ text[3].is = "hex" THEN DbValue("blob", text[3].of) ELSE Refused
            [] OTHER ->
                 IF \A i \in DOMAIN text : text[i].is \in {"char", "null"} /\ text[i].of[1] > 0
                 THEN DbValue("string", IF target.base = "char" THEN Blanks(chars, target.args[1]) ELSE chars)
                 ELSE Refused

-----------------------------------------------------------------------------
\* PqRecordSet::at: a bytea is the characters PostgreSQL prints it with, a boolean is
\* no type of its own, and strptime has no hour 24.
PqRecordSetAt(target, v) ==
  IF v.is = "null" THEN Null
  ELSE CASE target.base = "bytea"     -> DbValue("blob", <<Backslash, 120>> \o v.of)
         [] target.base = "boolean"   -> DbValue("string", IF v.of = <<1>> THEN <<116>> ELSE <<102>>)
         [] target.base = "time" /\ v.of[1] = 24 -> DbValue("thrown", <<>>)
         [] OTHER                     -> v
=============================================================================
