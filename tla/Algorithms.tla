------------------------------ MODULE Algorithms ------------------------------
(***************************************************************************)
(* The pure algorithms of the program, each applied to one of its inputs   *)
(* at a time.                                                              *)
(***************************************************************************)
EXTENDS Queries, Encoding, Scripts, Dates, Storage

CONSTANTS
  SimpleConditions, JoinedConditions,(* conditions, and those AND and OR join *)
  QueryFamilies,                     (* tables, and the queries over them     *)
  KeyRows,                           (* rows that are keys                    *)
  WireIntegers, KeyValues, WireValues, ShortValues, Payloads, (* on the wire *)
  ScriptStarts,                      (* of scripts, with the characters to add *)
  FormatDates, FormatStarts, FormatElems,       (* dates, and formats for them *)
  SomeDates, OtherDates, MonthCounts, Units,    (* for arithmetic              *)
  StoreColumns, StoreValues          (* columns, and values by their type      *)

VARIABLE input

Init == input = [k |-> "none", x |-> 0]

Take(k, S) == \E x \in S : input' = [k |-> k, x |-> x]

(* A condition, alone or negated, or two joined.                            *)
ACondition ==
  /\ input.k = "none"
  /\ Take("condition", SimpleConditions \cup JoinedConditions)
JoinConditions ==
  /\ input.k = "condition" /\ input.x \in JoinedConditions
  /\ \E d \in JoinedConditions, op \in {"and", "or"}, negated \in BOOLEAN :
       LET c == [op |-> op, c |-> input.x, d |-> d] IN
       input' = [k |-> "joined", x |-> IF negated THEN [op |-> "not", c |-> c] ELSE c]

(* The rows of two tables, and a query over them.                           *)
SomeTables ==
  /\ input.k = "none"
  /\ \E f \in QueryFamilies : \E left \in f.left, right \in f.right :
       input' = [k |-> "tables", x |-> [left |-> left, right |-> right,
                                        lw |-> f.lw, rw |-> f.rw]]
AQuery ==
  /\ input.k = "tables"
  /\ \E f \in {f \in QueryFamilies : f.lw = input.x.lw /\ f.rw = input.x.rw} : \E s \in f.shapes :
       input' = [k |-> "query",
                 x |-> [op |-> s.op, left |-> input.x.left, right |-> input.x.right,
                        lw |-> input.x.lw, rw |-> input.x.rw, join |-> s.join, on |-> s.on,
                        where |-> s.where, group |-> s.group, having |-> s.having,
                        items |-> s.items, distinct |-> s.distinct, order |-> s.order,
                        offset |-> s.offset, fetch |-> s.fetch]]

(* The values of a key.                                                     *)
AKey == input.k = "none" /\ Take("key", KeyRows)

(* An integer, a pair of strings, one value or a row of two, a payload.     *)
AnInteger == input.k = "none" /\ Take("integer", WireIntegers)
AKeyValue == input.k = "none" /\ Take("key value", KeyValues)
AValue ==
  /\ input.k = "none"
  /\ \E t \in DOMAIN WireValues : \E v \in WireValues[t] : input' = [k |-> "row", x |-> <<v>>]
AddValue ==
  /\ input.k = "row" /\ Len(input.x) = 1
  /\ \E t \in DOMAIN ShortValues : \E v \in ShortValues[t] :
       input' = [k |-> "row", x |-> Append(input.x, v)]
APayload == input.k = "none" /\ Take("payload", Payloads)

(* A script, written a character at a time.                                 *)
AScript == input.k = "none" /\ Take("script", ScriptStarts)
Type ==
  /\ input.k = "script" /\ input.x.left > 0
  /\ \E c \in input.x.alphabet :
       input' = [input EXCEPT !.x.text = Append(@, c), !.x.left = @ - 1]

(* A date and a format for it, written an element at a time; a date, then   *)
(* another and a number of months, or a unit.                               *)
AFormat ==
  /\ input.k = "none"
  /\ \E d \in FormatDates, f \in FormatStarts :
       input' = [k |-> "format", x |-> [d |-> d, f |-> f.f, left |-> f.left]]
AddElement ==
  /\ input.k = "format" /\ input.x.left > 0
  /\ \E e \in FormatElems : input' = [input EXCEPT !.x.f = Append(@, e), !.x.left = @ - 1]
ADate == input.k = "none" /\ Take("date", SomeDates)
Months ==
  /\ input.k = "date"
  /\ \E e \in OtherDates, n \in MonthCounts : input' = [k |-> "months", x |-> [d |-> input.x, e |-> e, n |-> n]]
AUnit ==
  /\ input.k = "date"
  /\ \E u \in Units : input' = [k |-> "unit", x |-> [d |-> input.x, unit |-> u]]

(* A column and a value to store in it.                                     *)
AColumn == input.k = "none" /\ Take("column", StoreColumns)
AStore ==
  /\ input.k = "column"
  /\ \E t \in DOMAIN StoreValues : \E v \in StoreValues[t] :
       input' = [k |-> "store", x |-> [col |-> input.x, v |-> [t |-> t, v |-> v]]]

Next ==
  \/ ACondition \/ JoinConditions \/ SomeTables \/ AQuery \/ AKey
  \/ AnInteger \/ AKeyValue \/ AValue \/ AddValue \/ APayload
  \/ AScript \/ Type
  \/ AFormat \/ AddElement \/ ADate \/ Months \/ AUnit
  \/ AColumn \/ AStore

Spec == Init /\ [][Next]_input

-----------------------------------------------------------------------------
(* Conditions are evaluated in SQL's three-valued logic: NULL comparisons   *)
(* are UNKNOWN, IN, BETWEEN and LIKE are what their definitions say, a side *)
(* is left out only if it cannot matter, and nothing but an error in the    *)
(* condition is an error; with one exception, NULL IN a subquery without    *)
(* rows, which is UNKNOWN where SQL has FALSE, and NOT IN where it has TRUE *)
(* (eval.rs eval_bool, in_values, like; value.rs compare).                  *)
ConditionsAreKleene == input.k \in {"condition", "joined"} => Kleene(input.x)

(* The pipeline of a query (joins, WHERE with ROWNUM, groups, HAVING,       *)
(* DISTINCT, set operations, a stable sort with its NULLs, OFFSET and       *)
(* FETCH) gives the rows the query denotes, in their order (eval.rs query). *)
QueriesAnswer == input.k = "query" => query(input.x) = Answer(input.x)

(* Two keys of one width have the same bytes exactly if they are the same   *)
(* values, so that groups, DISTINCT and unique indexes tell rows apart by   *)
(* them, unless both rows have a text that holds the separator: then a text *)
(* with the separator and a tag in it can be cut in two ways, and two rows  *)
(* have one key (value.rs key_string).                                      *)
KeysTellRowsApart ==
  input.k = "key" =>
    /\ \A row \in KeyRows : Len(row) = Len(input.x) =>
         /\ row = input.x => key_string(row) = key_string(input.x)
         /\ key_string(row) = key_string(input.x) =>
              row = input.x \/ (HoldsSeparator(row) /\ HoldsSeparator(input.x))
    /\ \A i \in Cuts(input.x) :
         Recut(input.x, i) # input.x /\ key_string(Recut(input.x, i)) = key_string(input.x)

(* What the writers put on the wire, the readers take from it: integers,    *)
(* chunked strings, NUMBERs with their exponent and complements, dates of   *)
(* either era, rows, and payloads over packets, of which a stream that is   *)
(* cut short yields the whole ones only.  A number without an encoding is   *)
(* read as NULL, and one of 1e126 or more that is given an encoding all the *)
(* same is read as another number (ttc.rs ReadBuf and WriteBuf, oranum.rs   *)
(* encode and decode, tns.rs write_data and read_packet).                   *)
WireRoundTrips ==
  /\ input.k = "integer" => IntRoundTrips(input.x)
  /\ input.k = "key value" => KeyValueRoundTrips(input.x)
  /\ input.k = "row" => RowRoundTrips(input.x)
  /\ input.k = "payload" => PacketsRoundTrip(input.x)

(* The script is split where the lexer sees a separator, never inside a     *)
(* string, a quoted name, a comment or a PL/SQL unit, and the pieces hold   *)
(* all its tokens (core lib.rs split_script, lexer.rs tokenize).            *)
ScriptsSplitAtTokens == input.k = "script" => SplitsAtTokens(input.x.text)

(* TO_DATE reads back what TO_CHAR wrote with the same format, as much of   *)
(* the date as the format has; ADD_MONTHS keeps the order of dates and is   *)
(* counted by MONTHS_BETWEEN; TRUNC goes to the last start of a unit, and   *)
(* ROUND to the nearest minute, hour or day, to the next month from its     *)
(* sixteenth day on, to the next year from July on, and to the last start   *)
(* of a quarter or week (datetime.rs format, parse, add_months, trunc;      *)
(* functions.rs round_date).                                                *)
DatesHold ==
  /\ input.k = "format" => ReadsBack(input.x.d, input.x.f)
  /\ input.k = "months" => MonthLaws(input.x.d, input.x.e, input.x.n)
  /\ input.k = "unit" => UnitLaws(input.x.d, input.x.unit)

(* What a column stores fits its type, is as close to the value given as    *)
(* the type allows (a half is rounded away from zero and may carry into the *)
(* next second), and is stored again unchanged; only a value that does not  *)
(* fit when rounded is refused.  A column NUMBER(p,s) with s above p is the *)
(* exception: it refuses every number, those that fit and zero included     *)
(* (core session.rs store_value).                                           *)
StoredValuesFit == input.k = "store" => StoresFaithfully(input.x.col, input.x.v)
=============================================================================
