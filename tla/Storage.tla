------------------------------- MODULE Storage -------------------------------
(***************************************************************************)
(* The conversion of a value to the type of the column that stores it      *)
(* (core session.rs store_value, round_fraction).  A number is an integer  *)
(* of thousandths, a text its bytes, a date-time a record of Calendar; a   *)
(* column is a type with its precision and scale or its length.            *)
(***************************************************************************)
EXTENDS Calendar, Conditions

Stored(t, v) == [err |-> 0, t |-> t, v |-> v]
Refused(code) == [err |-> code, t |-> "none", v |-> << >>]

Magnitude(n) == IF n < 0 THEN -n ELSE n
(* Half up is away from zero; a unit is 10 ^ (3 - scale) thousandths.       *)
with_scale_round(n, scale) ==
  LET unit == 10 ^ (3 - scale)
      up == ((2 * Magnitude(n) + unit) \div (2 * unit)) * unit
  IN  IF n < 0 THEN -up ELSE up

RECURSIVE Length10(_)
Length10(n) == IF n = 0 THEN 0 ELSE 1 + Length10(n \div 10)
int_digits(n) == Length10(Magnitude(n) \div 1000)

(* A number as text: no zero before the point, none at the end of the       *)
(* fraction.  A date as text has nine bytes in the default format.          *)
Fraction(f) ==
  LET ds == <<f \div 100, (f \div 10) % 10, f % 10>>
      kept == Max({0} \cup {i \in 1..3 : ds[i] # 0})
  IN  [i \in 1..kept |-> Zero + ds[i]]
format_number(n) ==
  LET whole == Magnitude(n) \div 1000
      fraction == Fraction(Magnitude(n) % 1000)
  IN  (IF n < 0 THEN <<45>> ELSE << >>)
      \o (IF whole = 0 /\ fraction # << >> THEN << >> ELSE Digits[whole])
      \o (IF fraction = << >> THEN << >> ELSE <<46>> \o fraction)
DateText == [i \in 1..9 |-> 65]

(* A number, or a text that is one, in thousandths.                         *)
Thousandths(v) ==
  IF v.t = "num" THEN v.v ELSE [i \in DOMAIN to_number(v) |-> 1000 * to_number(v)[i]]

(* Mutant: a fraction that rounds to a second stays one. *)
RoundInPlace(d, precision) ==
  LET unit == 10 ^ (9 - precision) IN
  [d EXCEPT !.nanos = (((@ + unit \div 2) \div unit) * unit) % 1000000000]

round_fraction(d, precision) ==
  LET unit == 10 ^ (9 - precision)
      rounded == ((d.nanos + unit \div 2) \div unit) * unit
  IN  IF rounded >= 1000000000 THEN Later([d EXCEPT !.nanos = 0], 1)
      ELSE [d EXCEPT !.nanos = rounded]

StoreNumber(col, v) ==
  LET n == Thousandths(v)
      r == with_scale_round(n[1], col.scale)
  IN
  IF v.t = "date" THEN Refused(932)
  ELSE IF n = << >> THEN Refused(1722)
  ELSE IF col.precision = 0 THEN Stored("num", n)
  ELSE IF int_digits(r) > col.precision - col.scale THEN Refused(1438)
  ELSE Stored("num", <<r>>)

StoreText(col, v) ==
  LET s == CASE v.t = "text" -> v.v [] v.t = "date" -> DateText [] OTHER -> format_number(v.v[1])
      full == IF col.type = "char" THEN s \o [i \in 1..Max({0, col.max - Len(s)}) |-> Blank] ELSE s
  IN  IF Len(full) > col.max THEN Refused(12899) ELSE Stored("text", full)

(* A DATE drops the fraction, a TIMESTAMP rounds it.                        *)
StoreDate(col, v) ==
  CASE v.t = "num" -> Refused(932)
    [] v.t = "text" -> Refused(1858)                       (* none is a date *)
    [] col.type = "date" /\ v.t = "date" -> Stored("date", <<[v.v[1] EXCEPT !.nanos = 0]>>)
    [] OTHER -> Stored("date", <<round_fraction(v.v[1], col.precision)>>)

store_value(col, v) ==
  CASE v.t = "null" -> Stored("null", << >>)
    [] v.t = "bool" -> Refused(932)
    [] v.t \notin {"null", "bool"} /\ col.type = "number" -> StoreNumber(col, v)
    [] v.t \notin {"null", "bool"} /\ col.type \in {"char", "varchar2"} -> StoreText(col, v)
    [] OTHER -> StoreDate(col, v)

-----------------------------------------------------------------------------
(* What a column may hold, and how far from the value that was given.       *)
Fits(col, s) ==
  \/ s.t = "null"
  \/ col.type = "number" /\ col.precision = 0
  \/ /\ col.type = "number" /\ col.precision > 0
     /\ Magnitude(s.v[1]) < 10 ^ (3 + col.precision - col.scale)
     /\ s.v[1] % 10 ^ (3 - col.scale) = 0
  \/ col.type = "varchar2" /\ Len(s.v) \in 1..col.max
  \/ col.type = "char" /\ Len(s.v) = col.max
  \/ col.type = "date" /\ s.v[1].nanos = 0
  \/ col.type = "timestamp" /\ s.v[1].nanos % 10 ^ (9 - col.precision) = 0

Close(col, v, s) ==
  CASE col.type = "number" /\ v.t = "num" /\ col.precision > 0 ->
         /\ 2 * Magnitude(s.v[1] - v.v[1]) <= 10 ^ (3 - col.scale)
         /\ 2 * Magnitude(s.v[1] - v.v[1]) = 10 ^ (3 - col.scale) =>
              Magnitude(s.v[1]) > Magnitude(v.v[1])
    [] col.type = "timestamp" /\ v.t = "date" ->
         LET d == v.v[1]
             e == s.v[1]
             seconds == (DayNumber(e) - DayNumber(d)) * 86400 + Seconds(e) - Seconds(d)
             apart == e.nanos - d.nanos
             half == 10 ^ (9 - col.precision) \div 2
         IN  CASE seconds = 0 -> -half <= apart /\ apart <= half
               [] seconds = 1 -> e.nanos = 0 /\ d.nanos >= 1000000000 - half
               [] OTHER -> FALSE
    [] col.type \in {"char", "varchar2"} /\ v.t = "text" ->
         /\ SubSeq(s.v, 1, Len(v.v)) = v.v
         /\ \A i \in (Len(v.v) + 1)..Len(s.v) : s.v[i] = Blank
    [] OTHER -> TRUE

(* A value that rounds to one that fits is stored, and stored again as it   *)
(* is; but a column whose scale is above its precision stores no number.    *)
StoresFaithfully(col, v) ==
  LET s == store_value(col, v) IN
  /\ s.err = 0 => /\ Fits(col, s) /\ Close(col, v, s)
                  /\ store_value(col, [t |-> s.t, v |-> s.v]) = s
  /\ s.err = 1438 => \/ col.scale > col.precision
                     \/ Magnitude(with_scale_round(Thousandths(v)[1], col.scale))
                          >= 10 ^ (3 + col.precision - col.scale)
  /\ (col.type = "number" /\ col.scale > col.precision /\ v.t = "num") => s.err = 1438
  /\ (s.err = 12899 /\ v.t = "text") => Len(v.v) > col.max
=============================================================================
