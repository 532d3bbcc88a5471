------------------------------ MODULE Conditions ------------------------------
(***************************************************************************)
(* SQL values and conditions: value.rs compare and to_number, and eval.rs  *)
(* eval_bool, in_values and like.                                          *)
(*                                                                         *)
(* A value is a type and a sequence: the number, the day, the truth value  *)
(* (1 for TRUE), or the bytes of a text.  Numbers are integers.  Failure   *)
(* stands for an operand whose evaluation is an error.  Conditions are     *)
(* records whose operands are evaluated already.  A truth value is "T",    *)
(* "F" or "U" for UNKNOWN, and "E" is an error.                            *)
(***************************************************************************)
EXTENDS Integers, Sequences, FiniteSets, SequencesExt, FiniteSetsExt

Null == [t |-> "null", v |-> << >>]
Num(n) == [t |-> "num", v |-> <<n>>]
Date(d) == [t |-> "date", v |-> <<d>>]
Bool(b) == [t |-> "bool", v |-> <<b>>]
Text(bytes) == [t |-> "text", v |-> bytes]
Failure == [t |-> "error", v |-> << >>]

Blank == 32
Percent == 37
Zero == 48
Underscore == 95

-----------------------------------------------------------------------------
(* Comparison: "<", "=" or ">", "U" if a side is NULL, "E" for an error.    *)
Ord(x, y) == IF x < y THEN "<" ELSE IF x > y THEN ">" ELSE "="

trim_end(s) == SubSeq(s, 1, Max({0} \cup {i \in DOMAIN s : s[i] # Blank}))
trim(s) == LET e == trim_end(s) IN
  SubSeq(e, Min({Len(e) + 1} \cup {i \in DOMAIN e : e[i] # Blank}), Len(e))

Bytewise(a, b) ==
  LET differ == {i \in DOMAIN a \cap DOMAIN b : a[i] # b[i]} IN
  IF differ = {} THEN Ord(Len(a), Len(b)) ELSE Ord(a[Min(differ)], b[Min(differ)])

(* to_number: <<n>>, or << >> for ORA-01722 and ORA-00932.                  *)
Numeral(s) == s # << >> /\ \A i \in DOMAIN s : s[i] \in Zero..(Zero + 9)
to_number(x) ==
  CASE x.t = "num" -> x.v
    [] x.t = "text" -> IF Numeral(trim(x.v))
                       THEN <<FoldLeft(LAMBDA n, c : 10 * n + c - Zero, 0, trim(x.v))>>
                       ELSE << >>
    [] OTHER -> << >>

(* to_datetime; the texts considered are too short to be dates.             *)
to_datetime(x) == IF x.t = "date" THEN x.v ELSE << >>

(* to_text, of a number or a text.                                          *)
Digits[n \in Nat] == IF n < 10 THEN <<Zero + n>> ELSE Digits[n \div 10] \o <<Zero + (n % 10)>>
to_text(x) == IF x.t = "num" THEN Digits[x.v[1]] ELSE x.v

Converted(a, b) == IF a = << >> \/ b = << >> THEN "E" ELSE Ord(a[1], b[1])

compare(a, b) ==
  LET types == {a.t, b.t} IN
  CASE "null" \in types -> "U"
    [] types = {"bool"} -> Ord(a.v[1], b.v[1])
    [] types = {"text"} -> Bytewise(trim_end(a.v), trim_end(b.v))
    [] "bool" \in types /\ types # {"bool"} /\ "null" \notin types -> "E"
    [] "num" \in types /\ types \cap {"null", "bool"} = {} ->
         Converted(to_number(a), to_number(b))
    [] OTHER -> Converted(to_datetime(a), to_datetime(b))

(* key_string: the bytes that stand for a row in groups, DISTINCT and       *)
(* unique indexes.  A date is its seconds, a point and nine digits.         *)
Separator == 1
TextTag == 115
KeyBytes(x) ==
  CASE x.t = "null" -> <<126>>
    [] x.t = "num" -> <<110>> \o Digits[x.v[1]]
    [] x.t = "text" -> <<TextTag>> \o x.v
    [] x.t = "date" -> <<100>> \o Digits[x.v[1]] \o <<46>> \o [i \in 1..9 |-> Zero]
    [] OTHER -> IF x.v[1] = 1 THEN <<84>> ELSE <<70>>

(* Mutant: nothing is put between the values. *)
key_unseparated(values) == FlattenSeq([i \in DOMAIN values |-> KeyBytes(values[i])])

key_string(values) ==
  FlattenSeq([i \in DOMAIN values |-> Append(KeyBytes(values[i]), Separator)])

-----------------------------------------------------------------------------
(* LIKE.  The parts of a pattern are "any", "one" or a literal byte, each a *)
(* pair; a pattern with an illegal escape is ORA-01424.                     *)
Star == <<"any", 0>>
Single == <<"one", 0>>
Lit(c) == <<"lit", c>>

Escaped(pattern, escape, i) == escape # << >> /\ pattern[i] = escape[1]

RECURSIVE Parts(_, _, _)
Parts(pattern, escape, i) ==
  LET c == pattern[i]
      and(part, next) == LET rest == Parts(pattern, escape, next) IN
                         IF rest.ok THEN [ok |-> TRUE, parts |-> <<part>> \o rest.parts] ELSE rest
  IN
  CASE i > Len(pattern) -> [ok |-> TRUE, parts |-> << >>]
    [] i <= Len(pattern) /\ Escaped(pattern, escape, i) ->
         IF i < Len(pattern) /\ pattern[i + 1] \in {Percent, Underscore, escape[1]}
         THEN and(Lit(pattern[i + 1]), i + 2)
         ELSE [ok |-> FALSE, parts |-> << >>]
    [] OTHER -> and(IF c = Percent THEN Star ELSE IF c = Underscore THEN Single ELSE Lit(c), i + 1)

(* Backtracking: the last % takes one byte more.                            *)
Retry(star) == [star EXCEPT !.s = @ + 1]

(* The matching loop, at byte si of the text and part pi of the pattern;    *)
(* `star` is where the last % stands and up to where it has matched.        *)
RECURSIVE LikeLoop(_, _, _, _, _)
LikeLoop(s, parts, si, pi, star) ==
  LET part == IF pi <= Len(parts) THEN parts[pi] ELSE <<"end", 0>> IN
  CASE si > Len(s) -> \A i \in pi..Len(parts) : parts[i] = Star
    [] si <= Len(s) /\ (part = Single \/ part = Lit(s[si])) ->
         LikeLoop(s, parts, si + 1, pi + 1, star)
    [] si <= Len(s) /\ part = Star ->
         LikeLoop(s, parts, si, pi + 1, [set |-> TRUE, p |-> pi, s |-> si])
    [] OTHER ->
         IF ~star.set THEN FALSE
         ELSE LikeLoop(s, parts, Retry(star).s, star.p + 1, Retry(star))

like(s, pattern, escape) ==
  LET p == Parts(pattern, escape, 1) IN
  IF ~p.ok THEN "E"
  ELSE IF LikeLoop(s, p.parts, 1, 1, [set |-> FALSE, p |-> 0, s |-> 0]) THEN "T" ELSE "F"

-----------------------------------------------------------------------------
(* eval_bool *)
Truth(b) == IF b THEN "T" ELSE "F"
Negated(negated, r) ==
  IF negated /\ r \in {"T", "F"} THEN Truth(r = "F") ELSE r

Holds(rel, o) ==
  IF o \in {"U", "E"} THEN o
  ELSE Truth(CASE rel = "=" -> o = "="
               [] rel = "<>" -> o # "="
               [] rel = "<" -> o = "<"
               [] rel = "<=" -> o # ">"
               [] rel = ">" -> o = ">"
               [] OTHER -> o # "<")

(* The candidates of IN, one after the other.                               *)
in_values(x, candidates) ==
  LET o == [i \in DOMAIN candidates |-> compare(x, candidates[i])]
      ends == {i \in DOMAIN o : o[i] \in {"=", "E"}}
  IN  IF x.t = "null" THEN "U"
      ELSE IF ends # {} THEN (IF o[Min(ends)] = "=" THEN "T" ELSE "E")
      ELSE IF \E i \in DOMAIN o : o[i] = "U" THEN "U" ELSE "F"

Both(x, y) ==
  CASE "E" \in {x, y} -> "E"
    [] "F" \in {x, y} /\ "E" \notin {x, y} -> "F"
    [] {x, y} = {"T"} -> "T"
    [] OTHER -> "U"

(* Mutant: the right side of AND is not evaluated for an UNKNOWN left one. *)
AndThenStops(x, y) == IF x \in {"F", "U"} THEN x ELSE Both(x, y)

(* The right side is evaluated unless the left one decides.                 *)
AndThen(x, y) == IF x \in {"F", "E"} THEN x ELSE Both(x, y)
OrElse(x, y) ==
  CASE x \in {"T", "E"} -> x
    [] x \notin {"T", "E"} /\ y \in {"T", "E"} -> y
    [] x = "F" /\ y = "F" -> "F"
    [] OTHER -> "U"

Operands(c) ==
  CASE c.op = "cmp" -> <<c.x, c.y>>
    [] c.op = "between" -> <<c.x, c.low, c.high>>
    [] c.op = "in" -> <<c.x>> \o c.list
    [] c.op = "like" -> <<c.x, c.pattern, c.escape>>
    [] OTHER -> <<c.x>>
Fails(c) == \E i \in DOMAIN Operands(c) : Operands(c)[i] = Failure

(* The operand `escape` is Null without an ESCAPE clause; a clause whose    *)
(* value is NULL has the text of no bytes.                                  *)
BadEscape(c) == c.escape # Null /\ Len(c.escape.v) # 1                 (* ORA-01425 *)

Simple(c) ==
  CASE Fails(c) -> "E"
    [] ~Fails(c) /\ c.op = "cmp" -> Holds(c.rel, compare(c.x, c.y))
    [] ~Fails(c) /\ c.op = "isnull" -> Truth((c.x = Null) # c.negated)
    [] ~Fails(c) /\ c.op = "between" ->
         Negated(c.negated, Both(Holds(">=", compare(c.x, c.low)),
                                 Holds("<=", compare(c.x, c.high))))
    [] ~Fails(c) /\ c.op = "in" -> Negated(c.negated, in_values(c.x, c.list))
    [] ~Fails(c) /\ c.op = "like" ->
         IF BadEscape(c) THEN "E"
         ELSE IF Null \in {c.x, c.pattern} THEN "U"
         ELSE Negated(c.negated, like(to_text(c.x), to_text(c.pattern), c.escape.v))
    [] OTHER -> CASE c.x.t = "bool" -> Truth(c.x.v[1] = 1)
                  [] c.x.t = "null" -> "U"
                  [] OTHER -> "E"                                      (* ORA-00920 *)

RECURSIVE eval_bool(_)
eval_bool(c) ==
  CASE c.op = "not" -> Negated(TRUE, eval_bool(c.c))
    [] c.op = "and" -> AndThen(eval_bool(c.c), eval_bool(c.d))
    [] c.op = "or" -> OrElse(eval_bool(c.c), eval_bool(c.d))
    [] OTHER -> Simple(c)

-----------------------------------------------------------------------------
(* The reference.  Which truth values a condition could have, were each of  *)
(* its errors to turn out any: comparisons are ordered F < U < T, AND is    *)
(* the least, OR the greatest, IN the OR of equalities and BETWEEN the AND  *)
(* of two comparisons.                                                      *)
Rank(r) == CASE r = "F" -> 1 [] r = "U" -> 2 [] OTHER -> 3
Unranked == <<"F", "U", "T">>
Least(S) == Unranked[Min({Rank(r) : r \in S})]
Greatest(S) == Unranked[Max({Rank(r) : r \in S})]
Opposite(r) == Unranked[4 - Rank(r)]

Compared(x, rel, y) ==
  IF Failure \in {x, y} \/ compare(x, y) = "E" THEN {"T", "F", "U"}
  ELSE {Holds(rel, compare(x, y))}

RECURSIVE InAny(_, _)
InAny(x, list) ==
  IF list = << >> THEN {"F"}
  ELSE {Greatest({r, q}) : r \in Compared(x, "=", Head(list)), q \in InAny(x, Tail(list))}

(* A text matches the parts of a pattern if they cut it up: % any piece, _  *)
(* one byte, a literal itself.                                              *)
RECURSIVE CutsUp(_, _)
CutsUp(s, parts) ==
  IF parts = << >> THEN s = << >>
  ELSE LET p == Head(parts) IN
       \E n \in IF p = Star THEN 0..Len(s) ELSE {1} :
         /\ n <= Len(s)
         /\ p[1] = "lit" => s[1] = p[2]
         /\ CutsUp(SubSeq(s, n + 1, Len(s)), Tail(parts))

(* Nothing in the condition is an error.                                    *)
RECURSIVE Sound(_)
Sound(c) ==
  LET fit(x, y) == compare(x, y) # "E" IN
  CASE c.op = "not" -> Sound(c.c)
    [] c.op \in {"and", "or"} -> Sound(c.c) /\ Sound(c.d)
    [] OTHER ->
         /\ ~Fails(c)
         /\ CASE c.op = "cmp" -> fit(c.x, c.y)
              [] c.op = "between" -> fit(c.x, c.low) /\ fit(c.x, c.high)
              [] c.op = "in" -> \A i \in DOMAIN c.list : fit(c.x, c.list[i])
              [] c.op = "like" -> ~BadEscape(c) /\ Parts(to_text(c.pattern), c.escape.v, 1).ok
              [] c.op = "value" -> c.x.t \in {"bool", "null"}
              [] OTHER -> TRUE

RECURSIVE Possible(_)
Possible(c) ==
  LET sign(S) == IF c.negated THEN {Opposite(r) : r \in S} ELSE S IN
  CASE c.op = "not" -> {Opposite(r) : r \in Possible(c.c)}
    [] c.op = "and" -> {Least({r, q}) : r \in Possible(c.c), q \in Possible(c.d)}
    [] c.op = "or" -> {Greatest({r, q}) : r \in Possible(c.c), q \in Possible(c.d)}
    [] c.op = "cmp" -> Compared(c.x, c.rel, c.y)
    [] c.op = "isnull" -> IF c.x = Failure THEN {"T", "F"} ELSE sign({Truth(c.x.t = "null")})
    [] c.op = "between" -> sign({Least({r, q}) : r \in Compared(c.x, ">=", c.low),
                                                 q \in Compared(c.x, "<=", c.high)})
    [] c.op = "in" -> sign(InAny(c.x, c.list))
    [] c.op = "like" ->
         IF Null \in {c.x, c.pattern} THEN {"U"}
         ELSE IF ~Sound(c) THEN {"T", "F", "U"}
         ELSE sign({Truth(CutsUp(to_text(c.x), Parts(to_text(c.pattern), c.escape.v, 1).parts))})
    [] OTHER -> IF c.x.t = "bool" THEN {Truth(c.x.v[1] = 1)}
                ELSE IF c.x.t = "null" THEN {"U"} ELSE {"T", "F", "U"}

(* NULL IN a subquery without rows.  The OR of no equalities is FALSE, but  *)
(* in_values returns before it looks at the candidates.                     *)
NullInNothing(c) == c.op = "in" /\ c.x.t = "null" /\ c.list = << >>

(* A condition is an error only if something in it is; otherwise its value  *)
(* is the one SQL gives it, which no error in it could have changed.  NULL  *)
(* [NOT] IN nothing is the exception: it is UNKNOWN, and not what SQL says. *)
Kleene(c) ==
  CASE eval_bool(c) = "E" -> ~Sound(c)
    [] eval_bool(c) # "E" /\ NullInNothing(c) ->
         eval_bool(c) = "U" /\ Possible(c) = {Truth(c.negated)}
    [] OTHER -> Possible(c) = {eval_bool(c)}

(* Rows with a text that holds what stands between two values of a key: the *)
(* cut after the first value may as well be at `i`, which is another row.   *)
HoldsSeparator(row) == \E i \in DOMAIN row : row[i].t = "text" /\ Contains(row[i].v, Separator)
Cuts(row) ==
  IF Len(row) # 2 \/ \E i \in DOMAIN row : row[i].t # "text" THEN {}
  ELSE {i \in 2..(Len(row[1].v) - 2) : SubSeq(row[1].v, i, i + 1) = <<Separator, TextTag>>}
Recut(row, i) ==
  <<Text(SubSeq(row[1].v, 1, i - 1)),
    Text(SubSeq(row[1].v, i + 2, Len(row[1].v)) \o <<Separator, TextTag>> \o row[2].v)>>
=============================================================================
