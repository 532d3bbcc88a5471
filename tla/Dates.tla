-------------------------------- MODULE Dates --------------------------------
(***************************************************************************)
(* Date formats and date arithmetic (datetime.rs, and the date functions   *)
(* of functions.rs).  A format is a sequence of elements, as the code's    *)
(* tokenize returns them; a text is a sequence of digits, names of months  *)
(* and days, AM and PM, words, points, other punctuation and blanks.  The  *)
(* case of the letters is left out: parse does not look at it.             *)
(***************************************************************************)
EXTENDS Calendar, Sequences, SequencesExt

CONSTANT ThisYear                  (* of the clock                            *)

Atom(c, n) == [c |-> c, n |-> n]
Blanks(n) == [i \in 1..n |-> Atom("blank", 0)]
Alphanumeric == {"digit", "month", "day", "am", "word"}

NumberElems == {"Yyyy", "Yy", "Rr", "Mm", "Dd", "Ddd", "D", "Hh24", "Hh12", "Mi", "Ss", "Ff3"}
NameElems == {"Mon", "Month", "Dy", "Day", "Am"}
OtherElems == {"X", "Fm", "punct", "word"}

MonthLengths == <<7, 8, 5, 5, 3, 4, 4, 6, 9, 7, 8, 8>>
DayLengths == <<6, 7, 9, 8, 6, 8, 6>>

-----------------------------------------------------------------------------
(* TO_CHAR.                                                                 *)
RECURSIVE DigitsOf(_)
DigitsOf(n) == (IF n < 10 THEN << >> ELSE DigitsOf(n \div 10)) \o <<Atom("digit", n % 10)>>
ZeroPadded(n, width) ==
  LET ds == DigitsOf(n) IN [i \in 1..Max({0, width - Len(ds)}) |-> Atom("digit", 0)] \o ds
pad(n, width, fm) == IF fm THEN DigitsOf(n) ELSE ZeroPadded(n, width)
Twelve(h) == IF h % 12 = 0 THEN 12 ELSE h % 12

FormatElem(e, d, fm) ==
  CASE e = "Yyyy" -> pad(d.year, 4, fm)
    [] e \in {"Yy", "Rr"} -> ZeroPadded(d.year % 100, 2)
    [] e = "Mm" -> pad(d.month, 2, fm)
    [] e = "Mon" -> <<Atom("month", d.month)>>
    [] e = "Month" -> <<Atom("month", d.month)>> \o Blanks(IF fm THEN 0 ELSE 9 - MonthLengths[d.month])
    [] e = "Dd" -> pad(d.day, 2, fm)
    [] e = "Ddd" -> pad(Ordinal(d), 3, fm)
    [] e = "D" -> DigitsOf(((Weekday(d) + 1) % 7) + 1)
    [] e = "Dy" -> <<Atom("day", Weekday(d))>>
    [] e = "Day" -> <<Atom("day", Weekday(d))>> \o Blanks(IF fm THEN 0 ELSE 9 - DayLengths[Weekday(d) + 1])
    [] e = "Hh24" -> pad(d.hour, 2, fm)
    [] e = "Hh12" -> pad(Twelve(d.hour), 2, fm)
    [] e = "Mi" -> pad(d.minute, 2, fm)
    [] e = "Ss" -> pad(d.second, 2, fm)
    [] e = "Ff3" -> SubSeq(ZeroPadded(d.nanos, 9), 1, 3)
    [] e = "Am" -> <<Atom("am", IF d.hour < 12 THEN 0 ELSE 1)>>
    [] e = "X" -> <<Atom("point", 0)>>
    [] e = "Fm" -> << >>
    [] OTHER -> <<Atom(e, 0)>>

RECURSIVE Formatted(_, _, _)
Formatted(d, f, fm) ==
  IF f = << >> THEN << >>
  ELSE FormatElem(Head(f), d, fm) \o Formatted(d, Tail(f), fm # (Head(f) = "Fm"))
format(d, f) == Formatted(d, f, FALSE)

-----------------------------------------------------------------------------
(* TO_DATE: what has been read so far, and the place in the text.           *)
Is(text, i, c) == i \in DOMAIN text /\ text[i].c = c
number(text, i, max) ==
  LET n == Max({n \in 0..max : \A j \in i..(i + n - 1) : Is(text, j, "digit")}) IN
  [len |-> n, n |-> FoldLeft(LAMBDA acc, j : acc * 10 + text[i + j - 1].n, 0, [j \in 1..n |-> j])]
Unread == [i |-> 1, err |-> 0, year |-> 0, known |-> FALSE, month |-> 1, day |-> 1, hour |-> 0,
           minute |-> 0, second |-> 0, nanos |-> 0, pm |-> -1, hour12 |-> FALSE]

(* Mutant: a year of two digits is always of this century. *)
CenturyNow(y, len) == IF len > 2 THEN y ELSE 2000 + y

Windowed(y, len) == IF len > 2 THEN y ELSE IF y < 50 THEN 2000 + y ELSE 1900 + y

Widths == [Yyyy |-> 4, Yy |-> 2, Rr |-> 4, Mm |-> 2, Dd |-> 2, Ddd |-> 3, D |-> 3, Hh24 |-> 2,
           Hh12 |-> 2, Mi |-> 2, Ss |-> 2, Ff3 |-> 9]

ReadNumber(acc, e, text) ==
  LET r == number(text, acc.i, Widths[e])
      a == [acc EXCEPT !.i = @ + r.len]
  IN
  IF r.len = 0 THEN [acc EXCEPT !.err = 1858]
  ELSE CASE e = "Yyyy" -> [a EXCEPT !.year = r.n, !.known = TRUE]
         [] e = "Yy" -> [a EXCEPT !.year = 2000 + r.n, !.known = TRUE]
         [] e = "Rr" -> [a EXCEPT !.year = Windowed(r.n, r.len), !.known = TRUE]
         [] e = "Mm" -> [a EXCEPT !.month = r.n]
         [] e = "Dd" -> [a EXCEPT !.day = r.n]
         [] e \in {"Ddd", "D"} -> a
         [] e = "Hh24" -> [a EXCEPT !.hour = r.n]
         [] e = "Hh12" -> [a EXCEPT !.hour = r.n, !.hour12 = TRUE]
         [] e = "Mi" -> [a EXCEPT !.minute = r.n]
         [] e = "Ss" -> [a EXCEPT !.second = r.n]
         [] OTHER -> [a EXCEPT !.nanos = r.n * 10 ^ (9 - r.len)]

ReadName(acc, e, text) ==
  LET c == IF e \in {"Mon", "Month"} THEN "month" ELSE IF e = "Am" THEN "am" ELSE "day"
      a == [acc EXCEPT !.i = @ + 1]
  IN
  IF ~Is(text, acc.i, c)
  THEN [acc EXCEPT !.err = IF c = "month" THEN 1843 ELSE IF c = "am" THEN 1855 ELSE 1846]
  ELSE CASE c = "month" -> [a EXCEPT !.month = text[acc.i].n]
         [] c = "am" -> [a EXCEPT !.pm = text[acc.i].n]
         [] OTHER -> a

(* Punctuation matches any, and none; a word only itself.                   *)
ReadOther(acc, e, text) ==
  CASE e = "X" -> IF Is(text, acc.i, "point") THEN [acc EXCEPT !.i = @ + 1] ELSE acc
    [] e = "Fm" -> acc
    [] e = "punct" ->
         [acc EXCEPT !.i = Min({j \in acc.i..Len(text) : text[j].c \in Alphanumeric} \cup {Len(text) + 1})]
    [] OTHER -> IF Is(text, acc.i, "word") THEN [acc EXCEPT !.i = @ + 1]
                ELSE [acc EXCEPT !.err = 1861]

Unblanked(text) ==
  LET full == {i \in DOMAIN text : text[i].c # "blank"} IN
  IF full = {} THEN << >> ELSE SubSeq(text, Min(full), Max(full))

Failing(code) == [err |-> code, d |-> Day(1, 1, 1)]
ReadElem(acc, e, text) ==
  CASE e \in NumberElems -> ReadNumber(acc, e, text)
    [] e \in NameElems -> ReadName(acc, e, text)
    [] OTHER -> ReadOther(acc, e, text)
RECURSIVE ReadAll(_, _, _)
ReadAll(acc, f, text) ==
  IF acc.err # 0 \/ f = << >> THEN acc ELSE ReadAll(ReadElem(acc, Head(f), text), Tail(f), text)
parse(s, f) ==
  LET text == Unblanked(s)
      r == ReadAll(Unread, f, text)
      twelve == r.hour12 \/ r.pm # -1
      hour == IF ~twelve THEN r.hour ELSE (r.hour % 12) + (IF r.pm = 1 THEN 12 ELSE 0)
      year == IF r.known THEN r.year ELSE ThisYear
  IN
  CASE r.err # 0 -> Failing(r.err)
    [] r.err = 0 /\ r.i <= Len(text) -> Failing(1830)
    [] r.err = 0 /\ r.i > Len(text) /\ twelve /\ r.hour \notin 1..12 -> Failing(1849)
    [] OTHER ->
         IF hour > 23 THEN Failing(1850) ELSE IF r.minute > 59 THEN Failing(1851)
         ELSE IF r.second > 59 THEN Failing(1852) ELSE IF r.month \notin 1..12 THEN Failing(1843)
         ELSE IF ~ValidDate(year, r.month, r.day) THEN Failing(1839)
         ELSE [err |-> 0, d |-> [year |-> year, month |-> r.month, day |-> r.day, hour |-> hour,
                                 minute |-> r.minute, second |-> r.second, nanos |-> r.nanos]]

-----------------------------------------------------------------------------
(* Months and units.                                                        *)
MinYear == -4713
MaxYear == 9999

(* The day before the first of the next month.                              *)
last_day_of(y, m) == PrevDay(IF m = 12 THEN Day(y + 1, 1, 1) ELSE Day(y, m + 1, 1)).day
IsLast(d) == d.day = last_day_of(d.year, d.month)

add_months(d, months) ==
  LET total == d.year * 12 + (d.month - 1) + months
      year == total \div 12
      month == (total % 12) + 1
      last == last_day_of(year, month)
      day == IF IsLast(d) THEN last ELSE Min({d.day, last})
  IN  IF year \notin MinYear..MaxYear THEN Failing(1841)
      ELSE [err |-> 0, d |-> [d EXCEPT !.year = year, !.month = month, !.day = day]]

(* Whole months, and the seconds of a month of 31 days above or below.      *)
months_between(x, y) ==
  LET whole == (x.year - y.year) * 12 + x.month - y.month
      secs(d) == (d.day - 1) * 86400 + Seconds(d)
  IN  [whole |-> whole,
       secs |-> IF x.day = y.day \/ (IsLast(x) /\ IsLast(y)) THEN 0 ELSE secs(x) - secs(y)]

RECURSIVE Back(_, _)
Back(d, n) == IF n = 0 THEN d ELSE Back(PrevDay(d), n - 1)
trunc(d, unit) ==
  LET day == Day(d.year, d.month, d.day) IN
  CASE unit = "DD" -> day
    [] unit = "MM" -> [day EXCEPT !.day = 1]
    [] unit = "YYYY" -> [day EXCEPT !.day = 1, !.month = 1]
    [] unit = "Q" -> [day EXCEPT !.day = 1, !.month = ((d.month - 1) \div 3) * 3 + 1]
    [] unit = "HH" -> [day EXCEPT !.hour = d.hour]
    [] unit = "MI" -> [day EXCEPT !.hour = d.hour, !.minute = d.minute]
    [] unit = "D" -> Back(day, (Weekday(d) + 1) % 7)
    [] OTHER -> Back(day, Weekday(d))                                         (* IW *)

Fine(d) == [err |-> 0, d |-> d]
round_date(d, unit) ==
  CASE unit = "DD" -> Fine(trunc(Later(d, 43200), "DD"))
    [] unit = "HH" -> Fine(trunc(Later(d, 1800), "HH"))
    [] unit = "MI" -> Fine(trunc(Later(d, 30), "MI"))
    [] unit = "MM" /\ d.day >= 16 -> add_months(trunc(d, "MM"), 1)
    [] unit = "YYYY" /\ d.month >= 7 -> add_months(trunc(d, "YYYY"), 12)
    [] OTHER -> Fine(trunc(d, unit))

-----------------------------------------------------------------------------
(* The reference for formats.  A format can be read back if every field is  *)
(* in it once at most, AM goes with the hours of 1 to 12, a padded name is  *)
(* followed by punctuation or nothing, and a number is followed by another  *)
(* only if its width is fixed: RR, D and FF read more digits than they      *)
(* write, and in FM no width is.                                            *)
Fields == {{"Yyyy", "Yy", "Rr"}, {"Mm", "Mon", "Month"}, {"Dd"}, {"Hh24", "Hh12"}, {"Mi"}, {"Ss"},
           {"Ff3"}, {"Am"}}
InFm(f, i) == Cardinality({j \in 1..(i - 1) : f[j] = "Fm"}) % 2 = 1
After(f, i) ==
  LET later == {j \in (i + 1)..Len(f) : f[j] # "Fm"} IN
  IF later = {} THEN "end" ELSE f[Min(later)]
Readable(f) ==
  /\ \A F \in Fields : Cardinality({i \in DOMAIN f : f[i] \in F}) <= 1
  /\ Contains(f, "Am") => Contains(f, "Hh12")
  /\ \A i \in DOMAIN f :
       /\ (f[i] \in {"Month", "Day"} /\ ~InFm(f, i)) => After(f, i) \in {"punct", "end"}
       /\ (f[i] \in NumberElems /\ After(f, i) \in NumberElems)
            => (f[i] \notin {"Rr", "D", "Ff3"} /\ (f[i] = "Yy" \/ ~InFm(f, i)))

(* What a format keeps of a date.                                           *)
Kept(d, f) ==
  LET has(e) == Contains(f, e)
      century == IF has("Yy") \/ d.year % 100 < 50 THEN 2000 ELSE 1900
      year == IF has("Yyyy") THEN d.year
              ELSE IF has("Yy") \/ has("Rr") THEN century + (d.year % 100) ELSE ThisYear
      month == IF has("Mm") \/ has("Mon") \/ has("Month") THEN d.month ELSE 1
      day == IF has("Dd") THEN d.day ELSE 1
      hour == IF has("Hh24") \/ has("Am") THEN d.hour ELSE IF has("Hh12") THEN d.hour % 12 ELSE 0
  IN  IF ~ValidDate(year, month, day) THEN Failing(1839)
      ELSE [err |-> 0,
            d |-> [year |-> year, month |-> month, day |-> day, hour |-> hour,
                   minute |-> IF has("Mi") THEN d.minute ELSE 0,
                   second |-> IF has("Ss") THEN d.second ELSE 0,
                   nanos |-> IF has("Ff3") THEN (d.nanos \div 1000000) * 1000000 ELSE 0]]
ReadsBack(d, f) == Readable(f) => parse(format(d, f), f) = Kept(d, f)

(* The laws of months: adding them keeps the order of days, is undone by    *)
(* taking them away and counted by MONTHS_BETWEEN, where the day is in both *)
(* months or the last of them.                                              *)
MonthLaws(d, e, n) ==
  LET r == add_months(d, n)
      s == add_months(e, n)
      index(x) == x.year * 12 + x.month
  IN  /\ (r.err # 0) <=> (12 * MaxYear + 12 < index(d) + n \/ index(d) + n < 12 * MinYear + 1)
      /\ (r.err = 0 /\ s.err = 0 /\ DayNumber(d) <= DayNumber(e)) => DayNumber(r.d) <= DayNumber(s.d)
      /\ (r.err = 0 /\ (IsLast(d) \/ d.day < 28)) =>
           /\ months_between(r.d, d) = [whole |-> n, secs |-> 0]
           /\ add_months(r.d, -n).d = d
      /\ r.err = 0 => ValidDate(r.d.year, r.d.month, r.d.day)

(* A unit starts here; truncation goes back to the last start, rounding to  *)
(* the nearest one.                                                         *)
Starts(t, unit) ==
  /\ t.nanos = 0 /\ t.second = 0
  /\ unit # "MI" => t.minute = 0
  /\ unit \notin {"MI", "HH"} => t.hour = 0
  /\ unit \in {"MM", "Q", "YYYY"} => t.day = 1
  /\ unit = "Q" => t.month \in {1, 4, 7, 10}
  /\ unit = "YYYY" => t.month = 1
  /\ unit = "D" => Weekday(t) = 6
  /\ unit = "IW" => Weekday(t) = 0
Length(unit) == CASE unit = "MI" -> 60 [] unit = "HH" -> 3600 [] OTHER -> 86400
(* The days after t, up to that of d, at most a year later.                 *)
Between(t, d) ==
  {x \in {Day(y, m, n) : y \in {t.year, d.year}, m \in 1..12, n \in 1..31} :
     /\ ValidDate(x.year, x.month, x.day)
     /\ DayNumber(t) < DayNumber(x) /\ DayNumber(x) <= DayNumber(d)}
UnitLaws(d, unit) ==
  LET t == trunc(d, unit)
      rounded == round_date(d, unit)
      r == rounded.d
      days == DayNumber(d) - DayNumber(t)
      apart == (DayNumber(r) - DayNumber(d)) * 86400 + Seconds(r) - Seconds(d)
  IN  /\ Starts(t, unit) /\ NotAfter(t, d)
      /\ IF unit \in {"MI", "HH", "DD"} THEN days = 0 /\ Seconds(d) - Seconds(t) < Length(unit)
         ELSE \A x \in Between(t, d) : ~Starts(x, unit)
      /\ rounded.err # 0 => d.year = MaxYear
      /\ rounded.err = 0 =>
           /\ Starts(r, unit)
           /\ unit \in {"MI", "HH", "DD"} => 2 * apart <= Length(unit) /\ -2 * apart < Length(unit)
           /\ unit = "MM" => apart <= 16 * 86400 /\ -apart < 15 * 86400
           /\ unit = "YYYY" => apart <= 184 * 86400 /\ -apart < 182 * 86400
           /\ unit \in {"Q", "D", "IW"} => r = t
=============================================================================
