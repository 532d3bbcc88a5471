----------------------------- MODULE MCAlgorithms -----------------------------
(* Small inputs for every algorithm.                                        *)
EXTENDS Algorithms

MCValues == {Null, Num(1), Num(2), Text(<<49>>), Text(<<49, 32>>), Text(<<120>>),
             Date(5), Bool(1), Failure}
MCRels == {"=", "<>", "<", "<=", ">", ">="}
MCCmp == [op : {"cmp"}, rel : MCRels, x : MCValues, y : MCValues]
MCIsNull == [op : {"isnull"}, x : MCValues, negated : BOOLEAN]
MCBetween == [op : {"between"}, x : MCValues, low : MCValues, high : MCValues, negated : BOOLEAN]
MCIn == [op : {"in"}, x : MCValues, list : SeqOf(MCValues, 2), negated : BOOLEAN]
MCValue == [op : {"value"}, x : MCValues]
MCTexts == {Text(s) : s \in SeqOf({97, 98}, 4) \ {<< >>}}
MCPatterns == {Text(s) : s \in SeqOf({97, 37, 95, 92}, 4) \ {<< >>}}
MCLike ==
  [op : {"like"}, x : MCTexts, pattern : MCPatterns, escape : {Null}, negated : {FALSE}]
  \cup [op : {"like"}, x : {Text(<<97, 37>>), Text(<<37>>), Text(<<92, 97>>), Num(1), Null},
        pattern : MCPatterns \cup {Null},
        escape : {Null, Text(<<92>>), Text(<< >>), Failure}, negated : BOOLEAN]
MCSimpleConditions == MCCmp \cup MCIsNull \cup MCBetween \cup MCIn \cup MCValue \cup MCLike

MCJoinedConditions ==
  {[op |-> "cmp", rel |-> "<", x |-> x, y |-> Num(2)] : x \in MCValues}
  \cup {[op |-> "in", x |-> Num(1), list |-> l, negated |-> TRUE] : l \in SeqOf(MCValues, 1)}
  \cup {[op |-> "isnull", x |-> Null, negated |-> FALSE]}

(* Queries: a plain one, and what each of the options makes of it.          *)
MCCells == {Null, Num(2), Num(4)}
MCRows(width, n) == SeqOf([1..width -> MCCells], n)
MCCol(c) == [k |-> "col", c |-> c]
MCStar == [k |-> "count(*)"]
MCRownum == [k |-> "rownum"]
MCAgg(name, d) == [k |-> "agg", name |-> name, c |-> 2, distinct |-> d]
MCOrder(out, item, desc, nulls) == [out |-> out, item |-> item, desc |-> desc, nulls |-> nulls]
MCNoWhere == [k |-> "none", x |-> Num(0)]
MCWheres ==
  {MCNoWhere}
  \cup [k : {"col"}, rel : {"=", ">"}, c : {2}, x : {Num(2)}]
  \cup [k : {"rownum"}, rel : {"<="}, x : {Num(0), Num(2)}]
  \cup [k : {"rownum"}, rel : {"="}, x : {Num(1), Num(2)}]
MCPlain ==
  [op |-> "select", join |-> "none", on |-> [rel |-> "=", a |-> 1, b |-> 1],
   where |-> MCNoWhere, group |-> << >>, having |-> << >>, items |-> <<MCCol(1), MCCol(2)>>,
   distinct |-> FALSE, order |-> << >>, offset |-> << >>, fetch |-> << >>]
MCAggregates ==
  {<<MCStar>>} \cup {<<MCAgg(name, d)>> : name \in {"COUNT", "SUM", "MIN", "MAX", "MEDIAN"},
                                         d \in BOOLEAN}
MCOrders ==
  {<<MCOrder(0, MCCol(1), desc, nulls)>> : desc \in BOOLEAN,
                                            nulls \in {"default", "first", "last"}}
  \cup {<<MCOrder(2, MCCol(1), TRUE, "last"), MCOrder(0, MCCol(1), FALSE, "default")>>}
MCSingle ==
  {[MCPlain EXCEPT !.where = w, !.items = <<MCRownum, MCCol(1)>>] : w \in MCWheres}
  \cup {[MCPlain EXCEPT !.group = g, !.items = i] : g \in {<< >>, <<1>>}, i \in MCAggregates}
  \cup {[MCPlain EXCEPT !.group = <<1>>, !.having = h, !.items = <<MCCol(1), MCRownum>>,
                        !.order = o] :
          h \in {<< >>, <<MCStar>>}, o \in {<< >>, <<MCOrder(0, MCAgg("SUM", FALSE), TRUE, "default")>>}}
  \cup {[MCPlain EXCEPT !.order = o] : o \in MCOrders}
  \cup {[MCPlain EXCEPT !.items = <<MCCol(2)>>, !.distinct = TRUE, !.order = o] :
          o \in {<< >>, <<MCOrder(0, MCCol(1), TRUE, "default")>>}}
  \cup {[MCPlain EXCEPT !.offset = o, !.fetch = f] : o \in {<< >>, <<-1>>, <<1>>, <<4>>},
                                                   f \in {<< >>, <<-1>>, <<2>>}}
  \cup {[MCPlain EXCEPT !.having = <<MCStar>>, !.items = <<MCCol(1), MCStar>>]}
MCJoins ==
  {[MCPlain EXCEPT !.join = j, !.on = [rel |-> rel, a |-> 1, b |-> 3],
                   !.items = <<MCCol(1), MCCol(2), MCCol(3)>>] :
     j \in {"cross", "inner", "left", "right", "full"}, rel \in {"=", "<"}}
  \cup {[MCPlain EXCEPT !.join = "full", !.on = [rel |-> "=", a |-> 1, b |-> 3],
                        !.where = [k |-> "rownum", rel |-> "<=", x |-> Num(1)],
                        !.items = <<MCCol(3)>>]}
MCSets ==
  {[MCPlain EXCEPT !.op = op, !.order = o] :
     op \in {"union all", "union", "intersect", "minus"},
     o \in {<< >>, <<MCOrder(1, MCCol(1), TRUE, "default")>>}}
MCQueryFamilies ==
  {[left |-> MCRows(2, 3), lw |-> 2, right |-> {<< >>}, rw |-> 0, shapes |-> MCSingle],
   [left |-> MCRows(2, 2), lw |-> 2, right |-> MCRows(1, 2), rw |-> 1, shapes |-> MCJoins],
   [left |-> MCRows(1, 3), lw |-> 1, right |-> MCRows(1, 2), rw |-> 1, shapes |-> MCSets]}

(* Keys: texts that look like other values, their tags and separators.      *)
MCKeyValuesOf ==
  {Null, Num(1), Num(11), Date(1), Bool(0), Bool(1)}
  \cup {Text(s) : s \in (SeqOf({49, 115}, 2) \ {<< >>}) \cup {<<126>>, <<110, 49>>, <<84>>, <<115, 110, 49>>,
                                                      <<49, 1>>, <<49, 1, 115, 49>>}}
MCKeyRows == SeqOf(MCKeyValuesOf, 2)

(* The wire: lengths around the limits of short strings and of chunks, and  *)
(* numbers around those of digits and exponents.                            *)
MCWireIntegers == [v : {Wide(b) : b \in SeqOf({0, 1, 255}, 4)} \cup {<<0, 0, 0, 1, 0, 0, 0, 0>>, <<255, 0, 0, 0, 0, 0, 0, 1>>},
                   negative : BOOLEAN, after : {<< >>, <<7>>}]
MCStrings == SeqOf({0, 254}, 5) \cup {[i \in 1..n |-> 65] : n \in 6..10}
MCKeyValues == [key : {<< >>, <<65>>, <<65, 66, 67, 68>>}, value : MCStrings, flags : {Zeros(8), Wide(<<1, 0, 0, 0>>)}]
MCNumbers ==
  {[neg |-> FALSE, whole |-> <<0>>, frac |-> << >>, exp |-> 0]}
  \cup [neg : BOOLEAN, whole : {<<1>>, <<9>>}, frac : SeqOf({0, 1, 9}, 4),
        exp : {-131, -130, -129, -128, -127, -2, -1, 0, 1, 2, 123, 124, 125, 126, 127, 128}]
MCDates ==
  {[year |-> y, month |-> md[1], day |-> md[2], hour |-> t[1], minute |-> t[2], second |-> t[3],
    nanos |-> n] : y \in {-4713, -100, -99, -1, 1, 99, 100, 1999, 2000, 9999},
    md \in {<<1, 1>>, <<2, 28>>, <<12, 31>>}, t \in {<<0, 0, 0>>, <<23, 59, 59>>},
    n \in {Zeros(4), <<0, 0, 0, 1>>, <<59, 154, 201, 255>>}}
MCSome(t, S) == {NullOf(t)} \cup {[t |-> t, x |-> <<x>>] : x \in S}
MCWireValues ==
  [empty |-> {NullOf("empty")}, number |-> MCSome("number", MCNumbers),
   date |-> MCSome("date", MCDates), timestamp |-> MCSome("timestamp", MCDates),
   text |-> MCSome("text", MCStrings \ {<< >>}), boolean |-> MCSome("boolean", BOOLEAN)]
MCShortValues ==
  [empty |-> {NullOf("empty")}, text |-> MCSome("text", {<<0, 254, 0, 1>>}),
   boolean |-> MCSome("boolean", {FALSE})]
MCPayloads == [sdu : 11..13, payload : SeqOf({0, 6}, 4) \cup {[i \in 1..7 |-> i]}, cut : 0..84]

MCSeparators == {"a", ";", "/", "*", "-", "'", "\n", " ", "BEGIN"}
MCScript(text, left, alphabet) == [text |-> text, left |-> left, alphabet |-> alphabet]
MCScriptStarts ==
  {MCScript(<< >>, 5, MCSeparators),
   MCScript(<< >>, 4, {"1", ".", "e", "+", ":", "=", "a", " "}),
   MCScript(<< >>, 4, {"a", "\"", "'", ";", "*"}),
   MCScript(<<"a", "\n">>, 3, {"/", " ", "\n", "'", ";"}),
   MCScript(<<"CREATE", " ">>, 4, {"OR", "EDITIONABLE", "PROCEDURE", " ", ";"}),
   MCScript(<<"CREATE", " ", "OR", " ", "a", " ">>, 4, {"EDITIONABLE", "PROCEDURE", " ", ";", "/", "\n"}),
   MCScript(<<"CREATE", "/", "*", ";", "*", "/", "PROCEDURE", "\n">>, 3, {";", "/", "\n", "a", "'"})}

(* Dates: both sides of midnight and noon, the ends of months and of the    *)
(* centuries a two-digit year stands for.                                   *)
MCAt(d, h, m, s, n) == [d EXCEPT !.hour = h, !.minute = m, !.second = s, !.nanos = n]
MCFormatDates ==
  {MCAt(Day(2024, 2, 29), 0, 5, 9, 123456789), MCAt(Day(1950, 9, 1), 12, 0, 59, 0),
   MCAt(Day(2049, 5, 10), 11, 59, 0, 5000000), MCAt(Day(987, 12, 31), 23, 30, 30, 999999999)}
MCFormatStarts ==
  {[f |-> << >>, left |-> 3],
   [f |-> <<"Dd", "punct", "Mon", "punct", "Rr">>, left |-> 1],
   [f |-> <<"Fm", "Dd", "punct", "Month", "punct">>, left |-> 1],
   [f |-> <<"Dd", "punct", "Mon", "punct", "Rr", "punct", "Hh12", "punct", "Mi", "punct", "Ss",
            "X", "Ff3", "punct", "Am">>, left |-> 0]}
MCFormatElems == NumberElems \cup NameElems \cup OtherElems
MCMonthDays == {<<1, 1>>, <<1, 29>>, <<1, 31>>, <<2, 28>>, <<2, 29>>, <<3, 15>>, <<3, 16>>, <<4, 30>>,
                <<6, 30>>, <<7, 1>>, <<10, 1>>, <<12, 31>>}
MCDays(years) ==
  {Day(y, md[1], md[2]) : y \in years, md \in MCMonthDays} \ {Day(y, 2, 29) : y \in {1900, 2023, 9999}}
MCSomeDates ==
  {MCAt(d, t[1], t[2], t[3], 0) : d \in MCDays({1900, 2000, 2023, 2024, 9999}),
                                  t \in {<<0, 0, 0>>, <<11, 59, 30>>, <<12, 30, 0>>, <<23, 59, 59>>}}
MCOtherDates == {MCAt(d, 12, 0, 0, 0) : d \in MCDays({2023, 2024})}
MCMonthCounts == {-13, -1, 0, 1, 12}
MCUnits == {"DD", "MM", "YYYY", "Q", "HH", "MI", "D", "IW"}

(* Columns of every type, and numbers around their halves and limits.       *)
MCStoreColumns ==
  {[type |-> "number", precision |-> p, scale |-> c, max |-> 0] : p \in 1..3, c \in {-1, 0, 1}}
  \cup {[type |-> "number", precision |-> 0, scale |-> 0, max |-> 0],
        [type |-> "number", precision |-> 2, scale |-> 2, max |-> 0],
        [type |-> "number", precision |-> 1, scale |-> 2, max |-> 0],
        [type |-> "number", precision |-> 2, scale |-> 3, max |-> 0],
        [type |-> "date", precision |-> 0, scale |-> 0, max |-> 0]}
  \cup [type : {"varchar2", "char"}, precision : {0}, scale : {0}, max : {1, 3}]
  \cup [type : {"timestamp"}, precision : {0, 3, 6, 9}, scale : {0}, max : {0}]
MCAround(n) == {n - 1, n, n + 1}
MCStoreValues ==
  [null |-> {<< >>}, bool |-> {<<1>>},
   num |-> {<<n>> : n \in {-1 * m : m \in 0..99} \cup (0..99)
                             \cup UNION {MCAround(m) : m \in {500, 949, 950, 994, 995, 1000, 4999,
                                                               9500, 9950, 99499, 99950, 994999, 999500,
                                                               9949999, 9994999}}},
   text |-> {s : s \in SeqOf({49, 57, 65, 32}, 4) \ {<< >>}},
   date |-> {<<MCAt(d, t[1], t[2], t[3], n)>> :
               d \in {Day(2024, 2, 28), Day(1999, 12, 31)}, t \in {<<0, 0, 0>>, <<23, 59, 59>>},
               n \in {0, 1, 499, 500, 499999, 500000, 499999999, 500000000, 999999499, 999999500,
                      999499999, 999500000, 999999999}}]
=============================================================================
