------------------------------- MODULE Queries -------------------------------
(***************************************************************************)
(* The evaluation of a query (eval.rs query, select, join, set_expr, sort, *)
(* aggregate): a pipeline over sequences of rows.  A row is a sequence of  *)
(* values, numbers and NULLs here; a select list is a sequence of columns, *)
(* ROWNUM and aggregates.  Expressions over the columns, names and types   *)
(* are left out.  Rows are compared as wholes where the code compares      *)
(* their key_string.  Numbers are even, so that a mean of two is whole.    *)
(***************************************************************************)
EXTENDS Conditions

NullRow(width) == [i \in 1..width |-> Null]
(* A condition that is one comparison.                                      *)
Passes(rel, x, y) == Holds(rel, compare(x, y)) = "T"

-----------------------------------------------------------------------------
(* FROM: the comma and CROSS JOIN, and the other joins on a comparison of   *)
(* two columns of the joined row.                                           *)
cross(left, right) ==
  FlattenSeq([i \in DOMAIN left |-> [j \in DOMAIN right |-> left[i] \o right[j]]])

Beside(l, hits, kind, rw) ==
  IF hits = << >> /\ kind \in {"left", "full"} THEN <<l \o NullRow(rw)>>
  ELSE [j \in DOMAIN hits |-> l \o hits[j]]
Padded(rows, lw) == [j \in DOMAIN rows |-> NullRow(lw) \o rows[j]]
join(kind, left, right, on, lw, rw) ==
  LET ok(l, r) == LET row == l \o r IN Passes(on.rel, row[on.a], row[on.b])
      lone(r) == kind \in {"right", "full"} /\ \A i \in DOMAIN left : ~ok(left[i], r)
  IN  FlattenSeq([i \in DOMAIN left |->
                    Beside(left[i], SelectSeq(right, LAMBDA r : ok(left[i], r)), kind, rw)])
      \o Padded(SelectSeq(right, lone), lw)

source(q) ==
  CASE q.join = "none" -> q.left
    [] q.join = "cross" -> cross(q.left, q.right)
    [] OTHER -> join(q.join, q.left, q.right, q.on, q.lw, q.rw)

(* WHERE: a row's ROWNUM is one more than the rows accepted before it.      *)
accepted(rows, w) ==
  LET test(row, rownum) == \/ w.k = "none"
                           \/ w.k = "col" /\ Passes(w.rel, row[w.c], w.x)
                           \/ w.k = "rownum" /\ Passes(w.rel, Num(rownum), w.x)
  IN  FoldLeft(LAMBDA acc, row : IF test(row, Len(acc) + 1) THEN Append(acc, row) ELSE acc,
               << >>, rows)

-----------------------------------------------------------------------------
(* Aggregates over the non-NULL values of a group.                          *)
distinct(s) == FoldLeft(LAMBDA acc, x : IF Contains(acc, x) THEN acc ELSE Append(acc, x), << >>, s)
Numbers(s) == [i \in DOMAIN s |-> to_number(s[i])[1]]
Sorted(ns) == SortSeq(ns, <)
Best(ord, s) == FoldLeft(LAMBDA b, x : IF compare(x, b) = ord THEN x ELSE b, s[1], s)

aggregate(f, cells) ==
  LET all == SelectSeq(cells, LAMBDA x : x # Null)
      s == IF f.distinct THEN distinct(all) ELSE all
      ns == Sorted(Numbers(s))
      mid == Len(ns) \div 2
  IN
  CASE f.name = "COUNT" -> Num(Len(s))
    [] f.name # "COUNT" /\ s = << >> -> Null
    [] f.name = "SUM" /\ s # << >> -> Num(FoldLeft(+, 0, Numbers(s)))
    [] f.name = "MIN" /\ s # << >> -> Best("<", s)
    [] f.name = "MAX" /\ s # << >> -> Best(">", s)
    [] OTHER -> Num(IF Len(ns) % 2 = 1 THEN ns[mid + 1]                   (* MEDIAN *)
                    ELSE (ns[mid] + ns[mid + 1]) \div 2)

(* An item of the select list, for a row or a group (its first row).        *)
Scope(row, rownum, group) == [row |-> row, rownum |-> rownum, group |-> group]
eval(item, s) ==
  CASE item.k = "col" -> s.row[item.c]
    [] item.k = "rownum" -> Num(s.rownum)
    [] item.k = "count(*)" -> Num(Len(s.group))
    [] OTHER -> aggregate(item, [i \in DOMAIN s.group |-> s.group[i][item.c]])

contains_aggregate(item) == item.k \in {"count(*)", "agg"}
IsAggregate(q) ==
  \/ q.group # << >> \/ q.having # << >>
  \/ \E i \in DOMAIN q.items : contains_aggregate(q.items[i])
  \/ \E i \in DOMAIN q.order : q.order[i].out = 0 /\ contains_aggregate(q.order[i].item)

(* GROUP BY: groups in the order they were first seen; NULL is a key.       *)
Key(q, row) == [i \in DOMAIN q.group |-> row[q.group[i]]]

(* Mutant: a row without a key is in no group. *)
GroupNonNull(q, groups, row) ==
  LET at == SelectInSeq(groups, LAMBDA g : Key(q, g[1]) = Key(q, row)) IN
  IF Contains(Key(q, row), Null) THEN groups
  ELSE IF at = 0 THEN Append(groups, <<row>>)
  ELSE [groups EXCEPT ![at] = Append(@, row)]

Grouped(q, groups, row) ==
  LET at == SelectInSeq(groups, LAMBDA g : Key(q, g[1]) = Key(q, row)) IN
  IF at = 0 THEN Append(groups, <<row>>) ELSE [groups EXCEPT ![at] = Append(@, row)]

Groups(q, rows) ==
  IF q.group = << >> THEN <<rows>>
  ELSE FoldLeft(LAMBDA gs, row : Grouped(q, gs, row), << >>, rows)

(* The rows of the result, each with its ORDER BY keys: a key is an item of *)
(* the select list or an expression over the source.                        *)
compute(q, s) ==
  LET values == [i \in DOMAIN q.items |-> eval(q.items[i], s)] IN
  [values |-> values,
   keys |-> [i \in DOMAIN q.order |->
               IF q.order[i].out # 0 THEN values[q.order[i].out]
               ELSE eval(q.order[i].item, s)]]

Scopes(q, rows, groups) ==
  LET first(g) == IF g = << >> THEN NullRow(q.lw + q.rw) ELSE g[1] IN
  IF IsAggregate(q) THEN [n \in DOMAIN groups |-> Scope(first(groups[n]), n, groups[n])]
  ELSE [n \in DOMAIN rows |-> Scope(rows[n], n, << >>)]
Having(q, s) == q.having = << >> \/ Passes(">", eval(q.having[1], s), Num(1))
Projected(q, scopes) == [n \in DOMAIN scopes |-> compute(q, scopes[n])]
Unrepeated(out) ==
  FoldLeft(LAMBDA acc, r : IF \E i \in DOMAIN acc : acc[i].values = r.values
                           THEN acc ELSE Append(acc, r), << >>, out)
Selected(q, rows) ==
  Projected(q, SelectSeq(Scopes(q, rows, Groups(q, rows)), LAMBDA s : Having(q, s)))
select(q) ==
  LET out == Selected(q, accepted(source(q), q.where)) IN
  IF q.distinct THEN Unrepeated(out) ELSE out

(* Set operations, on the rows as wholes.                                   *)
set_op(op, left, right) ==
  CASE op = "union all" -> left \o right
    [] op = "union" -> distinct(left \o right)
    [] op = "intersect" -> distinct(SelectSeq(left, LAMBDA r : Contains(right, r)))
    [] OTHER -> distinct(SelectSeq(left, LAMBDA r : ~Contains(right, r)))      (* MINUS *)

set_expr(q) ==
  LET rows == set_op(q.op, q.left, q.right) IN
  [n \in DOMAIN rows |->
     [values |-> rows[n], keys |-> [i \in DOMAIN q.order |-> rows[n][q.order[i].out]]]]

-----------------------------------------------------------------------------
(* ORDER BY: NULLs are first only if asked for or descending, and do not    *)
(* turn round with the values.  sort_by is stable.                          *)
nulls_first(o) == IF o.nulls = "default" THEN o.desc ELSE o.nulls = "first"
KeyOrder(o, a, b) ==
  CASE a = Null /\ b = Null -> "="
    [] a = Null /\ b # Null -> IF nulls_first(o) THEN "<" ELSE ">"
    [] a # Null /\ b = Null -> IF nulls_first(o) THEN ">" ELSE "<"
    [] OTHER -> IF o.desc THEN compare(b, a) ELSE compare(a, b)
Decided(orders) ==
  LET differ == {i \in DOMAIN orders : orders[i] # "="} IN
  differ # {} /\ orders[Min(differ)] = "<"
Before(order, a, b) == Decided([i \in DOMAIN order |-> KeyOrder(order[i], a[i], b[i])])

sort(rows, order) ==
  LET place(acc, r) == Cardinality({i \in DOMAIN acc : ~Before(order, r.keys, acc[i].keys)}) + 1
  IN  FoldLeft(LAMBDA acc, r : InsertAt(acc, place(acc, r), r), << >>, rows)

(* OFFSET and FETCH: NULL and what is negative are 0.                       *)
limit(n) == IF n < 0 THEN 0 ELSE n
limited(q, rows) ==
  LET skip == IF q.offset = << >> THEN 0 ELSE Min({limit(q.offset[1]), Len(rows)})
      rest == SubSeq(rows, skip + 1, Len(rows))
      take == IF q.fetch = << >> THEN Len(rest) ELSE Min({limit(q.fetch[1]), Len(rest)})
  IN  [n \in 1..take |-> rest[n].values]
query(q) ==
  limited(q, sort(IF q.op = "select" THEN select(q) ELSE set_expr(q), q.order))

-----------------------------------------------------------------------------
(* The reference: a query denotes a set of rows, each with the place in the *)
(* source it comes from, of which the result lists those whose rank in the  *)
(* order of the keys, and of the places among equal keys, is within the     *)
(* limits.  A pair of positions stands for a row of the source, 0 for a row *)
(* of NULLs.                                                                *)
RowAt(q, p) ==
  (IF p[1] = 0 THEN NullRow(q.lw) ELSE q.left[p[1]])
  \o (IF p[2] = 0 THEN NullRow(q.rw) ELSE q.right[p[2]])
Place(q, p) == (IF p[1] = 0 THEN Len(q.left) + 1 ELSE p[1]) * (Len(q.right) + 1) + p[2]

Matched(q) == {p \in (DOMAIN q.left) \X (DOMAIN q.right) :
                 LET r == RowAt(q, p) IN Passes(q.on.rel, r[q.on.a], r[q.on.b])}
Unmatched(q, hits) ==
  {<<i, 0>> : i \in {i \in DOMAIN q.left : q.join \in {"left", "full"} /\ \A p \in hits : p[1] # i}}
  \cup {<<0, j>> : j \in {j \in DOMAIN q.right : q.join \in {"right", "full"} /\ \A p \in hits : p[2] # j}}
Outer(q, hits) == hits \cup Unmatched(q, hits)
Joined(q) ==
  CASE q.join = "none" -> {<<i, 0>> : i \in DOMAIN q.left}
    [] q.join = "cross" -> (DOMAIN q.left) \X (DOMAIN q.right)
    [] OTHER -> Outer(q, Matched(q))

Standing(S, place(_), x) == Cardinality({y \in S : place(y) <= place(x)})

(* ROWNUM = 2 or ROWNUM > 1 accept nothing, whatever the rows.              *)
Chosen(q, P) ==
  LET n == q.where.x.v[1] IN
  CASE q.where.k = "none" -> P
    [] q.where.k = "col" -> {p \in P : Passes(q.where.rel, RowAt(q, p)[q.where.c], q.where.x)}
    [] q.where.k = "rownum" /\ q.where.rel = "<=" ->
         {p \in P : Standing(P, LAMBDA y : Place(q, y), p) <= n}
    [] OTHER -> IF n = 1 THEN {p \in P : Standing(P, LAMBDA y : Place(q, y), p) = 1} ELSE {}

(* An aggregate of a set of source rows.                                    *)
Cell(q, f, p) == RowAt(q, p)[f.c]
Counted(q, f, full) ==
  IF ~f.distinct THEN full
  ELSE {p \in full : \A r \in full :
          Cell(q, f, r) = Cell(q, f, p) => Place(q, p) <= Place(q, r)}
AggregateOf(f, S, number(_)) ==
  LET below(p) == Cardinality({r \in S : number(r) < number(p)})
      upto(p) == Cardinality({r \in S : number(r) <= number(p)})
      nth(n) == number(CHOOSE p \in S : below(p) < n /\ n <= upto(p))
      size == Cardinality(S)
  IN
  CASE f.name = "COUNT" -> Num(size)
    [] f.name # "COUNT" /\ S = {} -> Null
    [] f.name = "SUM" /\ S # {} -> Num(MapThenSumSet(number, S))
    [] f.name = "MIN" /\ S # {} -> Num(nth(1))
    [] f.name = "MAX" /\ S # {} -> Num(nth(size))
    [] OTHER -> Num((nth((size + 1) \div 2) + nth((size + 2) \div 2)) \div 2)
Aggregated(q, f, G) ==
  AggregateOf(f, Counted(q, f, {p \in G : Cell(q, f, p) # Null}),
              LAMBDA p : Cell(q, f, p).v[1])

(* What a query makes of the chosen rows: every row, or every class of rows *)
(* with one key (all of them without GROUP BY).                             *)
Classes(q, P) ==
  IF ~IsAggregate(q) THEN {{p} : p \in P}
  ELSE IF q.group = << >> THEN {P}
  ELSE {{r \in P : Key(q, RowAt(q, r)) = Key(q, RowAt(q, p))} : p \in P}
Lead(q, G) == IF G = {} THEN 0 ELSE Min({Place(q, p) : p \in G})
ValueOf(q, classes, item, G) ==
  CASE item.k = "col" -> (IF G = {} THEN NullRow(q.lw + q.rw)
                          ELSE RowAt(q, CHOOSE p \in G : Place(q, p) = Lead(q, G)))[item.c]
    [] item.k = "rownum" -> Num(Standing(classes, LAMBDA H : Lead(q, H), G))
    [] item.k = "count(*)" -> Num(Cardinality(G))
    [] OTHER -> Aggregated(q, item, G)
Made(q, place, values, value(_)) ==
  [place |-> place, values |-> values,
   keys |-> [i \in DOMAIN q.order |-> IF q.order[i].out # 0 THEN values[q.order[i].out]
                                      ELSE value(q.order[i].item)]]
Above1(v) == v # Null /\ v.v[1] > 1
FirstOnly(S) == {x \in S : \A y \in S : y.values = x.values => x.place <= y.place}
MadeOf(q, classes) ==
  {Made(q, Lead(q, G), [i \in DOMAIN q.items |-> ValueOf(q, classes, q.items[i], G)],
        LAMBDA item : ValueOf(q, classes, item, G)) :
     G \in {G \in classes : q.having = << >> \/ Above1(ValueOf(q, classes, q.having[1], G))}}
Denoted(q) ==
  LET all == MadeOf(q, Classes(q, Chosen(q, Joined(q)))) IN
  IF q.distinct THEN FirstOnly(all) ELSE all

Combined(q) ==
  LET item(r, place) == [place |-> place, values |-> r,
                         keys |-> [i \in DOMAIN q.order |-> r[q.order[i].out]]]
      L == {item(q.left[i], i) : i \in DOMAIN q.left}
      R == {item(q.right[j], Len(q.left) + j) : j \in DOMAIN q.right}
      in(x, S) == \E y \in S : y.values = x.values
      all == CASE q.op \in {"union all", "union"} -> L \cup R
               [] q.op = "intersect" -> {x \in L : in(x, R)}
               [] OTHER -> {x \in L : ~in(x, R)}
  IN  IF q.op = "union all" THEN all ELSE FirstOnly(all)

(* A key as a number: NULL lies beyond every value, on the side asked for.  *)
Weight(o, x) ==
  IF x = Null THEN (IF o.nulls = "first" \/ (o.nulls = "default" /\ o.desc) THEN -1000 ELSE 1000)
  ELSE IF o.desc THEN -x.v[1] ELSE x.v[1]
Precedes(q, x, y) ==
  LET w(z, i) == Weight(q.order[i], z.keys[i])
      same(n) == \A i \in 1..n : w(x, i) = w(y, i)
  IN  \/ \E i \in DOMAIN q.order : same(i - 1) /\ w(x, i) < w(y, i)
      \/ same(Len(q.order)) /\ x.place < y.place

Listed(q, S) ==
  LET nth(n) == CHOOSE x \in S : Cardinality({y \in S : Precedes(q, y, x)}) = n - 1
      from == IF q.offset = << >> THEN 0 ELSE Max({q.offset[1], 0})
      upto == IF q.fetch = << >> THEN Cardinality(S) ELSE from + Max({q.fetch[1], 0})
  IN  [n \in 1..Max({Min({upto, Cardinality(S)}) - from, 0}) |-> nth(from + n).values]
Answer(q) == Listed(q, IF q.op = "select" THEN Denoted(q) ELSE Combined(q))
=============================================================================
