--------------------------- MODULE CatalogProofs ---------------------------
(***************************************************************************)
(* What the operations of tables and catalogs preserve, for tables and     *)
(* catalogs of any size: the type of a table, that no two rows share the   *)
(* key of an enforced unique constraint (UniqueHolds), and that the index  *)
(* of the constraint holds every row's key (IndexCovers). UniqueHolds is   *)
(* not preserved on its own: an insert or update looks for duplicates in   *)
(* the index only, so the index has to cover the rows.                     *)
(***************************************************************************)
EXTENDS Ddl, TLAPS, FiniteSetTheorems, WellFoundedInduction

(* A step is proved by Zenon unless it names another prover. *)
USE Zenon

Fits(t, values) == values \in Row /\ Len(values) = t.columns

Entry == [id: Nat, values: Row]

-----------------------------------------------------------------------------
(* unique_key builds keys of cells: the columns of a constraint are columns *)
(* of the table.                                                            *)
LEMMA UniqueKeyType ==
  ASSUME NEW columns \in Seq(Column), NEW values \in Row,
         InWidth(columns, Len(values))
  PROVE  unique_key(columns, values) \subseteq Key
<1> DEFINE k == [i \in DOMAIN columns |-> values[columns[i]]]
<1>1. \A i \in DOMAIN columns : values[columns[i]] \in Cell
  BY SMT DEF InWidth, Row
<1>2. DOMAIN columns = 1..Len(columns) /\ Len(columns) \in Nat
  BY SMT
<1>3. k \in [1..Len(columns) -> Cell]
  BY <1>1, <1>2
<1>4. k \in Seq(Cell)
  BY <1>2, <1>3, SMT
<1> QED
  BY <1>4 DEF unique_key, Key

(* The same for the keys of a table's constraints. *)
LEMMA KeyOfType ==
  ASSUME NEW t, IsTable(t), NEW u \in DOMAIN t.unique, NEW values, Fits(t, values)
  PROVE  KeyOf(t, u, values) \subseteq Key
<1>1. t.unique[u].columns \in Seq(Column) /\ InWidth(t.unique[u].columns, Len(values))
  BY DEF IsTable, Unique, Fits
<1> QED
  BY <1>1, UniqueKeyType DEF KeyOf, Fits

Rebuild(t, rows, new) == [t EXCEPT !.rows = rows, !.unique = Reindex(t, new)]

(* What replacing the rows of a table and rewriting the indexes of its       *)
(* enforced constraints leaves alone.                                        *)
LEMMA Rebuilt ==
  ASSUME NEW t, IsTable(t), NEW rows, NEW new,
         DOMAIN rows \subseteq Nat, IsFiniteSet(DOMAIN rows),
         \A i \in DOMAIN rows : Fits(t, rows[i]),
         \A u \in DOMAIN t.unique : new[u] \subseteq Key
  PROVE  LET r == Rebuild(t, rows, new)
         IN  /\ IsTable(r)
             /\ r.rows = rows /\ r.columns = t.columns
             /\ Enforced(r) = Enforced(t)
             /\ \A u \in DOMAIN t.unique : \A v : KeyOf(r, u, v) = KeyOf(t, u, v)
             /\ \A u \in Enforced(t) : r.unique[u].index = new[u]
<1> DEFINE r == Rebuild(t, rows, new)
<1>1. /\ DOMAIN r = {"columns", "not_null", "unique", "fks", "rows"}
      /\ r.columns = t.columns /\ r.not_null = t.not_null /\ r.fks = t.fks
      /\ r.rows = rows /\ r.unique = Reindex(t, new)
  BY DEF IsTable, Rebuild
<1> HIDE DEF r
<1>2. /\ DOMAIN r.unique = DOMAIN t.unique
      /\ \A u \in DOMAIN t.unique :
           /\ r.unique[u] \in Unique
           /\ r.unique[u].columns = t.unique[u].columns
           /\ r.unique[u].enabled = t.unique[u].enabled
           /\ t.unique[u].enabled => r.unique[u].index = new[u]
  <2>1. \A u \in DOMAIN t.unique : t.unique[u] \in Unique /\ new[u] \subseteq Key
    BY DEF IsTable
  <2>2. r.unique = Reindex(t, new)
    BY <1>1
  <2>3. /\ DOMAIN r.unique = DOMAIN t.unique
        /\ \A u \in DOMAIN t.unique :
             r.unique[u] = IF t.unique[u].enabled
                           THEN [t.unique[u] EXCEPT !.index = new[u]]
                           ELSE t.unique[u]
    BY ONLY <2>2 DEF Reindex
  <2>4. ASSUME NEW u \in DOMAIN t.unique
        PROVE  /\ r.unique[u] \in Unique
               /\ r.unique[u].columns = t.unique[u].columns
               /\ r.unique[u].enabled = t.unique[u].enabled
               /\ t.unique[u].enabled => r.unique[u].index = new[u]
    <3> DEFINE q == t.unique[u]
               k == new[u]
               z == r.unique[u]
    <3>1. /\ q \in Unique /\ k \in SUBSET Key
          /\ z = IF q.enabled THEN [q EXCEPT !.index = k] ELSE q
      BY <2>1, <2>3
    <3> HIDE DEF q, k, z
    <3>2. /\ z \in Unique /\ z.columns = q.columns /\ z.enabled = q.enabled
          /\ q.enabled => z.index = k
      <4>1. CASE q.enabled
        BY ONLY <3>1, <4>1 DEF Unique
      <4>2. CASE ~q.enabled
        BY ONLY <3>1, <4>2
      <4> QED
        BY ONLY <4>1, <4>2
    <3> QED
      BY ONLY <3>2 DEF q, k, z
  <2> QED
    BY ONLY <2>3, <2>4
<1>3. IsTable(r)
  BY <1>1, <1>2 DEF IsTable, Fits
<1> QED
  BY <1>1, <1>2, <1>3 DEF Enforced, KeyOf, r

-----------------------------------------------------------------------------
(* Table::insert: a row is stored only when no index holds one of its keys, *)
(* and the indexes cover it afterwards.                                     *)
LEMMA InsertGood ==
  ASSUME NEW t, GoodTable(t), NEW id \in Nat, NEW values, Fits(t, values)
  PROVE  LET r == Table_insert(t, id, values)
         IN  GoodTable(r.table) /\ r.table.columns = t.columns
<1> DEFINE rows == [i \in DOMAIN t.rows \cup {id} |->
                      IF i = id THEN values ELSE t.rows[i]]
           new == [u \in DOMAIN t.unique |->
                     t.unique[u].index \cup KeyOf(t, u, values)]
           free == ~\E u \in Enforced(t) :
                      KeyOf(t, u, values) \cap t.unique[u].index # {}
           r == Rebuild(t, rows, new)
<1>1. CASE ~free
  BY <1>1 DEF Table_insert
<1>2. CASE free
  <2>1. Table_insert(t, id, values).table = r
    BY <1>2 DEF Table_insert, Rebuild
  <2>2. DOMAIN rows \subseteq Nat /\ IsFiniteSet(DOMAIN rows)
    BY FS_AddElement DEF GoodTable, IsTable
  <2>3. \A i \in DOMAIN rows : Fits(t, rows[i])
    BY DEF GoodTable, IsTable, Fits
  <2>4. \A u \in DOMAIN t.unique : new[u] \subseteq Key
    BY KeyOfType DEF GoodTable, IsTable, Unique
  <2> HIDE DEF rows, new, free, r
  <2>5. /\ IsTable(r)
        /\ r.rows = rows /\ r.columns = t.columns
        /\ Enforced(r) = Enforced(t)
        /\ \A u \in DOMAIN t.unique : \A v : KeyOf(r, u, v) = KeyOf(t, u, v)
        /\ \A u \in Enforced(t) : r.unique[u].index = new[u]
    BY <2>2, <2>3, <2>4, Rebuilt, SMT DEF GoodTable, r
  <2>6. \A u \in Enforced(t) : u \in DOMAIN t.unique
    BY DEF Enforced
  <2>7. UniqueHolds(r)
    BY <1>2, <2>5, <2>6, SMT DEF GoodTable, UniqueHolds, IndexCovers, rows, free
  <2>8. ASSUME NEW u \in Enforced(t), NEW i \in DOMAIN rows
        PROVE  KeyOf(t, u, rows[i]) \subseteq new[u]
    BY <2>6 DEF GoodTable, IndexCovers, rows, new
  <2>9. IndexCovers(r)
    BY <2>5, <2>6, <2>8 DEF IndexCovers
  <2> QED
    BY <2>1, <2>5, <2>7, <2>9 DEF GoodTable
<1> QED
  BY <1>1, <1>2

(* Table::delete: the keys it takes out of the indexes belong to no row that *)
(* stays, because no two rows share one.                                     *)
LEMMA DeleteGood ==
  ASSUME NEW t, GoodTable(t), NEW ids
  PROVE  LET r == Table_delete(t, ids)
         IN  GoodTable(r) /\ r.columns = t.columns
<1> DEFINE gone == ids \cap DOMAIN t.rows
           rows == [i \in DOMAIN t.rows \ gone |-> t.rows[i]]
           new == [u \in DOMAIN t.unique |->
                     t.unique[u].index
                       \ UNION {KeyOf(t, u, t.rows[i]) : i \in gone}]
           r == Rebuild(t, rows, new)
<1>1. Table_delete(t, ids) = r
  BY DEF Table_delete, Rebuild
<1>2. DOMAIN rows \subseteq Nat /\ IsFiniteSet(DOMAIN rows)
  BY FS_Subset DEF GoodTable, IsTable
<1>3. \A i \in DOMAIN rows : Fits(t, rows[i])
  BY DEF GoodTable, IsTable, Fits
<1>4. \A u \in DOMAIN t.unique : new[u] \subseteq Key
  BY DEF GoodTable, IsTable, Unique
<1> HIDE DEF rows, new, r
<1>5. /\ IsTable(r)
      /\ r.rows = rows /\ r.columns = t.columns
      /\ Enforced(r) = Enforced(t)
      /\ \A u \in DOMAIN t.unique : \A v : KeyOf(r, u, v) = KeyOf(t, u, v)
      /\ \A u \in Enforced(t) : r.unique[u].index = new[u]
  BY <1>2, <1>3, <1>4, Rebuilt, SMT DEF GoodTable, r
<1>6. \A u \in Enforced(t) : u \in DOMAIN t.unique
  BY DEF Enforced
<1>7. UniqueHolds(r)
  BY <1>5, <1>6, SMT DEF GoodTable, UniqueHolds, rows
<1>8. ASSUME NEW u \in Enforced(t), NEW i \in DOMAIN t.rows \ gone
      PROVE  KeyOf(t, u, t.rows[i]) \subseteq new[u]
  BY <1>6 DEF GoodTable, UniqueHolds, IndexCovers, new
<1>9. IndexCovers(r)
  BY <1>5, <1>6, <1>8, SMT DEF IndexCovers, rows
<1> QED
  BY <1>1, <1>5, <1>7, <1>9 DEF GoodTable

-----------------------------------------------------------------------------
(* A set of positions that is not empty has a last one. *)
LEMMA LastExists ==
  ASSUME NEW n \in Nat, NEW S \in SUBSET (1..n), S # {}
  PROVE  \E i \in S : \A j \in S : j <= i
<1> DEFINE T == {n - i : i \in S}
<1>1. T \subseteq Nat /\ T # {}
  <2>1. \A i \in S : i \in 1..n /\ n - i \in Nat
    BY SMT
  <2>2. PICK i \in S : TRUE
    OBVIOUS
  <2>3. n - i \in T
    BY <2>2
  <2> QED
    BY <2>1, <2>3
<1>2. PICK m \in T : \A k \in T : ~ (<<k, m>> \in OpToRel(<, Nat))
  BY ONLY <1>1, NatLessThanWellFounded, WFMin
<1>3. \A k \in T : ~ (k < m)
  BY <1>1, <1>2 DEF OpToRel
<1>4. PICK i \in S : m = n - i
  BY <1>2
<1>5. \A j \in S : ~ (n - j < n - i)
  BY <1>3, <1>4
<1>6. \A j \in S : j \in Int /\ i \in Int
  <2>1. S \subseteq 1..n /\ i \in S
    OBVIOUS
  <2>2. 1..n \subseteq Int
    BY ONLY n \in Nat
  <2> QED
    BY ONLY <2>1, <2>2
<1>7. \A j \in S : j <= i
  BY ONLY <1>5, <1>6, n \in Nat
<1> QED
  BY <1>7

(* Each row that a batch changes has a last entry in it. *)
LEMMA LastForExists ==
  ASSUME NEW t, NEW batch \in Seq(Entry), NEW i \in Live(t, batch)
  PROVE  LastFor(t, batch, batch[i].id) # {}
<1> DEFINE S == {j \in Live(t, batch) : batch[j].id = batch[i].id}
<1>1. Len(batch) \in Nat /\ S \in SUBSET (1..Len(batch)) /\ S # {}
  BY SMT DEF Live
<1>2. PICK k \in S : \A j \in S : j <= k
  BY <1>1, LastExists
<1>3. k \in LastFor(t, batch, batch[i].id)
  BY <1>2 DEF LastFor
<1> QED
  BY <1>3

(* The rows a batch that is applied leaves: a changed row has the values of *)
(* a live entry of its id, any other row is as it was.                      *)
UpdatedRows(t, batch) ==
  [id \in DOMAIN t.rows |->
     IF LastFor(t, batch, id) = {} THEN t.rows[id]
     ELSE batch[CHOOSE i \in LastFor(t, batch, id) : TRUE].values]

(* After Table::update a row is as it was, or as an entry of the batch says. *)
LEMMA UpdatedRowsAre ==
  ASSUME NEW t, NEW batch \in Seq(Entry), NEW id \in DOMAIN t.rows
  PROVE  \/ /\ \A i \in Live(t, batch) : batch[i].id # id
            /\ UpdatedRows(t, batch)[id] = t.rows[id]
         \/ \E i \in Live(t, batch) :
              batch[i].id = id /\ UpdatedRows(t, batch)[id] = batch[i].values
<1>1. CASE LastFor(t, batch, id) = {}
  <2>1. \A i \in Live(t, batch) : batch[i].id # id
    BY <1>1, LastForExists
  <2> QED
    BY <1>1, <2>1 DEF UpdatedRows
<1>2. CASE LastFor(t, batch, id) # {}
  <2> DEFINE i == CHOOSE k \in LastFor(t, batch, id) : TRUE
  <2>1. i \in LastFor(t, batch, id)
    BY <1>2
  <2>2. UpdatedRows(t, batch)[id] = batch[i].values
    BY <1>2 DEF UpdatedRows
  <2> QED
    BY <2>1, <2>2 DEF LastFor
<1> QED
  BY <1>1, <1>2

(* Table::update, also of a batch that names a row twice.  A changed row's  *)
(* new key is disjoint from the others' new keys and from the keys that     *)
(* stay in the index, among them those of all unchanged rows.               *)
LEMMA UpdateGood ==
  ASSUME NEW t, GoodTable(t), NEW batch \in Seq(Entry),
         \A i \in DOMAIN batch : Fits(t, batch[i].values)
  PROVE  LET r == Table_update(t, batch)
         IN  GoodTable(r.table) /\ r.table.columns = t.columns
<1>0. /\ \A u \in Enforced(t) : u \in DOMAIN t.unique
      /\ \A i \in Live(t, batch) :
           i \in DOMAIN batch /\ i \in Nat /\ batch[i].id \in DOMAIN t.rows
  BY SMT DEF Enforced, Live
<1>k. ASSUME NEW u \in DOMAIN t.unique
      PROVE  /\ t.unique[u].index \subseteq Key
             /\ OldKeys(t, u, batch) \subseteq Key
             /\ NewKeys(t, u, batch) \subseteq Key
  <2>1. t.unique[u].index \subseteq Key
    BY DEF GoodTable, IsTable, Unique
  <2>2. \A i \in DOMAIN t.rows : KeyOf(t, u, t.rows[i]) \subseteq Key
    BY KeyOfType DEF GoodTable, IsTable, Fits
  <2>3. \A i \in DOMAIN batch : KeyOf(t, u, batch[i].values) \subseteq Key
    BY KeyOfType DEF GoodTable
  <2> QED
    BY <1>0, <2>1, <2>2, <2>3 DEF OldKeys, NewKeys
<1>1. CASE Conflict(t, batch)
  <2> DEFINE new == [u \in DOMAIN t.unique |->
                       (t.unique[u].index \ OldKeys(t, u, batch))
                         \cup OldKeys(t, u, batch)]
             r == Rebuild(t, t.rows, new)
  <2>1. Table_update(t, batch).table = r
    BY <1>1 DEF Table_update, Rebuild, GoodTable, IsTable
  <2>2. /\ DOMAIN t.rows \subseteq Nat /\ IsFiniteSet(DOMAIN t.rows)
        /\ \A i \in DOMAIN t.rows : Fits(t, t.rows[i])
    BY DEF GoodTable, IsTable, Fits
  <2>3. \A u \in DOMAIN t.unique : new[u] \subseteq Key /\ t.unique[u].index \subseteq new[u]
    BY <1>k
  <2> HIDE DEF new, r
  <2>4. /\ IsTable(r)
        /\ r.rows = t.rows /\ r.columns = t.columns
        /\ Enforced(r) = Enforced(t)
        /\ \A u \in DOMAIN t.unique : \A v : KeyOf(r, u, v) = KeyOf(t, u, v)
        /\ \A u \in Enforced(t) : r.unique[u].index = new[u]
    BY <2>2, <2>3, Rebuilt, SMT DEF GoodTable, r
  <2>5. UniqueHolds(r)
    <3> SUFFICES ASSUME NEW u \in Enforced(r), NEW i \in DOMAIN r.rows,
                        NEW j \in DOMAIN r.rows, i # j
                 PROVE  KeyOf(r, u, r.rows[i]) \cap KeyOf(r, u, r.rows[j]) = {}
      BY DEF UniqueHolds
    <3>1. KeyOf(t, u, t.rows[i]) \cap KeyOf(t, u, t.rows[j]) = {}
      BY <2>4 DEF GoodTable, UniqueHolds
    <3> QED
      BY <1>0, <2>4, <3>1
  <2>6. IndexCovers(r)
    BY <1>0, <2>3, <2>4, SMT DEF GoodTable, IndexCovers
  <2> QED
    BY <2>1, <2>4, <2>5, <2>6 DEF GoodTable
<1>2. CASE ~Conflict(t, batch)
  <2> DEFINE rows == UpdatedRows(t, batch)
             new == [u \in DOMAIN t.unique |->
                       (t.unique[u].index \ OldKeys(t, u, batch))
                         \cup NewKeys(t, u, batch)]
             r == Rebuild(t, rows, new)
  <2>1. Table_update(t, batch).table = r
    BY <1>2 DEF Table_update, Rebuild, UpdatedRows
  <2>2. DOMAIN rows = DOMAIN t.rows
    BY DEF UpdatedRows
  <2>3. /\ DOMAIN rows \subseteq Nat /\ IsFiniteSet(DOMAIN rows)
        /\ \A i \in DOMAIN rows : Fits(t, rows[i])
    BY <1>0, <2>2, UpdatedRowsAre, SMT DEF GoodTable, IsTable, Fits
  <2>4. \A u \in DOMAIN t.unique : new[u] \subseteq Key
    BY <1>k
  <2> HIDE DEF rows, new, r
  <2>5. /\ IsTable(r)
        /\ r.rows = rows /\ r.columns = t.columns
        /\ Enforced(r) = Enforced(t)
        /\ \A u \in DOMAIN t.unique : \A v : KeyOf(r, u, v) = KeyOf(t, u, v)
        /\ \A u \in Enforced(t) : r.unique[u].index = new[u]
    BY <2>3, <2>4, Rebuilt, SMT DEF GoodTable, r
  <2>6. ASSUME NEW u \in Enforced(t), NEW i \in DOMAIN t.rows,
               \A k \in Live(t, batch) : batch[k].id # i
        PROVE  KeyOf(t, u, t.rows[i]) \subseteq t.unique[u].index \ OldKeys(t, u, batch)
    BY <1>0, <2>6 DEF GoodTable, UniqueHolds, IndexCovers, OldKeys
  <2>7. ASSUME NEW u \in Enforced(t), NEW k \in Live(t, batch)
        PROVE  /\ KeyOf(t, u, batch[k].values)
                    \cap (t.unique[u].index \ OldKeys(t, u, batch)) = {}
               /\ \A l \in Live(t, batch) :
                    k # l => KeyOf(t, u, batch[k].values)
                               \cap KeyOf(t, u, batch[l].values) = {}
    <3>1. \A l \in Live(t, batch) : k # l => k < l \/ l < k
      BY <1>0, SMT
    <3> QED
      BY <1>2, <3>1 DEF Conflict
  <2>8. UniqueHolds(r)
    <3> SUFFICES ASSUME NEW u \in Enforced(r), NEW i \in DOMAIN r.rows,
                        NEW j \in DOMAIN r.rows, i # j
                 PROVE  KeyOf(r, u, r.rows[i]) \cap KeyOf(r, u, r.rows[j]) = {}
      BY DEF UniqueHolds
    <3>0. /\ u \in Enforced(t) /\ i \in DOMAIN t.rows /\ j \in DOMAIN t.rows
          /\ KeyOf(r, u, r.rows[i]) = KeyOf(t, u, rows[i])
          /\ KeyOf(r, u, r.rows[j]) = KeyOf(t, u, rows[j])
      BY <1>0, <2>2, <2>5
    <3> DEFINE Stays(a) == /\ \A k \in Live(t, batch) : batch[k].id # a
                          /\ rows[a] = t.rows[a]
               Takes(a) == \E k \in Live(t, batch) :
                             batch[k].id = a /\ rows[a] = batch[k].values
    <3>1. (Stays(i) \/ Takes(i)) /\ (Stays(j) \/ Takes(j))
      BY <3>0, UpdatedRowsAre, SMT DEF rows
    <3>2. CASE Stays(i) /\ Stays(j)
      BY <3>0, <3>2 DEF GoodTable, UniqueHolds
    <3>3. CASE Takes(i) /\ Stays(j)
      BY <3>0, <3>3, <2>6, <2>7
    <3>4. CASE Stays(i) /\ Takes(j)
      BY <3>0, <3>4, <2>6, <2>7
    <3>5. CASE Takes(i) /\ Takes(j)
      BY <3>0, <3>5, <2>7
    <3> QED
      BY <3>1, <3>2, <3>3, <3>4, <3>5
  <2>9. IndexCovers(r)
    <3> SUFFICES ASSUME NEW u \in Enforced(t), NEW i \in DOMAIN t.rows
                 PROVE  KeyOf(t, u, rows[i]) \subseteq new[u]
      BY <1>0, <2>2, <2>5 DEF IndexCovers
    <3>1. CASE /\ \A k \in Live(t, batch) : batch[k].id # i
               /\ rows[i] = t.rows[i]
      BY <1>0, <3>1, <2>6 DEF new
    <3>2. CASE \E k \in Live(t, batch) : batch[k].id = i /\ rows[i] = batch[k].values
      BY <1>0, <3>2 DEF new, NewKeys
    <3> QED
      BY <3>1, <3>2, UpdatedRowsAre, SMT DEF rows
  <2> QED
    BY <2>1, <2>5, <2>8, <2>9 DEF GoodTable
<1> QED
  BY <1>1, <1>2

-----------------------------------------------------------------------------
(* The parts of a table after its constraints are replaced. *)
LEMMA WithUnique ==
  ASSUME NEW t, IsTable(t), NEW unique, NEW r, r = [t EXCEPT !.unique = unique],
         DOMAIN unique \subseteq ConstraintName,
         \A u \in DOMAIN unique :
           unique[u] \in Unique /\ InWidth(unique[u].columns, t.columns)
  PROVE  /\ IsTable(r)
         /\ r.rows = t.rows /\ r.unique = unique /\ r.columns = t.columns
         /\ r.fks = t.fks
<1>1. /\ DOMAIN r = {"columns", "not_null", "unique", "fks", "rows"}
      /\ r.columns = t.columns /\ r.not_null = t.not_null /\ r.fks = t.fks
      /\ r.rows = t.rows /\ r.unique = unique
  BY DEF IsTable
<1> QED
  BY <1>1 DEF IsTable

(* A table whose rows do not change stays good when each of its enforced    *)
(* constraints is an old one, or fits the rows.                             *)
LEMMA ConstraintsGood ==
  ASSUME NEW t, GoodTable(t), NEW unique, NEW r, r = [t EXCEPT !.unique = unique],
         DOMAIN unique \subseteq ConstraintName,
         \A u \in DOMAIN unique :
           /\ unique[u] \in Unique /\ InWidth(unique[u].columns, t.columns)
           /\ \/ u \in DOMAIN t.unique /\ unique[u] = t.unique[u]
              \/ ~unique[u].enabled
              \/ /\ build_index(t, unique[u].columns).ok
                 /\ unique[u].index = build_index(t, unique[u].columns).index
  PROVE  GoodTable(r) /\ r.columns = t.columns /\ r.fks = t.fks
<1>1. /\ IsTable(r)
      /\ r.rows = t.rows /\ r.unique = unique /\ r.columns = t.columns
      /\ r.fks = t.fks
  BY WithUnique, SMT DEF GoodTable
<1>2. ASSUME NEW u \in DOMAIN unique, unique[u].enabled
      PROVE  /\ \A i, j \in DOMAIN t.rows :
                  i # j => unique_key(unique[u].columns, t.rows[i])
                             \cap unique_key(unique[u].columns, t.rows[j]) = {}
             /\ \A i \in DOMAIN t.rows :
                  unique_key(unique[u].columns, t.rows[i]) \subseteq unique[u].index
  <2>1. CASE u \in DOMAIN t.unique /\ unique[u] = t.unique[u]
    BY <1>2, <2>1 DEF GoodTable, UniqueHolds, IndexCovers, Enforced, KeyOf
  <2>2. CASE /\ build_index(t, unique[u].columns).ok
             /\ unique[u].index = build_index(t, unique[u].columns).index
    BY <2>2 DEF build_index
  <2> QED
    BY <1>2, <2>1, <2>2
<1>3. ASSUME NEW u \in Enforced(r)
      PROVE  /\ u \in DOMAIN unique /\ unique[u].enabled
             /\ \A v : KeyOf(r, u, v) = unique_key(unique[u].columns, v)
  BY <1>1 DEF Enforced, KeyOf
<1>4. UniqueHolds(r)
  <2> SUFFICES ASSUME NEW u \in Enforced(r), NEW i \in DOMAIN r.rows,
                      NEW j \in DOMAIN r.rows, i # j
               PROVE  KeyOf(r, u, r.rows[i]) \cap KeyOf(r, u, r.rows[j]) = {}
    BY DEF UniqueHolds
  <2>1. unique_key(unique[u].columns, t.rows[i])
          \cap unique_key(unique[u].columns, t.rows[j]) = {}
    BY <1>1, <1>2, <1>3
  <2> QED
    BY <1>1, <1>3, <2>1
<1>5. IndexCovers(r)
  BY <1>1, <1>2, <1>3, SMT DEF IndexCovers
<1> QED
  BY <1>1, <1>4, <1>5 DEF GoodTable

(* Foreign keys play no part in it. *)
LEMMA ForeignKeysGood ==
  ASSUME NEW t, GoodTable(t), NEW fks, NEW r, r = [t EXCEPT !.fks = fks],
         DOMAIN fks \subseteq ConstraintName,
         \A f \in DOMAIN fks : fks[f] \in ForeignKey
  PROVE  GoodTable(r) /\ r.columns = t.columns /\ r.unique = t.unique
<1>1. /\ DOMAIN r = {"columns", "not_null", "unique", "fks", "rows"}
      /\ r.columns = t.columns /\ r.not_null = t.not_null /\ r.fks = fks
      /\ r.rows = t.rows /\ r.unique = t.unique
  BY DEF GoodTable, IsTable
<1>2. IsTable(r)
  BY <1>1 DEF GoodTable, IsTable
<1>3. UniqueHolds(r) /\ IndexCovers(r)
  <2>1. UniqueHolds(t) /\ IndexCovers(t)
    BY DEF GoodTable
  <2>2. r.unique = t.unique /\ r.rows = t.rows
    BY <1>1
  <2>3. Enforced(r) = Enforced(t) /\ \A u, v : KeyOf(r, u, v) = KeyOf(t, u, v)
    BY ONLY <2>2 DEF Enforced, KeyOf
  <2> QED
    BY ONLY <2>1, <2>2, <2>3 DEF UniqueHolds, IndexCovers
<1> QED
  BY <1>1, <1>2, <1>3 DEF GoodTable

(* The index of a rebuilt constraint holds keys. *)
LEMMA BuildIndexType ==
  ASSUME NEW t, IsTable(t), NEW columns \in Seq(Column), InWidth(columns, t.columns)
  PROVE  build_index(t, columns).index \subseteq Key
<1>1. \A i \in DOMAIN t.rows : unique_key(columns, t.rows[i]) \subseteq Key
  BY UniqueKeyType DEF IsTable
<1> QED
  BY <1>1 DEF build_index

(* Table::truncate. *)
LEMMA TruncateGood ==
  ASSUME NEW t, GoodTable(t)
  PROVE  GoodTable(truncate(t))
<1> DEFINE r == truncate(t)
<1>1. /\ DOMAIN r = {"columns", "not_null", "unique", "fks", "rows"}
      /\ r.columns = t.columns /\ r.not_null = t.not_null /\ r.fks = t.fks
      /\ DOMAIN r.rows = {}
      /\ r.unique = [u \in DOMAIN t.unique |-> [t.unique[u] EXCEPT !.index = {}]]
  BY SMT DEF GoodTable, IsTable, truncate
<1> HIDE DEF r
<1>2. \A u \in DOMAIN t.unique :
        r.unique[u] \in Unique /\ r.unique[u].columns = t.unique[u].columns
  <2>1. \A u \in DOMAIN t.unique : t.unique[u] \in Unique
    BY DEF GoodTable, IsTable
  <2>2. \A u \in DOMAIN t.unique : r.unique[u] = [t.unique[u] EXCEPT !.index = {}]
    BY <1>1
  <2>3. ASSUME NEW u \in DOMAIN t.unique
        PROVE  r.unique[u] \in Unique /\ r.unique[u].columns = t.unique[u].columns
    <3> DEFINE q == t.unique[u]
               z == r.unique[u]
    <3>1. q \in Unique /\ {} \in SUBSET Key /\ z = [q EXCEPT !.index = {}]
      BY <2>1, <2>2
    <3> HIDE DEF q, z
    <3>2. z \in Unique /\ z.columns = q.columns
      BY ONLY <3>1 DEF Unique
    <3> QED
      BY ONLY <3>2 DEF q, z
  <2> QED
    BY ONLY <2>3
<1>3. IsFiniteSet({})
  BY FS_EmptySet
<1>4. IsTable(r)
  BY <1>1, <1>2, <1>3 DEF GoodTable, IsTable
<1>5. UniqueHolds(r) /\ IndexCovers(r)
  BY <1>1 DEF UniqueHolds, IndexCovers
<1> QED
  BY <1>4, <1>5 DEF GoodTable, r

-----------------------------------------------------------------------------
(* One step of COMMIT's replay: a change is applied only to a table of its   *)
(* width, so the rows keep the table's type even when it was dropped and     *)
(* created anew meanwhile.                                                   *)
LEMMA ReplayGood ==
  ASSUME NEW cat, GoodCatalog(cat), NEW c \in Change
  PROVE  GoodCatalog(replay_change(cat, c).cat)
<1> DEFINE n == c.table
           put(t) == [cat EXCEPT ![n] = t]
           fits == n \in DOMAIN cat /\ cat[n].columns = Len(c.values)
           batch == <<[id |-> c.id, values |-> c.values]>>
<1>1. ASSUME NEW t, n \in DOMAIN cat, GoodTable(t)
      PROVE  GoodCatalog(put(t))
  BY <1>1 DEF GoodCatalog
<1>2. c.id \in Nat /\ c.values \in Row
  BY DEF Change
<1>3. CASE c.op = "insert" /\ fits
  <2>1. GoodTable(Table_insert(cat[n], c.id, c.values).table)
    BY <1>2, <1>3, InsertGood DEF GoodCatalog, Fits
  <2> HIDE DEF put
  <2>2. GoodCatalog(put(Table_insert(cat[n], c.id, c.values).table))
    BY <1>1, <1>3, <2>1
  <2> QED
    BY <1>3, <2>2 DEF replay_change, put
<1>4. CASE c.op = "update" /\ fits
  <2>1. batch \in Seq(Entry) /\ \A i \in DOMAIN batch : Fits(cat[n], batch[i].values)
    BY <1>2, <1>4, SMT DEF Entry, Fits
  <2>2. GoodTable(cat[n])
    BY <1>4 DEF GoodCatalog
  <2> HIDE DEF put, batch
  <2>3. GoodTable(Table_update(cat[n], batch).table)
    BY <2>1, <2>2, UpdateGood
  <2>4. GoodCatalog(put(Table_update(cat[n], batch).table))
    BY <1>1, <1>4, <2>3
  <2> QED
    BY <1>4, <2>4 DEF replay_change, put, batch
<1>5. CASE c.op = "delete" /\ n \in DOMAIN cat
  <2>1. GoodTable(Table_delete(cat[n], {c.id}))
    BY <1>5, DeleteGood DEF GoodCatalog
  <2> HIDE DEF put
  <2>2. GoodCatalog(put(Table_delete(cat[n], {c.id})))
    BY <1>1, <1>5, <2>1
  <2> QED
    BY <1>5, <2>2 DEF replay_change, put
<1>6. CASE ~(c.op = "insert" /\ fits) /\ ~(c.op = "update" /\ fits)
           /\ ~(c.op = "delete" /\ n \in DOMAIN cat)
  BY <1>6 DEF replay_change
<1> QED
  BY <1>3, <1>4, <1>5, <1>6

(* One step of undo.  It ignores the errors of insert and update; what they  *)
(* leave behind then is still good.                                          *)
LEMMA RevertedGood ==
  ASSUME NEW cat, GoodCatalog(cat), NEW log \in Seq(Change), NEW m \in 1..Len(log),
         NEW keep \in Nat, undo_run(log, keep, m),
         \A i \in DOMAIN log :
           /\ log[i].table \in DOMAIN cat
           /\ log[i].op # "insert" => Len(log[i].old) = cat[log[i].table].columns
  PROVE  LET last == Len(log)
             c == log[last]
             t == cat[c.table]
             r == reverted(t, c, [i \in 1..m |-> [id |-> log[last + 1 - i].id,
                                                  values |-> log[last + 1 - i].old]])
         IN  c.table \in DOMAIN cat /\ GoodTable(r) /\ r.columns = t.columns
<1> DEFINE last == Len(log)
           c == log[last]
           t == cat[c.table]
           batch == [i \in 1..m |-> [id |-> log[last + 1 - i].id,
                                     values |-> log[last + 1 - i].old]]
           r == reverted(t, c, batch)
<1>1. last \in Nat /\ last >= 1 /\ last \in DOMAIN log /\ c \in Change
  BY SMT
<1>2. /\ c.op \in {"insert", "update", "delete"} /\ c.id \in Nat /\ c.old \in Row
      /\ c.table \in DOMAIN cat
      /\ c.op # "insert" => Len(c.old) = t.columns
  BY <1>1 DEF Change
<1>3. GoodTable(t)
  BY <1>2 DEF GoodCatalog
<1>4. ASSUME NEW i \in 1..m, c.op = "update"
      PROVE  batch[i] \in Entry /\ Fits(t, batch[i].values)
  <2> DEFINE k == last + 1 - i
  <2>1. k \in DOMAIN log /\ log[k] \in Change
    BY <1>1, SMT
  <2>2. \A j \in (last - m + 1)..last : log[j].op = "update" /\ log[j].table = c.table
    BY <1>4 DEF undo_run
  <2>2a. k \in (last - m + 1)..last
    BY <1>1, SMT
  <2>3. Len(log[k].old) = t.columns
    BY <2>1, <2>2, <2>2a
  <2> QED
    BY <2>1, <2>3 DEF Entry, Change, Fits
<1>5. c.op = "update" => batch \in Seq(Entry) /\ DOMAIN batch = 1..m
  <2>1. m \in Nat /\ DOMAIN batch = 1..m
    BY SMT
  <2>2. ASSUME c.op = "update"
        PROVE  batch \in [1..m -> Entry]
    <3> DEFINE e(i) == [id |-> log[last + 1 - i].id, values |-> log[last + 1 - i].old]
    <3>1. \A i \in 1..m : e(i) \in Entry
      BY <1>4, <2>2
    <3>2. batch = [i \in 1..m |-> e(i)]
      OBVIOUS
    <3> HIDE DEF e, batch
    <3> QED
      BY <3>1, <3>2
  <2> HIDE DEF batch
  <2> QED
    BY <2>1, <2>2, SMT
<1> HIDE DEF last, c, t, batch
<1>6. ASSUME c.op = "insert"
      PROVE  GoodTable(r) /\ r.columns = t.columns
  <2>1. r = Table_delete(t, {c.id})
    BY <1>6 DEF reverted
  <2> QED
    BY <1>3, <2>1, DeleteGood
<1>7. ASSUME c.op = "delete"
      PROVE  GoodTable(r) /\ r.columns = t.columns
  <2>1. r = Table_insert(t, c.id, c.old).table
    BY <1>7 DEF reverted
  <2>2. Fits(t, c.old)
    BY <1>2, <1>7 DEF Fits
  <2> QED
    BY <1>2, <1>3, <2>1, <2>2, InsertGood, SMT
<1>8. ASSUME c.op = "update"
      PROVE  GoodTable(r) /\ r.columns = t.columns
  <2>1. r = Table_update(t, batch).table
    BY <1>8 DEF reverted
  <2> QED
    BY <1>3, <1>4, <1>5, <1>8, <2>1, UpdateGood
<1>9. c.table \in DOMAIN cat /\ GoodTable(r) /\ r.columns = t.columns
  BY <1>2, <1>6, <1>7, <1>8
<1> QED
  BY <1>9 DEF last, c, t, batch

(* One step of undo, whose results the code ignores: the catalog stays good *)
(* and no table changes its width.                                          *)
LEMMA UndoGood ==
  ASSUME NEW cat, GoodCatalog(cat), NEW log \in Seq(Change), NEW m \in 1..Len(log),
         NEW keep \in Nat, undo_run(log, keep, m),
         \A i \in DOMAIN log :
           /\ log[i].table \in DOMAIN cat
           /\ log[i].op # "insert" => Len(log[i].old) = cat[log[i].table].columns
  PROVE  LET new == undo_change(cat, log, m)
         IN  /\ GoodCatalog(new) /\ DOMAIN new = DOMAIN cat
             /\ \A n \in DOMAIN cat : new[n].columns = cat[n].columns
<1> DEFINE last == Len(log)
           c == log[last]
           t == cat[c.table]
           r == reverted(t, c, [i \in 1..m |-> [id |-> log[last + 1 - i].id,
                                                values |-> log[last + 1 - i].old]])
<1>1. c.table \in DOMAIN cat /\ GoodTable(r) /\ r.columns = t.columns
  BY RevertedGood
<1>2. undo_change(cat, log, m) = [cat EXCEPT ![c.table] = r]
  BY DEF undo_change
<1> HIDE DEF r
<1> QED
  BY <1>1, <1>2 DEF GoodCatalog

-----------------------------------------------------------------------------
(* CREATE TABLE. *)
LEMMA CreateTableGood ==
  ASSUME NEW cat, GoodCatalog(cat), NEW def, IsTableDef(def)
  PROVE  GoodCatalog(create_table(cat, def).cat)
<1> DEFINE t == [columns |-> def.columns, not_null |-> def.not_null,
                 unique |-> [u \in DOMAIN def.unique |-> NewUnique(def.unique[u])],
                 fks |-> [f \in DOMAIN def.fks |-> NewForeignKey(def.fks[f])],
                 rows |-> << >>]
           new == [n \in DOMAIN cat \cup {def.name} |->
                     IF n = def.name THEN t ELSE cat[n]]
           inside == \A u \in DOMAIN def.unique :
                       InWidth(def.unique[u].columns, def.columns)
<1>1. \/ create_table(cat, def).cat = cat
      \/ inside /\ create_table(cat, def).cat = new
  BY DEF create_table, Fail, Done
<1>2. ASSUME inside
      PROVE  GoodTable(t)
  <2>1. /\ DOMAIN t = {"columns", "not_null", "unique", "fks", "rows"}
        /\ DOMAIN t.rows = {}
        /\ t.columns = def.columns /\ t.not_null = def.not_null
        /\ DOMAIN t.unique = DOMAIN def.unique /\ DOMAIN t.fks = DOMAIN def.fks
    BY SMT
  <2>2. \A u \in DOMAIN t.unique :
          t.unique[u] \in Unique /\ InWidth(t.unique[u].columns, t.columns)
    BY <1>2 DEF NewUnique, Unique, IsTableDef, IsUniqueDef
  <2>3. \A f \in DOMAIN t.fks : t.fks[f] \in ForeignKey
    BY DEF NewForeignKey, ForeignKey, IsTableDef, IsForeignKeyDef
  <2>4. IsFiniteSet({})
    BY FS_EmptySet
  <2> HIDE DEF t
  <2>5. IsTable(t)
    BY <2>1, <2>2, <2>3, <2>4 DEF IsTable, IsTableDef
  <2>6. UniqueHolds(t) /\ IndexCovers(t)
    BY <2>1 DEF UniqueHolds, IndexCovers
  <2> QED
    BY <2>5, <2>6 DEF GoodTable
<1> HIDE DEF t, inside
<1>3. ASSUME inside
      PROVE  GoodCatalog(new)
  BY <1>2, <1>3 DEF GoodCatalog, IsTableDef
<1> QED
  BY <1>1, <1>3

(* Dropping or disabling foreign keys. *)
LEMMA WithoutForeignKeysGood ==
  ASSUME NEW cat, GoodCatalog(cat), NEW refs
  PROVE  LET new == without_foreign_keys(cat, refs)
         IN  /\ GoodCatalog(new) /\ DOMAIN new = DOMAIN cat
             /\ \A n \in DOMAIN cat : new[n].unique = cat[n].unique
<1> DEFINE fks(n) == [f \in {g \in DOMAIN cat[n].fks :
                               ~\E r \in refs : r.child = n /\ r.name = g}
                        |-> cat[n].fks[f]]
<1>1. \A n \in DOMAIN cat : GoodTable(cat[n])
  BY DEF GoodCatalog
<1>2. ASSUME NEW n \in DOMAIN cat
      PROVE  /\ DOMAIN fks(n) \subseteq ConstraintName
             /\ \A f \in DOMAIN fks(n) : fks(n)[f] \in ForeignKey
  BY <1>1 DEF GoodTable, IsTable
<1>3. without_foreign_keys(cat, refs) =
        [n \in DOMAIN cat |-> [cat[n] EXCEPT !.fks = fks(n)]]
  BY DEF without_foreign_keys
<1> HIDE DEF fks
<1>4. ASSUME NEW n \in DOMAIN cat
      PROVE  LET r == [cat[n] EXCEPT !.fks = fks(n)]
             IN  GoodTable(r) /\ r.unique = cat[n].unique
  BY <1>1, <1>2, ForeignKeysGood
<1> QED
  BY <1>3, <1>4 DEF GoodCatalog

(* DISABLE CONSTRAINT ... CASCADE turns foreign keys off. *)
LEMMA WithDisabledGood ==
  ASSUME NEW cat, GoodCatalog(cat), NEW refs
  PROVE  LET new == with_disabled(cat, refs)
         IN  /\ GoodCatalog(new) /\ DOMAIN new = DOMAIN cat
             /\ \A n \in DOMAIN cat : new[n].unique = cat[n].unique
<1> DEFINE fks(n) == [f \in DOMAIN cat[n].fks |->
                        IF \E r \in refs : r.child = n /\ r.name = f
                        THEN [cat[n].fks[f] EXCEPT !.enabled = FALSE]
                        ELSE cat[n].fks[f]]
<1>1. \A n \in DOMAIN cat : GoodTable(cat[n])
  BY DEF GoodCatalog
<1>2. ASSUME NEW n \in DOMAIN cat
      PROVE  /\ DOMAIN fks(n) \subseteq ConstraintName
             /\ \A f \in DOMAIN fks(n) : fks(n)[f] \in ForeignKey
  <2>1. \A f \in DOMAIN cat[n].fks : cat[n].fks[f] \in ForeignKey
    BY <1>1 DEF GoodTable, IsTable
  <2>2. \A f \in DOMAIN cat[n].fks : [cat[n].fks[f] EXCEPT !.enabled = FALSE] \in ForeignKey
    BY <2>1 DEF ForeignKey
  <2>3. DOMAIN cat[n].fks \subseteq ConstraintName
    BY <1>1 DEF GoodTable, IsTable
  <2> QED
    BY <2>1, <2>2, <2>3
<1>3. with_disabled(cat, refs) =
        [n \in DOMAIN cat |-> [cat[n] EXCEPT !.fks = fks(n)]]
  BY DEF with_disabled
<1> HIDE DEF fks
<1>4. ASSUME NEW n \in DOMAIN cat
      PROVE  LET r == [cat[n] EXCEPT !.fks = fks(n)]
             IN  GoodTable(r) /\ r.unique = cat[n].unique
  BY <1>1, <1>2, ForeignKeysGood
<1> QED
  BY <1>3, <1>4 DEF GoodCatalog

(* DROP TABLE and TRUNCATE TABLE. *)
LEMMA DropTableGood ==
  ASSUME NEW cat, GoodCatalog(cat), NEW name, NEW cascade
  PROVE  GoodCatalog(drop_table(cat, name, cascade).cat)
<1> DEFINE refs == {f \in foreign_keys(cat) : f.parent = name /\ f.child # name}
           left == without_foreign_keys(cat, refs)
           new == [n \in DOMAIN cat \ {name} |-> left[n]]
<1>1. drop_table(cat, name, cascade).cat \in {cat, new}
  BY DEF drop_table, Fail, Done
<1>2. GoodCatalog(left) /\ DOMAIN left = DOMAIN cat
  BY WithoutForeignKeysGood
<1> HIDE DEF left
<1>3. GoodCatalog(new)
  BY <1>2 DEF GoodCatalog
<1> QED
  BY <1>1, <1>3

(* TRUNCATE TABLE. *)
LEMMA TruncateTableGood ==
  ASSUME NEW cat, GoodCatalog(cat), NEW name
  PROVE  GoodCatalog(truncate_table(cat, name).cat)
<1>1. \/ truncate_table(cat, name).cat = cat
      \/ /\ name \in DOMAIN cat
         /\ truncate_table(cat, name).cat = [cat EXCEPT ![name] = truncate(cat[name])]
  BY DEF truncate_table, Fail, Done
<1>2. ASSUME name \in DOMAIN cat
      PROVE  GoodTable(truncate(cat[name]))
  BY <1>2, TruncateGood DEF GoodCatalog
<1> QED
  BY <1>1, <1>2 DEF GoodCatalog

-----------------------------------------------------------------------------
(* ALTER TABLE ADD and CREATE UNIQUE INDEX: the rows are checked and indexed *)
(* before the constraint is enforced.                                        *)
LEMMA AddUniqueGood ==
  ASSUME NEW cat, GoodCatalog(cat), NEW table, NEW name \in ConstraintName,
         NEW def, IsUniqueDef(def)
  PROVE  GoodCatalog(add_unique_constraint(cat, table, name, def).cat)
<1> DEFINE t == cat[table]
           built == build_index(t, def.columns)
           c == [columns |-> def.columns, primary |-> def.primary,
                 is_index |-> def.is_index, enabled |-> def.enabled,
                 index |-> IF def.enabled THEN built.index ELSE {}]
           unique == [u \in DOMAIN t.unique \cup {name} |->
                        IF u # name THEN t.unique[u] ELSE c]
           r == [t EXCEPT !.unique = unique]
           result == add_unique_constraint(cat, table, name, def).cat
<1>1. \/ result = cat
      \/ /\ table \in DOMAIN cat /\ InWidth(def.columns, t.columns)
         /\ def.enabled => built.ok
         /\ result = [cat EXCEPT ![table] = r]
  BY DEF add_unique_constraint, add_unique, Fail, Done
<1>2. ASSUME table \in DOMAIN cat, InWidth(def.columns, t.columns),
             def.enabled => built.ok
      PROVE  GoodTable(r)
  <2>1. GoodTable(t)
    BY <1>2 DEF GoodCatalog
  <2>2. /\ c \in Unique /\ c.columns = def.columns /\ c.enabled = def.enabled
        /\ def.enabled => c.index = built.index
    <3>1. built.index \subseteq Key
      BY <1>2, <2>1, BuildIndexType DEF GoodTable, IsUniqueDef
    <3> HIDE DEF built
    <3> QED
      BY <3>1 DEF IsUniqueDef, Unique
  <2>3. /\ DOMAIN unique = DOMAIN t.unique \cup {name}
        /\ unique[name] = c
        /\ \A u \in DOMAIN t.unique : u # name => unique[u] = t.unique[u]
    OBVIOUS
  <2>4. /\ DOMAIN t.unique \subseteq ConstraintName
        /\ \A u \in DOMAIN t.unique :
             t.unique[u] \in Unique /\ InWidth(t.unique[u].columns, t.columns)
    BY <2>1 DEF GoodTable, IsTable
  <2> HIDE DEF unique, c, t, r
  <2>5. ASSUME NEW u \in DOMAIN unique
        PROVE  /\ unique[u] \in Unique /\ InWidth(unique[u].columns, t.columns)
               /\ \/ u \in DOMAIN t.unique /\ unique[u] = t.unique[u]
                  \/ ~unique[u].enabled
                  \/ /\ build_index(t, unique[u].columns).ok
                     /\ unique[u].index = build_index(t, unique[u].columns).index
    BY <1>2, <2>2, <2>3, <2>4
  <2>6. DOMAIN unique \subseteq ConstraintName
    BY <2>3, <2>4
  <2> QED
    BY <2>1, <2>5, <2>6, ConstraintsGood, SMT DEF r
<1> HIDE DEF r, result, t
<1>3. ASSUME table \in DOMAIN cat, GoodTable(r)
      PROVE  GoodCatalog([cat EXCEPT ![table] = r])
  BY <1>3 DEF GoodCatalog
<1>4. GoodCatalog(result)
  BY <1>1, <1>2, <1>3
<1> QED
  BY <1>4 DEF result

(* Table::set_enabled, which re-enables a constraint over rows that changed  *)
(* while it was off.                                                         *)
LEMMA SetEnabledGood ==
  ASSUME NEW t, GoodTable(t), NEW name \in DOMAIN t.unique, NEW enabled \in BOOLEAN,
         enabled => build_index(t, t.unique[name].columns).ok
  PROVE  GoodTable(set_enabled(t, name, enabled).table)
<1> DEFINE built == build_index(t, t.unique[name].columns)
           c == [t.unique[name] EXCEPT !.enabled = enabled,
                                       !.index = IF enabled THEN built.index ELSE {}]
           unique == [t.unique EXCEPT ![name] = c]
           r == [t EXCEPT !.unique = unique]
<1>1. set_enabled(t, name, enabled).table = r
  BY DEF set_enabled
<1>2. /\ DOMAIN t.unique \subseteq ConstraintName
      /\ \A u \in DOMAIN t.unique :
           t.unique[u] \in Unique /\ InWidth(t.unique[u].columns, t.columns)
  BY DEF GoodTable, IsTable
<1>3. built.index \subseteq Key
  BY <1>2, BuildIndexType DEF GoodTable, Unique
<1>4. /\ c \in Unique /\ c.columns = t.unique[name].columns
      /\ c.enabled = enabled
      /\ enabled => c.index = built.index
  <2> HIDE DEF built
  <2> QED
    BY <1>2, <1>3 DEF Unique
<1>5. /\ DOMAIN unique = DOMAIN t.unique /\ unique[name] = c
      /\ \A u \in DOMAIN t.unique : u # name => unique[u] = t.unique[u]
  OBVIOUS
<1> HIDE DEF unique, c
<1>6. ASSUME NEW u \in DOMAIN unique
      PROVE  /\ unique[u] \in Unique /\ InWidth(unique[u].columns, t.columns)
             /\ \/ u \in DOMAIN t.unique /\ unique[u] = t.unique[u]
                \/ ~unique[u].enabled
                \/ /\ build_index(t, unique[u].columns).ok
                   /\ unique[u].index = build_index(t, unique[u].columns).index
  <2>1. CASE u # name
    BY <1>2, <1>5, <2>1
  <2>2. CASE u = name /\ ~enabled
    BY <1>2, <1>4, <1>5, <2>2
  <2>3. CASE u = name /\ enabled
    <3>1. unique[u] = c /\ c.index = built.index /\ built.ok
      BY <1>4, <1>5, <2>3
    <3>2. unique[u] \in Unique /\ InWidth(unique[u].columns, t.columns)
      BY <1>2, <1>4, <2>3, <3>1
    <3>3. built = build_index(t, unique[u].columns)
      BY <1>4, <3>1
    <3> QED
      BY <3>1, <3>2, <3>3
  <2> QED
    BY <2>1, <2>2, <2>3
<1>7. GoodTable(r)
  BY <1>2, <1>5, <1>6, ConstraintsGood, SMT
<1> QED
  BY <1>1, <1>7

(* ALTER TABLE ADD FOREIGN KEY. *)
LEMMA AddForeignKeyGood ==
  ASSUME NEW cat, GoodCatalog(cat), NEW table, NEW name \in ConstraintName,
         NEW def, IsForeignKeyDef(def), NEW validate
  PROVE  GoodCatalog(add_foreign_key(cat, table, name, def, validate).cat)
<1> DEFINE t == cat[table]
           fk == NewForeignKey(def)
           fks == [f \in DOMAIN t.fks \cup {name} |-> IF f = name THEN fk ELSE t.fks[f]]
           r == [t EXCEPT !.fks = fks]
           result == add_foreign_key(cat, table, name, def, validate).cat
<1>1. \/ result = cat
      \/ table \in DOMAIN cat /\ result = [cat EXCEPT ![table] = r]
  BY DEF add_foreign_key, Fail, Done
<1>2. ASSUME table \in DOMAIN cat
      PROVE  GoodTable(r)
  <2>1. GoodTable(t)
    BY <1>2 DEF GoodCatalog
  <2>2. fk \in ForeignKey
    BY DEF NewForeignKey, ForeignKey, IsForeignKeyDef
  <2>3. DOMAIN fks \subseteq ConstraintName /\ \A f \in DOMAIN fks : fks[f] \in ForeignKey
    <3> HIDE DEF fk
    <3> QED
      BY <2>1, <2>2 DEF GoodTable, IsTable
  <2> HIDE DEF fks
  <2> QED
    BY <2>1, <2>3, ForeignKeysGood
<1> HIDE DEF r, result, t
<1>3. ASSUME table \in DOMAIN cat, GoodTable(r)
      PROVE  GoodCatalog([cat EXCEPT ![table] = r])
  BY <1>3 DEF GoodCatalog
<1>4. GoodCatalog(result)
  BY <1>1, <1>2, <1>3
<1> QED
  BY <1>4 DEF result

(* Taking a constraint away. *)
LEMMA RemoveUniqueGood ==
  ASSUME NEW cat, GoodCatalog(cat), NEW table \in DOMAIN cat, NEW name
  PROVE  LET u == cat[table].unique
         IN  GoodCatalog([cat EXCEPT ![table].unique = [v \in DOMAIN u \ {name} |-> u[v]]])
<1> DEFINE t == cat[table]
           unique == [v \in DOMAIN t.unique \ {name} |-> t.unique[v]]
           r == [t EXCEPT !.unique = unique]
<1>1. GoodTable(t)
  BY DEF GoodCatalog
<1>2. /\ DOMAIN unique \subseteq ConstraintName
      /\ \A u \in DOMAIN unique :
           /\ unique[u] \in Unique /\ InWidth(unique[u].columns, t.columns)
           /\ u \in DOMAIN t.unique /\ unique[u] = t.unique[u]
  BY <1>1 DEF GoodTable, IsTable
<1> HIDE DEF unique
<1>3. GoodTable(r)
  BY <1>1, <1>2, ConstraintsGood, SMT
<1> HIDE DEF r
<1>4. GoodCatalog([cat EXCEPT ![table] = r])
  BY <1>3 DEF GoodCatalog
<1> QED
  BY <1>4 DEF r, unique

(* ALTER TABLE DROP, and DROP INDEX. *)
LEMMA DropConstraintGood ==
  ASSUME NEW cat, GoodCatalog(cat), NEW table, NEW name, NEW cascade
  PROVE  GoodCatalog(drop_constraint(cat, table, name, cascade).cat)
<1> DEFINE u == cat[table].unique
           refs == (IF name \in DOMAIN u THEN referencing(cat, table, u[name].columns)
                    ELSE {}) \cup {f \in foreign_keys(cat) : f.child = table /\ f.name = name}
           left == without_foreign_keys(cat, refs)
           new == [left EXCEPT ![table].unique = [v \in DOMAIN u \ {name} |-> u[v]]]
           result == drop_constraint(cat, table, name, cascade).cat
<1>1. \/ result = cat
      \/ table \in DOMAIN cat /\ result = new
  BY DEF drop_constraint, Fail, Done
<1>2. /\ GoodCatalog(left) /\ DOMAIN left = DOMAIN cat
      /\ \A n \in DOMAIN cat : left[n].unique = cat[n].unique
  <2> HIDE DEF refs
  <2> QED
    BY WithoutForeignKeysGood
<1> HIDE DEF left, result
<1>3. ASSUME table \in DOMAIN cat
      PROVE  GoodCatalog(new)
  <2>1. left[table].unique = u /\ table \in DOMAIN left
    BY <1>2, <1>3
  <2>2. LET w == left[table].unique
        IN  GoodCatalog([left EXCEPT ![table].unique = [v \in DOMAIN w \ {name} |-> w[v]]])
    BY <1>2, <2>1, RemoveUniqueGood
  <2> QED
    BY <2>1, <2>2
<1>4. GoodCatalog(result)
  BY <1>1, <1>3
<1> QED
  BY <1>4 DEF result

(* DROP INDEX. *)
LEMMA DropIndexGood ==
  ASSUME NEW cat, GoodCatalog(cat), NEW table, NEW name
  PROVE  GoodCatalog(drop_index(cat, table, name).cat)
<1> DEFINE u == cat[table].unique
           new == [cat EXCEPT ![table].unique = [v \in DOMAIN u \ {name} |-> u[v]]]
<1>1. \/ drop_index(cat, table, name).cat = cat
      \/ table \in DOMAIN cat /\ drop_index(cat, table, name).cat = new
  BY DEF drop_index, Fail, Done
<1>2. ASSUME table \in DOMAIN cat
      PROVE  GoodCatalog(new)
  BY <1>2, RemoveUniqueGood
<1> QED
  BY <1>1, <1>2

(* ALTER TABLE DISABLE CONSTRAINT. *)
LEMMA DisableConstraintGood ==
  ASSUME NEW cat, GoodCatalog(cat), NEW table, NEW name, NEW cascade
  PROVE  GoodCatalog(disable_constraint(cat, table, name, cascade).cat)
<1> DEFINE u == cat[table].unique
           refs == (IF name \in DOMAIN u
                    THEN {f \in referencing(cat, table, u[name].columns) : f.enabled}
                    ELSE {}) \cup {f \in foreign_keys(cat) : f.child = table /\ f.name = name}
           off == with_disabled(cat, refs)
           t == IF name \in DOMAIN u THEN set_enabled(off[table], name, FALSE).table
                ELSE off[table]
           result == disable_constraint(cat, table, name, cascade).cat
<1>1. \/ result = cat
      \/ table \in DOMAIN cat /\ result = [off EXCEPT ![table] = t]
  BY DEF disable_constraint, Fail, Done
<1>2. /\ GoodCatalog(off) /\ DOMAIN off = DOMAIN cat
      /\ \A n \in DOMAIN cat : off[n].unique = cat[n].unique
  <2> HIDE DEF refs
  <2> QED
    BY WithDisabledGood
<1> HIDE DEF off, result
<1>3. ASSUME table \in DOMAIN cat
      PROVE  GoodTable(t)
  <2>1. GoodTable(off[table]) /\ off[table].unique = u
    BY <1>2, <1>3 DEF GoodCatalog
  <2>2. CASE name \in DOMAIN u
    BY <2>1, <2>2, SetEnabledGood
  <2>3. CASE name \notin DOMAIN u
    BY <2>1, <2>3
  <2> QED
    BY <2>2, <2>3
<1> HIDE DEF t
<1>4. ASSUME table \in DOMAIN cat
      PROVE  GoodCatalog([off EXCEPT ![table] = t])
  BY <1>2, <1>3, <1>4 DEF GoodCatalog
<1>5. GoodCatalog(result)
  BY <1>1, <1>4
<1> QED
  BY <1>5 DEF result

(* ALTER TABLE ENABLE CONSTRAINT. *)
LEMMA EnableConstraintGood ==
  ASSUME NEW cat, GoodCatalog(cat), NEW table, NEW name, NEW validate
  PROVE  GoodCatalog(enable_constraint(cat, table, name, validate).cat)
<1> DEFINE t == cat[table]
           r == set_enabled(t, name, TRUE)
           fks == [t.fks EXCEPT ![name].enabled = TRUE]
           on == [t EXCEPT !.fks = fks]
           result == enable_constraint(cat, table, name, validate).cat
<1>1. \/ result = cat
      \/ /\ table \in DOMAIN cat /\ name \in DOMAIN t.unique /\ r.ok
         /\ result = [cat EXCEPT ![table] = r.table]
      \/ /\ table \in DOMAIN cat /\ name \in DOMAIN t.fks
         /\ result = [cat EXCEPT ![table] = on]
  BY DEF enable_constraint, Fail, Done
<1>2. ASSUME table \in DOMAIN cat, name \in DOMAIN t.unique, r.ok
      PROVE  GoodTable(r.table)
  <2>1. GoodTable(t)
    BY <1>2 DEF GoodCatalog
  <2>2. build_index(t, t.unique[name].columns).ok
    BY <1>2 DEF set_enabled
  <2> QED
    BY <1>2, <2>1, <2>2, SetEnabledGood
<1>3. ASSUME table \in DOMAIN cat, name \in DOMAIN t.fks
      PROVE  GoodTable(on)
  <2>1. GoodTable(t)
    BY <1>3 DEF GoodCatalog
  <2>2. DOMAIN fks \subseteq ConstraintName /\ \A f \in DOMAIN fks : fks[f] \in ForeignKey
    <3>1. DOMAIN t.fks \subseteq ConstraintName /\ \A f \in DOMAIN t.fks : t.fks[f] \in ForeignKey
      BY <2>1 DEF GoodTable, IsTable
    <3> DEFINE fk == [t.fks[name] EXCEPT !.enabled = TRUE]
    <3>2. fk \in ForeignKey
      BY <1>3, <3>1 DEF ForeignKey
    <3>3. fks = [t.fks EXCEPT ![name] = fk]
      OBVIOUS
    <3> HIDE DEF t, fk
    <3>4. /\ DOMAIN fks = DOMAIN t.fks
          /\ \A f \in DOMAIN t.fks : fks[f] = fk \/ fks[f] = t.fks[f]
      BY <3>3
    <3> HIDE DEF fks
    <3> QED
      BY <3>1, <3>2, <3>4
  <2> HIDE DEF fks
  <2> QED
    BY <2>1, <2>2, ForeignKeysGood
<1> HIDE DEF t, r, on, result
<1>4. ASSUME table \in DOMAIN cat, NEW x, GoodTable(x)
      PROVE  GoodCatalog([cat EXCEPT ![table] = x])
  BY <1>4 DEF GoodCatalog
<1>5. GoodCatalog(result)
  BY <1>1, <1>2, <1>3, <1>4
<1> QED
  BY <1>5 DEF result

(* ALTER TABLE. *)
LEMMA AlterTableGood ==
  ASSUME NEW cat, GoodCatalog(cat), NEW a, IsAlter(a)
  PROVE  GoodCatalog(alter_table(cat, a).cat)
<1>1. CASE a.kind = "add_unique"
  BY <1>1, AddUniqueGood DEF alter_table, IsAlter
<1>2. CASE a.kind = "add_fk"
  BY <1>2, AddForeignKeyGood DEF alter_table, IsAlter
<1>3. CASE a.kind = "drop"
  BY <1>3, DropConstraintGood DEF alter_table, IsAlter
<1>4. CASE a.kind = "disable"
  BY <1>4, DisableConstraintGood DEF alter_table, IsAlter
<1>5. CASE a.kind = "enable"
  BY <1>5, EnableConstraintGood DEF alter_table, IsAlter
<1> QED
  BY <1>1, <1>2, <1>3, <1>4, <1>5 DEF IsAlter

=============================================================================
