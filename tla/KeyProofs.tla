----------------------------- MODULE KeyProofs -----------------------------
(***************************************************************************)
(* What the operations of tables and catalogs do to referenced keys and to *)
(* row ids, and what the steps of a session do to Strong.                  *)
(*                                                                         *)
(* The proof abstracts a step of a session to one of four moves (Works,    *)
(* Publishes, Replays, Drafts): here are the moves, the proof that they    *)
(* preserve the parts of Strong, and the actions that are moves by what    *)
(* this module says of tables and catalogs. MoveProofs has the others.     *)
(***************************************************************************)
EXTENDS Invariants, TLAPS

(* A step is proved by Zenon unless it names another prover. *)
USE Zenon

(* A table r that declares no foreign key t does not, and every primary key *)
(* and unique constraint that t does.                                       *)
KeepsKeys(r, t) ==
  /\ \A f \in DOMAIN r.fks :
       /\ f \in DOMAIN t.fks
       /\ r.fks[f].parent = t.fks[f].parent
       /\ r.fks[f].parent_columns = t.fks[f].parent_columns
  /\ \A u \in DOMAIN t.unique :
       ~t.unique[u].is_index =>
         /\ u \in DOMAIN r.unique /\ ~r.unique[u].is_index
         /\ r.unique[u].columns = t.unique[u].columns

SameKeys(new, old) ==
  DOMAIN new = DOMAIN old /\ \A n \in DOMAIN old : KeepsKeys(new[n], old[n])

-----------------------------------------------------------------------------
(* The record of a foreign key, as foreign_keys lists it. *)
LEMMA Listed ==
  ASSUME NEW cat, NEW n \in DOMAIN cat, NEW f \in DOMAIN cat[n].fks
  PROVE  \E g \in foreign_keys(cat) :
           /\ g.child = n /\ g.name = f /\ g.parent = cat[n].fks[f].parent
           /\ g.parent_columns = cat[n].fks[f].parent_columns
<1> DEFINE g == [child |-> n, name |-> f, columns |-> cat[n].fks[f].columns,
                 parent |-> cat[n].fks[f].parent,
                 parent_columns |-> cat[n].fks[f].parent_columns,
                 on_delete |-> cat[n].fks[f].on_delete,
                 enabled |-> cat[n].fks[f].enabled]
<1>1. g \in foreign_keys(cat)
  <2> DEFINE of(m) == {[child |-> m, name |-> h, columns |-> cat[m].fks[h].columns,
                        parent |-> cat[m].fks[h].parent,
                        parent_columns |-> cat[m].fks[h].parent_columns,
                        on_delete |-> cat[m].fks[h].on_delete,
                        enabled |-> cat[m].fks[h].enabled] : h \in DOMAIN cat[m].fks}
  <2>1. g \in of(n)
    OBVIOUS
  <2>2. foreign_keys(cat) = UNION {of(m) : m \in DOMAIN cat}
    BY DEF foreign_keys
  <2> HIDE DEF of, g
  <2>3. of(n) \in {of(m) : m \in DOMAIN cat}
    OBVIOUS
  <2> QED
    BY <2>1, <2>2, <2>3
<1>2. /\ g.child = n /\ g.name = f /\ g.parent = cat[n].fks[f].parent
      /\ g.parent_columns = cat[n].fks[f].parent_columns
  OBVIOUS
<1> HIDE DEF g
<1> QED
  BY <1>1, <1>2

(* The same, said of the list foreign_keys builds. *)
LEMMA KeysExistIs ==
  ASSUME NEW cat
  PROVE  KeysExist(cat) <=>
           \A f \in foreign_keys(cat) :
             /\ f.parent \in DOMAIN cat
             /\ has_referenced_key(cat[f.parent], f.parent_columns)
<1> DEFINE fk(n, f) == [child |-> n, name |-> f, columns |-> cat[n].fks[f].columns,
                        parent |-> cat[n].fks[f].parent,
                        parent_columns |-> cat[n].fks[f].parent_columns,
                        on_delete |-> cat[n].fks[f].on_delete,
                        enabled |-> cat[n].fks[f].enabled]
<1>1. foreign_keys(cat) = UNION {{fk(n, f) : f \in DOMAIN cat[n].fks} : n \in DOMAIN cat}
  BY DEF foreign_keys
<1>2. \A n, f : /\ fk(n, f).parent = cat[n].fks[f].parent
                /\ fk(n, f).parent_columns = cat[n].fks[f].parent_columns
  OBVIOUS
<1> HIDE DEF fk
<1>3. ASSUME KeysExist(cat), NEW g \in foreign_keys(cat)
      PROVE  /\ g.parent \in DOMAIN cat
             /\ has_referenced_key(cat[g.parent], g.parent_columns)
  <2>1. PICK n \in DOMAIN cat : \E f \in DOMAIN cat[n].fks : g = fk(n, f)
    BY <1>1, <1>3
  <2>2. PICK f \in DOMAIN cat[n].fks : g = fk(n, f)
    BY <2>1
  <2>3. g.parent = cat[n].fks[f].parent /\ g.parent_columns = cat[n].fks[f].parent_columns
    BY <1>2, <2>2
  <2> QED
    BY <1>3, <2>3 DEF KeysExist, Referenced
<1>4. ASSUME \A f \in foreign_keys(cat) :
               /\ f.parent \in DOMAIN cat
               /\ has_referenced_key(cat[f.parent], f.parent_columns),
             NEW n \in DOMAIN cat, NEW f \in DOMAIN cat[n].fks
      PROVE  Referenced(cat, cat[n].fks[f])
  <2>1. PICK g \in foreign_keys(cat) :
          /\ g.child = n /\ g.name = f /\ g.parent = cat[n].fks[f].parent
          /\ g.parent_columns = cat[n].fks[f].parent_columns
    BY Listed, SMT
  <2> QED
    BY <1>4, <2>1 DEF Referenced
<1> QED
  BY <1>3, <1>4 DEF KeysExist

(* Tables that lose no key and gain no foreign key keep KeysExist.          *)
LEMMA KeysKept ==
  ASSUME NEW old, KeysExist(old), NEW new, SameKeys(new, old)
  PROVE  KeysExist(new)
<1> SUFFICES ASSUME NEW n \in DOMAIN new, NEW f \in DOMAIN new[n].fks
             PROVE  Referenced(new, new[n].fks[f])
  BY DEF KeysExist
<1> DEFINE p == old[n].fks[f].parent
           columns == old[n].fks[f].parent_columns
<1>1. /\ n \in DOMAIN old /\ f \in DOMAIN old[n].fks
      /\ new[n].fks[f].parent = p /\ new[n].fks[f].parent_columns = columns
  BY DEF SameKeys, KeepsKeys
<1>2. p \in DOMAIN old /\ has_referenced_key(old[p], columns)
  BY <1>1 DEF KeysExist, Referenced
<1>3. p \in DOMAIN new /\ has_referenced_key(new[p], columns)
  BY <1>2 DEF SameKeys, KeepsKeys, has_referenced_key
<1> HIDE DEF p, columns
<1> QED
  BY <1>1, <1>3 DEF Referenced

(* Replacing one table. *)
LEMMA PutKeeps ==
  ASSUME NEW cat, NEW n \in DOMAIN cat, NEW t, KeepsKeys(t, cat[n])
  PROVE  SameKeys([cat EXCEPT ![n] = t], cat)
<1>1. \A m \in DOMAIN cat : KeepsKeys(cat[m], cat[m])
  BY DEF KeepsKeys
<1> QED
  BY <1>1 DEF SameKeys

-----------------------------------------------------------------------------
(* Rows and indexes change; the constraints stay. *)
LEMMA ReindexKeeps ==
  ASSUME NEW t, IsTable(t), NEW new, NEW r, r.fks = t.fks, r.unique = Reindex(t, new)
  PROVE  KeepsKeys(r, t)
<1>1. \A u \in DOMAIN t.unique : t.unique[u] \in Unique
  BY DEF IsTable
<1>2. \A u \in DOMAIN t.unique :
        /\ [t.unique[u] EXCEPT !.index = new[u]].is_index = t.unique[u].is_index
        /\ [t.unique[u] EXCEPT !.index = new[u]].columns = t.unique[u].columns
  BY <1>1 DEF Unique
<1>3. DOMAIN r.unique = DOMAIN t.unique
  BY DEF Reindex
<1>4. \A u \in DOMAIN t.unique : r.unique[u].is_index = t.unique[u].is_index
                                  /\ r.unique[u].columns = t.unique[u].columns
  BY <1>2 DEF Reindex
<1> QED
  BY <1>3, <1>4 DEF KeepsKeys

(* Table::insert, delete, update and truncate. *)
LEMMA RowsKeep ==
  ASSUME NEW t, IsTable(t)
  PROVE  /\ \A id, values : KeepsKeys(Table_insert(t, id, values).table, t)
         /\ \A ids : KeepsKeys(Table_delete(t, ids), t)
         /\ \A batch : KeepsKeys(Table_update(t, batch).table, t)
         /\ KeepsKeys(truncate(t), t)
<1> DEFINE one(unique) == [t EXCEPT !.unique = unique]
           both(rows, unique) == [t EXCEPT !.rows = rows, !.unique = unique]
<1>1. \A rows, unique :
        /\ one(unique).fks = t.fks /\ one(unique).unique = unique
        /\ both(rows, unique).fks = t.fks /\ both(rows, unique).unique = unique
  BY DEF IsTable
<1>2. KeepsKeys(t, t)
  BY DEF KeepsKeys
<1> HIDE DEF one, both
<1>3. ASSUME NEW new PROVE KeepsKeys(one(Reindex(t, new)), t)
  <2> DEFINE r == one(Reindex(t, new))
  <2>1. r.fks = t.fks /\ r.unique = Reindex(t, new)
    BY <1>1
  <2> HIDE DEF r
  <2>2. KeepsKeys(r, t)
    BY <2>1, ReindexKeeps
  <2> QED
    BY <2>2 DEF r
<1>4. ASSUME NEW rows, NEW new PROVE KeepsKeys(both(rows, Reindex(t, new)), t)
  <2> DEFINE r == both(rows, Reindex(t, new))
  <2>1. r.fks = t.fks /\ r.unique = Reindex(t, new)
    BY <1>1
  <2> HIDE DEF r
  <2>2. KeepsKeys(r, t)
    BY <2>1, ReindexKeeps
  <2> QED
    BY <2>2 DEF r
<1>5. ASSUME NEW id, NEW values PROVE KeepsKeys(Table_insert(t, id, values).table, t)
  BY <1>2, <1>4 DEF Table_insert, both
<1>6. ASSUME NEW ids PROVE KeepsKeys(Table_delete(t, ids), t)
  BY <1>4 DEF Table_delete, both
<1>7. ASSUME NEW batch PROVE KeepsKeys(Table_update(t, batch).table, t)
  BY <1>3, <1>4 DEF Table_update, one, both
<1>8. KeepsKeys(truncate(t), t)
  <2> DEFINE unique == [u \in DOMAIN t.unique |-> [t.unique[u] EXCEPT !.index = {}]]
  <2>1. \A u \in DOMAIN t.unique : t.unique[u] \in Unique
    BY DEF IsTable
  <2>2. \A u \in DOMAIN t.unique :
          /\ unique[u].is_index = t.unique[u].is_index
          /\ unique[u].columns = t.unique[u].columns
    BY <2>1 DEF Unique
  <2>3. DOMAIN unique = DOMAIN t.unique
    OBVIOUS
  <2>4. truncate(t).fks = t.fks /\ truncate(t).unique = unique
    BY DEF truncate, IsTable
  <2> HIDE DEF unique
  <2> QED
    BY <2>2, <2>3, <2>4 DEF KeepsKeys
<1> QED
  BY <1>5, <1>6, <1>7, <1>8

(* One step of a replay, and one of undo. *)
LEMMA ReplayKeeps ==
  ASSUME NEW cat, GoodCatalog(cat), NEW c \in Change
  PROVE  SameKeys(replay_change(cat, c).cat, cat)
<1> DEFINE n == c.table
<1>1. \/ replay_change(cat, c).cat = cat
      \/ /\ n \in DOMAIN cat
         /\ replay_change(cat, c).cat =
              [cat EXCEPT ![n] = Table_insert(cat[n], c.id, c.values).table]
      \/ /\ n \in DOMAIN cat
         /\ replay_change(cat, c).cat =
              [cat EXCEPT ![n] =
                 Table_update(cat[n], <<[id |-> c.id, values |-> c.values]>>).table]
      \/ /\ n \in DOMAIN cat
         /\ replay_change(cat, c).cat = [cat EXCEPT ![n] = Table_delete(cat[n], {c.id})]
  BY DEF replay_change
<1>2. SameKeys(cat, cat)
  BY DEF SameKeys, KeepsKeys
<1>3. n \in DOMAIN cat => IsTable(cat[n])
  BY DEF GoodCatalog, GoodTable
<1>4. ASSUME n \in DOMAIN cat, NEW t, KeepsKeys(t, cat[n])
      PROVE  SameKeys([cat EXCEPT ![n] = t], cat)
  BY <1>4, PutKeeps
<1>5. ASSUME n \in DOMAIN cat
      PROVE  /\ \A id, values : KeepsKeys(Table_insert(cat[n], id, values).table, cat[n])
             /\ \A ids : KeepsKeys(Table_delete(cat[n], ids), cat[n])
             /\ \A batch : KeepsKeys(Table_update(cat[n], batch).table, cat[n])
  BY <1>3, <1>5, RowsKeep
<1> HIDE DEF n
<1> QED
  BY <1>1, <1>2, <1>4, <1>5

(* Undoing a change touches rows, never keys. *)
LEMMA UndoKeeps ==
  ASSUME NEW cat, GoodCatalog(cat), NEW log, NEW m,
         log[Len(log)] \in Change, log[Len(log)].table \in DOMAIN cat
  PROVE  SameKeys(undo_change(cat, log, m), cat)
<1> DEFINE c == log[Len(log)]
           batch == [i \in 1..m |-> [id |-> log[Len(log) + 1 - i].id,
                                     values |-> log[Len(log) + 1 - i].old]]
<1>1. undo_change(cat, log, m) =
        [cat EXCEPT ![c.table] = reverted(cat[c.table], c, batch)]
  BY DEF undo_change
<1>2. c.op \in {"insert", "delete", "update"}
  BY DEF Change
<1> HIDE DEF batch, c
<1>3. IsTable(cat[c.table]) /\ c.table \in DOMAIN cat
  BY DEF GoodCatalog, GoodTable, c
<1>4. KeepsKeys(reverted(cat[c.table], c, batch), cat[c.table])
  <2>1. \/ reverted(cat[c.table], c, batch) = Table_delete(cat[c.table], {c.id})
        \/ reverted(cat[c.table], c, batch) = Table_insert(cat[c.table], c.id, c.old).table
        \/ reverted(cat[c.table], c, batch) = Table_update(cat[c.table], batch).table
    BY <1>2 DEF reverted
  <2> QED
    BY <1>3, <2>1, RowsKeep
<1> DEFINE n == c.table
           r == reverted(cat[n], c, batch)
<1>5. n \in DOMAIN cat /\ KeepsKeys(r, cat[n]) /\ undo_change(cat, log, m) = [cat EXCEPT ![n] = r]
  BY <1>1, <1>3, <1>4
<1> HIDE DEF n, r
<1>6. SameKeys([cat EXCEPT ![n] = r], cat)
  BY <1>5, PutKeeps
<1> QED
  BY <1>5, <1>6

-----------------------------------------------------------------------------
(* CREATE TABLE: the new table references keys that exist, its own included, *)
(* and the name is new, so no key goes away.                                 *)
LEMMA CreateTableKeys ==
  ASSUME NEW cat, KeysExist(cat), NEW def
  PROVE  KeysExist(create_table(cat, def).cat)
<1> DEFINE t == [columns |-> def.columns, not_null |-> def.not_null,
                 unique |-> [u \in DOMAIN def.unique |-> NewUnique(def.unique[u])],
                 fks |-> [f \in DOMAIN def.fks |-> NewForeignKey(def.fks[f])],
                 rows |-> << >>]
           new == [n \in DOMAIN cat \cup {def.name} |->
                     IF n = def.name THEN t ELSE cat[n]]
           found == /\ def.name \notin DOMAIN cat
                    /\ \A f \in DOMAIN def.fks :
                         /\ def.fks[f].parent \in DOMAIN new
                         /\ has_referenced_key(new[def.fks[f].parent],
                                               def.fks[f].parent_columns)
<1>1. \/ create_table(cat, def).cat = cat
      \/ found /\ create_table(cat, def).cat = new
  BY DEF create_table, Fail, Done
<1>2. /\ t.fks = [f \in DOMAIN def.fks |-> NewForeignKey(def.fks[f])]
      /\ \A f \in DOMAIN def.fks :
           /\ t.fks[f].parent = def.fks[f].parent
           /\ t.fks[f].parent_columns = def.fks[f].parent_columns
  BY DEF NewForeignKey
<1>3. DOMAIN t.fks = DOMAIN def.fks
  BY <1>2
<1> HIDE DEF t
<1>4. /\ DOMAIN new = DOMAIN cat \cup {def.name} /\ new[def.name] = t
      /\ \A n \in DOMAIN cat : n # def.name => new[n] = cat[n]
  OBVIOUS
<1>5. ASSUME found PROVE KeysExist(new)
  <2> HIDE DEF new
  <2>1. ASSUME NEW f \in DOMAIN t.fks PROVE Referenced(new, t.fks[f])
    BY <1>2, <1>3, <1>5 DEF Referenced
  <2>2. ASSUME NEW n \in DOMAIN cat, NEW f \in DOMAIN cat[n].fks
        PROVE  Referenced(new, cat[n].fks[f])
    <3>1. Referenced(cat, cat[n].fks[f])
      BY DEF KeysExist
    <3> QED
      BY <1>4, <1>5, <3>1 DEF Referenced
  <2> QED
    BY <1>4, <1>5, <2>1, <2>2 DEF KeysExist
<1> QED
  BY <1>1, <1>5

(* Taking foreign keys away changes nothing else. *)
LEMMA WithoutForeignKeysAre ==
  ASSUME NEW cat, GoodCatalog(cat), NEW refs
  PROVE  LET new == without_foreign_keys(cat, refs)
         IN  /\ DOMAIN new = DOMAIN cat
             /\ \A n \in DOMAIN cat :
                  /\ new[n].unique = cat[n].unique /\ new[n].rows = cat[n].rows
                  /\ DOMAIN new[n] = DOMAIN cat[n]
                  /\ \A f \in DOMAIN new[n].fks :
                       /\ f \in DOMAIN cat[n].fks /\ new[n].fks[f] = cat[n].fks[f]
                       /\ ~\E r \in refs : r.child = n /\ r.name = f
<1> DEFINE fks(n) == [f \in {g \in DOMAIN cat[n].fks :
                               ~\E r \in refs : r.child = n /\ r.name = g}
                        |-> cat[n].fks[f]]
           new == without_foreign_keys(cat, refs)
<1>1. \A n \in DOMAIN cat : DOMAIN cat[n] = {"columns", "not_null", "unique", "fks", "rows"}
  BY DEF GoodCatalog, GoodTable, IsTable
<1>2. new = [n \in DOMAIN cat |-> [cat[n] EXCEPT !.fks = fks(n)]]
  BY DEF without_foreign_keys
<1>3. ASSUME NEW n \in DOMAIN cat, NEW f \in DOMAIN fks(n)
      PROVE  /\ f \in DOMAIN cat[n].fks /\ fks(n)[f] = cat[n].fks[f]
             /\ ~\E r \in refs : r.child = n /\ r.name = f
  OBVIOUS
<1> HIDE DEF fks, new
<1>4. ASSUME NEW n \in DOMAIN cat
      PROVE  /\ new[n].unique = cat[n].unique /\ new[n].rows = cat[n].rows
             /\ DOMAIN new[n] = DOMAIN cat[n] /\ new[n].fks = fks(n)
  BY <1>1, <1>2
<1>5. DOMAIN new = DOMAIN cat
  BY <1>2
<1>6. ASSUME NEW n \in DOMAIN cat, NEW f \in DOMAIN new[n].fks
      PROVE  /\ f \in DOMAIN cat[n].fks /\ new[n].fks[f] = cat[n].fks[f]
             /\ ~\E r \in refs : r.child = n /\ r.name = f
  BY <1>3, <1>4, SMT
<1> QED
  BY <1>4, <1>5, <1>6 DEF new

(* DROP TABLE: who references the table loses the foreign key first. *)
LEMMA DropTableKeys ==
  ASSUME NEW cat, GoodCatalog(cat), KeysExist(cat), NEW name, NEW cascade
  PROVE  KeysExist(drop_table(cat, name, cascade).cat)
<1> DEFINE refs == {f \in foreign_keys(cat) : f.parent = name /\ f.child # name}
           left == without_foreign_keys(cat, refs)
           new == [n \in DOMAIN cat \ {name} |-> left[n]]
<1>1. drop_table(cat, name, cascade).cat \in {cat, new}
  BY DEF drop_table, Fail, Done
<1>2. /\ DOMAIN left = DOMAIN cat
      /\ \A n \in DOMAIN cat :
           /\ left[n].unique = cat[n].unique
           /\ \A f \in DOMAIN left[n].fks :
                /\ f \in DOMAIN cat[n].fks /\ left[n].fks[f] = cat[n].fks[f]
                /\ ~\E r \in refs : r.child = n /\ r.name = f
  <2> HIDE DEF refs
  <2> QED
    BY WithoutForeignKeysAre, SMT
<1> HIDE DEF left
<1>3. DOMAIN new = DOMAIN cat \ {name} /\ \A n \in DOMAIN cat \ {name} : new[n] = left[n]
  OBVIOUS
<1> HIDE DEF new
<1>4. ASSUME NEW n \in DOMAIN new, NEW f \in DOMAIN new[n].fks
      PROVE  Referenced(new, new[n].fks[f])
  <2> DEFINE p == cat[n].fks[f].parent
             columns == cat[n].fks[f].parent_columns
  <2>1. /\ n \in DOMAIN cat /\ n # name /\ f \in DOMAIN cat[n].fks
        /\ new[n].fks[f] = cat[n].fks[f]
        /\ ~\E r \in refs : r.child = n /\ r.name = f
    BY <1>2, <1>3, SMT
  <2>2. p \in DOMAIN cat /\ has_referenced_key(cat[p], columns)
    BY <2>1 DEF KeysExist, Referenced
  <2>3. p # name
    <3>1. PICK g \in foreign_keys(cat) :
            /\ g.child = n /\ g.name = f /\ g.parent = cat[n].fks[f].parent
            /\ g.parent_columns = cat[n].fks[f].parent_columns
      BY <2>1, Listed, SMT
    <3> QED
      BY <2>1, <3>1
  <2> HIDE DEF p, columns
  <2>4. p \in DOMAIN new /\ new[p].unique = cat[p].unique
    BY <1>2, <1>3, <2>2, <2>3
  <2>5. has_referenced_key(new[p], columns)
    BY <2>2, <2>4 DEF has_referenced_key
  <2> QED
    BY <2>1, <2>4, <2>5 DEF Referenced, p, columns
<1> QED
  BY <1>1, <1>4 DEF KeysExist

(* TRUNCATE TABLE. *)
LEMMA TruncateTableKeys ==
  ASSUME NEW cat, GoodCatalog(cat), KeysExist(cat), NEW name
  PROVE  KeysExist(truncate_table(cat, name).cat)
<1>1. \/ truncate_table(cat, name).cat = cat
      \/ /\ name \in DOMAIN cat
         /\ truncate_table(cat, name).cat = [cat EXCEPT ![name] = truncate(cat[name])]
  BY DEF truncate_table, Fail, Done
<1>2. ASSUME name \in DOMAIN cat
      PROVE  KeysExist([cat EXCEPT ![name] = truncate(cat[name])])
  <2>1. KeepsKeys(truncate(cat[name]), cat[name])
    BY <1>2, RowsKeep DEF GoodCatalog, GoodTable
  <2>2. SameKeys([cat EXCEPT ![name] = truncate(cat[name])], cat)
    BY <1>2, <2>1, PutKeeps
  <2> QED
    BY <2>2, KeysKept
<1> QED
  BY <1>1, <1>2

-----------------------------------------------------------------------------
(* One table of a catalog replaced: the rows stay if the table's do. *)
LEMMA PutRows ==
  ASSUME NEW cat, NEW n \in DOMAIN cat, NEW t, t.rows = cat[n].rows
  PROVE  SameRows([cat EXCEPT ![n] = t], cat)
  BY DEF SameRows

(* What an ALTER TABLE may do: leave the rows alone, and every foreign key   *)
(* with the key it references.                                               *)
Alters(new, old) == SameRows(new, old) /\ (KeysExist(old) => KeysExist(new))

(* A failed ALTER TABLE alters nothing. *)
LEMMA AltersNothing ==
  ASSUME NEW cat
  PROVE  Alters(cat, cat)
  BY DEF Alters, SameRows

(* A table replaced by one with its rows and its keys. *)
LEMMA AltersOne ==
  ASSUME NEW cat, NEW n \in DOMAIN cat, NEW t, t.rows = cat[n].rows, KeepsKeys(t, cat[n])
  PROVE  Alters([cat EXCEPT ![n] = t], cat)
<1>1. SameRows([cat EXCEPT ![n] = t], cat)
  BY PutRows
<1>2. SameKeys([cat EXCEPT ![n] = t], cat)
  BY PutKeeps
<1> QED
  BY <1>1, <1>2, KeysKept DEF Alters

(* ALTER TABLE ADD of a unique constraint. *)
LEMMA AddUniqueAlters ==
  ASSUME NEW cat, GoodCatalog(cat), NEW table, NEW name, NEW def
  PROVE  Alters(add_unique_constraint(cat, table, name, def).cat, cat)
<1> DEFINE t == cat[table]
           c == [columns |-> def.columns, primary |-> def.primary,
                 is_index |-> def.is_index, enabled |-> def.enabled,
                 index |-> IF def.enabled THEN build_index(t, def.columns).index ELSE {}]
           unique == [u \in DOMAIN t.unique \cup {name} |->
                        IF u # name THEN t.unique[u] ELSE c]
           r == [t EXCEPT !.unique = unique]
           result == add_unique_constraint(cat, table, name, def).cat
<1>1. \/ result = cat
      \/ /\ table \in DOMAIN cat /\ name \notin constraint_names(cat)
         /\ result = [cat EXCEPT ![table] = r]
  BY DEF add_unique_constraint, add_unique, Fail, Done
<1>2. ASSUME table \in DOMAIN cat, name \notin constraint_names(cat)
      PROVE  Alters([cat EXCEPT ![table] = r], cat)
  <2>1. name \notin DOMAIN t.unique
    BY <1>2 DEF constraint_names
  <2>2. DOMAIN t = {"columns", "not_null", "unique", "fks", "rows"}
    BY <1>2 DEF GoodCatalog, GoodTable, IsTable
  <2> HIDE DEF c
  <2>3. \A u \in DOMAIN t.unique : u \in DOMAIN unique /\ unique[u] = t.unique[u]
    BY <2>1
  <2> HIDE DEF unique, t
  <2>4. r.rows = t.rows /\ r.fks = t.fks /\ r.unique = unique
    BY <2>2
  <2>5. KeepsKeys(r, t)
    BY <2>3, <2>4 DEF KeepsKeys
  <2> HIDE DEF r
  <2>6. r.rows = cat[table].rows /\ KeepsKeys(r, cat[table])
    BY <2>4, <2>5 DEF t
  <2> QED
    BY <1>2, <2>6, AltersOne
<1> HIDE DEF r, result
<1>3. Alters(result, cat)
  BY <1>1, <1>2, AltersNothing
<1> QED
  BY <1>3 DEF result

(* ALTER TABLE ADD FOREIGN KEY: its key exists. *)
LEMMA AddForeignKeyAlters ==
  ASSUME NEW cat, GoodCatalog(cat), NEW table, NEW name, NEW def, NEW validate
  PROVE  Alters(add_foreign_key(cat, table, name, def, validate).cat, cat)
<1> DEFINE t == cat[table]
           fk == NewForeignKey(def)
           fks == [f \in DOMAIN t.fks \cup {name} |-> IF f = name THEN fk ELSE t.fks[f]]
           r == [t EXCEPT !.fks = fks]
           new == [cat EXCEPT ![table] = r]
           result == add_foreign_key(cat, table, name, def, validate).cat
<1>1. \/ result = cat
      \/ /\ table \in DOMAIN cat /\ def.parent \in DOMAIN cat
         /\ has_referenced_key(cat[def.parent], def.parent_columns)
         /\ result = new
  BY DEF add_foreign_key, Fail, Done
<1>2. ASSUME table \in DOMAIN cat, def.parent \in DOMAIN cat,
             has_referenced_key(cat[def.parent], def.parent_columns)
      PROVE  Alters(new, cat)
  <2>1. DOMAIN t = {"columns", "not_null", "unique", "fks", "rows"}
    BY <1>2 DEF GoodCatalog, GoodTable, IsTable
  <2>2. fk.parent = def.parent /\ fk.parent_columns = def.parent_columns
    BY DEF NewForeignKey
  <2> HIDE DEF fk
  <2>3. \A f \in DOMAIN fks : fks[f] = fk \/ (f \in DOMAIN t.fks /\ fks[f] = t.fks[f])
    OBVIOUS
  <2> HIDE DEF fks, t
  <2>4. r.rows = t.rows /\ r.fks = fks /\ r.unique = t.unique
    BY <2>1
  <2> HIDE DEF r
  <2>5. /\ DOMAIN new = DOMAIN cat /\ new[table] = r
        /\ \A n \in DOMAIN cat : n # table => new[n] = cat[n]
    BY <1>2
  <2> HIDE DEF new
  <2>6. \A n \in DOMAIN cat : new[n].rows = cat[n].rows /\ new[n].unique = cat[n].unique
    <3>1. r.rows = cat[table].rows /\ r.unique = cat[table].unique
      BY <2>4 DEF t
    <3> QED
      BY <2>5, <3>1
  <2>7. \A g : Referenced(cat, g) => Referenced(new, g)
    BY <2>5, <2>6 DEF Referenced, has_referenced_key
  <2>8. Referenced(cat, fk)
    BY <1>2, <2>2 DEF Referenced
  <2>9. ASSUME KeysExist(cat), NEW n \in DOMAIN new, NEW f \in DOMAIN new[n].fks
        PROVE  Referenced(cat, new[n].fks[f])
    <3>1. CASE n # table
      BY <2>5, <2>9, <3>1 DEF KeysExist
    <3>2. CASE n = table
      <4>1. new[n].fks = fks /\ t = cat[n] /\ n \in DOMAIN cat
        BY <1>2, <2>4, <2>5, <3>2 DEF t
      <4>2. fks[f] = fk \/ (f \in DOMAIN t.fks /\ fks[f] = t.fks[f])
        BY <2>3, <4>1
      <4> QED
        BY <2>8, <2>9, <4>1, <4>2 DEF KeysExist
    <3> QED
      BY <3>1, <3>2
  <2>10. SameRows(new, cat)
    BY <2>5, <2>6 DEF SameRows
  <2>11. KeysExist(cat) => KeysExist(new)
    BY <2>7, <2>9 DEF KeysExist
  <2> QED
    BY <2>10, <2>11 DEF Alters
<1> HIDE DEF new, result
<1>3. Alters(result, cat)
  BY <1>1, <1>2, AltersNothing
<1> QED
  BY <1>3 DEF result

(* ALTER TABLE DROP: what references the constraint's key loses it, and the  *)
(* other foreign keys of the parent use another one.                         *)
LEMMA DropConstraintAlters ==
  ASSUME NEW cat, GoodCatalog(cat), NEW table, NEW name, NEW cascade
  PROVE  Alters(drop_constraint(cat, table, name, cascade).cat, cat)
<1> DEFINE u == cat[table].unique
           refs == (IF name \in DOMAIN u THEN referencing(cat, table, u[name].columns)
                    ELSE {}) \cup {f \in foreign_keys(cat) : f.child = table /\ f.name = name}
           left == without_foreign_keys(cat, refs)
           unique == [v \in DOMAIN u \ {name} |-> u[v]]
           r == [left[table] EXCEPT !.unique = unique]
           new == [left EXCEPT ![table] = r]
           result == drop_constraint(cat, table, name, cascade).cat
<1>1. \/ result = cat
      \/ table \in DOMAIN cat /\ result = new
  BY DEF drop_constraint, Fail, Done
<1>2. /\ DOMAIN left = DOMAIN cat
      /\ \A n \in DOMAIN cat :
           /\ left[n].unique = cat[n].unique /\ left[n].rows = cat[n].rows
           /\ DOMAIN left[n] = DOMAIN cat[n]
           /\ \A f \in DOMAIN left[n].fks :
                /\ f \in DOMAIN cat[n].fks /\ left[n].fks[f] = cat[n].fks[f]
                /\ ~\E g \in refs : g.child = n /\ g.name = f
  <2> HIDE DEF refs
  <2> QED
    BY WithoutForeignKeysAre, SMT
<1>3. \A n \in DOMAIN cat : DOMAIN cat[n] = {"columns", "not_null", "unique", "fks", "rows"}
  BY DEF GoodCatalog, GoodTable, IsTable
<1>4. \A v \in DOMAIN u : v # name => v \in DOMAIN unique /\ unique[v] = u[v]
  OBVIOUS
<1> HIDE DEF left, result, unique
<1>5. ASSUME table \in DOMAIN cat
      PROVE  Alters(new, cat)
  <2>1. r.rows = left[table].rows /\ r.fks = left[table].fks /\ r.unique = unique
    <3>1. DOMAIN left[table] = {"columns", "not_null", "unique", "fks", "rows"}
      BY <1>2, <1>3, <1>5
    <3> QED
      BY <3>1
  <2> HIDE DEF r
  <2>2. /\ DOMAIN new = DOMAIN cat /\ new[table] = r
        /\ \A n \in DOMAIN cat : n # table => new[n] = left[n]
    BY <1>2, <1>5
  <2> HIDE DEF new
  <2>3. \A n \in DOMAIN cat : new[n].rows = cat[n].rows /\ new[n].fks = left[n].fks
    <3>1. r.rows = cat[table].rows
      BY <1>2, <1>5, <2>1
    <3> QED
      BY <1>2, <2>1, <2>2, <3>1
  <2>4. ASSUME KeysExist(cat), NEW n \in DOMAIN cat, NEW f \in DOMAIN left[n].fks
        PROVE  Referenced(new, left[n].fks[f])
    <3> DEFINE p == cat[n].fks[f].parent
               columns == cat[n].fks[f].parent_columns
    <3>1. /\ f \in DOMAIN cat[n].fks /\ left[n].fks[f] = cat[n].fks[f]
          /\ ~\E g \in refs : g.child = n /\ g.name = f
      BY <1>2, <2>4
    <3>2. p \in DOMAIN cat /\ has_referenced_key(cat[p], columns)
      BY <2>4, <3>1 DEF KeysExist, Referenced
    <3>3. PICK g \in foreign_keys(cat) :
            /\ g.child = n /\ g.name = f /\ g.parent = p /\ g.parent_columns = columns
      BY <2>4, <3>1, Listed, SMT
    <3> HIDE DEF p, columns
    <3>4. PICK v \in DOMAIN cat[p].unique :
            ~cat[p].unique[v].is_index /\ cat[p].unique[v].columns = columns
      BY <3>2 DEF has_referenced_key
    <3>5. has_referenced_key(new[p], columns)
      <4>1. CASE p # table
        <5>1. new[p].unique = cat[p].unique
          BY <1>2, <2>2, <3>2, <4>1
        <5> QED
          BY <3>4, <5>1 DEF has_referenced_key
      <4>2. CASE p = table
        <5>1. v # name
          <6> SUFFICES ASSUME v = name PROVE FALSE
            OBVIOUS
          <6>1. name \in DOMAIN u /\ u[name].columns = columns
            BY <3>4, <4>2
          <6>2. g \in referencing(cat, table, u[name].columns)
            BY <3>3, <4>2, <6>1 DEF referencing
          <6>3. g \in refs
            BY <6>1, <6>2
          <6> QED
            BY <3>1, <3>3, <6>3
        <5>2. v \in DOMAIN unique /\ unique[v] = cat[p].unique[v]
          BY <1>4, <3>4, <4>2, <5>1
        <5>3. new[p].unique = unique
          BY <2>1, <2>2, <4>2
        <5> QED
          BY <3>4, <5>2, <5>3 DEF has_referenced_key
      <4> QED
        BY <4>1, <4>2
    <3> QED
      BY <2>2, <3>1, <3>2, <3>5 DEF Referenced, p, columns
  <2>5. SameRows(new, cat)
    BY <2>2, <2>3 DEF SameRows
  <2>6. KeysExist(cat) => KeysExist(new)
    BY <2>2, <2>3, <2>4 DEF KeysExist
  <2> QED
    BY <2>5, <2>6 DEF Alters
<1> HIDE DEF new
<1>6. Alters(result, cat)
  BY <1>1, <1>5, AltersNothing
<1> QED
  BY <1>6 DEF result

(* DROP INDEX: no foreign key references a mere index. *)
LEMMA DropIndexKeys ==
  ASSUME NEW cat, GoodCatalog(cat), KeysExist(cat), NEW table, NEW name
  PROVE  KeysExist(drop_index(cat, table, name).cat)
<1> DEFINE t == cat[table]
           unique == [v \in DOMAIN t.unique \ {name} |-> t.unique[v]]
           r == [t EXCEPT !.unique = unique]
<1>1. \/ drop_index(cat, table, name).cat = cat
      \/ /\ table \in DOMAIN cat /\ name \in DOMAIN t.unique /\ t.unique[name].is_index
         /\ drop_index(cat, table, name).cat = [cat EXCEPT ![table] = r]
  BY DEF drop_index, Fail, Done
<1>2. ASSUME table \in DOMAIN cat, t.unique[name].is_index
      PROVE  KeysExist([cat EXCEPT ![table] = r])
  <2>1. DOMAIN t = {"columns", "not_null", "unique", "fks", "rows"}
    BY <1>2 DEF GoodCatalog, GoodTable, IsTable
  <2>2. \A v \in DOMAIN t.unique : v # name => v \in DOMAIN unique /\ unique[v] = t.unique[v]
    OBVIOUS
  <2> HIDE DEF unique, t
  <2>3. r.fks = t.fks /\ r.unique = unique
    BY <2>1
  <2>4. KeepsKeys(r, t)
    BY <1>2, <2>2, <2>3 DEF KeepsKeys
  <2> HIDE DEF r
  <2>5. SameKeys([cat EXCEPT ![table] = r], cat)
    BY <1>2, <2>4, PutKeeps DEF t
  <2> QED
    BY <2>5, KeysKept
<1> HIDE DEF r
<1> QED
  BY <1>1, <1>2

(* Turning a unique constraint on or off. *)
LEMMA SetEnabledKeeps ==
  ASSUME NEW t, DOMAIN t = {"columns", "not_null", "unique", "fks", "rows"},
         NEW name \in DOMAIN t.unique, t.unique[name] \in Unique, NEW enabled
  PROVE  LET r == set_enabled(t, name, enabled).table
         IN  r.rows = t.rows /\ KeepsKeys(r, t)
<1> DEFINE built == build_index(t, t.unique[name].columns)
           c == [t.unique[name] EXCEPT !.enabled = enabled,
                                       !.index = IF enabled THEN built.index ELSE {}]
           unique == [t.unique EXCEPT ![name] = c]
           r == [t EXCEPT !.unique = unique]
<1>1. set_enabled(t, name, enabled).table = r
  BY DEF set_enabled
<1> HIDE DEF built
<1>2. c.is_index = t.unique[name].is_index /\ c.columns = t.unique[name].columns
  BY DEF Unique
<1> HIDE DEF c
<1>3. /\ DOMAIN unique = DOMAIN t.unique /\ unique[name] = c
      /\ \A v \in DOMAIN t.unique : v # name => unique[v] = t.unique[v]
  OBVIOUS
<1> HIDE DEF unique
<1>4. r.rows = t.rows /\ r.fks = t.fks /\ r.unique = unique
  OBVIOUS
<1> HIDE DEF r
<1>5. ASSUME NEW v \in DOMAIN t.unique
      PROVE  /\ v \in DOMAIN r.unique /\ r.unique[v].is_index = t.unique[v].is_index
             /\ r.unique[v].columns = t.unique[v].columns
  BY <1>2, <1>3, <1>4
<1>6. r.rows = t.rows /\ KeepsKeys(r, t)
  BY <1>4, <1>5 DEF KeepsKeys
<1> QED
  BY <1>1, <1>6

(* Turning foreign keys off. *)
LEMMA WithDisabledKeeps ==
  ASSUME NEW cat, GoodCatalog(cat), NEW refs
  PROVE  LET new == with_disabled(cat, refs)
         IN  /\ DOMAIN new = DOMAIN cat
             /\ \A n \in DOMAIN cat :
                  /\ new[n].rows = cat[n].rows /\ new[n].unique = cat[n].unique
                  /\ DOMAIN new[n] = DOMAIN cat[n]
                  /\ KeepsKeys(new[n], cat[n])
<1> DEFINE off(n, f) == [cat[n].fks[f] EXCEPT !.enabled = FALSE]
           fks(n) == [f \in DOMAIN cat[n].fks |->
                        IF \E r \in refs : r.child = n /\ r.name = f
                        THEN off(n, f) ELSE cat[n].fks[f]]
           new == with_disabled(cat, refs)
<1>1. ASSUME NEW n \in DOMAIN cat
      PROVE  /\ DOMAIN cat[n] = {"columns", "not_null", "unique", "fks", "rows"}
             /\ \A f \in DOMAIN cat[n].fks : cat[n].fks[f] \in ForeignKey
  BY DEF GoodCatalog, GoodTable, IsTable
<1>2. new = [n \in DOMAIN cat |-> [cat[n] EXCEPT !.fks = fks(n)]]
  BY DEF with_disabled
<1>3. ASSUME NEW n \in DOMAIN cat, NEW f \in DOMAIN cat[n].fks
      PROVE  /\ off(n, f).parent = cat[n].fks[f].parent
             /\ off(n, f).parent_columns = cat[n].fks[f].parent_columns
  <2> DEFINE k == cat[n].fks[f]
  <2>1. k \in ForeignKey
    BY <1>1, <1>3
  <2> HIDE DEF k
  <2>2. /\ [k EXCEPT !.enabled = FALSE].parent = k.parent
        /\ [k EXCEPT !.enabled = FALSE].parent_columns = k.parent_columns
    BY <2>1 DEF ForeignKey
  <2> QED
    BY <2>2 DEF k
<1> HIDE DEF off
<1>4. ASSUME NEW n \in DOMAIN cat
      PROVE  /\ DOMAIN fks(n) = DOMAIN cat[n].fks
             /\ \A f \in DOMAIN cat[n].fks :
                  fks(n)[f] = off(n, f) \/ fks(n)[f] = cat[n].fks[f]
  OBVIOUS
<1> HIDE DEF fks, new
<1>5. ASSUME NEW n \in DOMAIN cat
      PROVE  /\ new[n].unique = cat[n].unique /\ new[n].rows = cat[n].rows
             /\ new[n].fks = fks(n) /\ DOMAIN new[n] = DOMAIN cat[n]
  BY <1>1, <1>2
<1>6. ASSUME NEW n \in DOMAIN cat
      PROVE  KeepsKeys(new[n], cat[n])
  <2>1. \A f \in DOMAIN new[n].fks :
          /\ f \in DOMAIN cat[n].fks
          /\ new[n].fks[f].parent = cat[n].fks[f].parent
          /\ new[n].fks[f].parent_columns = cat[n].fks[f].parent_columns
    <3>1. new[n].fks = fks(n) /\ DOMAIN fks(n) = DOMAIN cat[n].fks
      BY <1>4, <1>5, <1>6
    <3>2. ASSUME NEW f \in DOMAIN cat[n].fks
          PROVE  /\ fks(n)[f].parent = cat[n].fks[f].parent
                 /\ fks(n)[f].parent_columns = cat[n].fks[f].parent_columns
      <4>1. fks(n)[f] = off(n, f) \/ fks(n)[f] = cat[n].fks[f]
        BY <1>4, <1>6, <3>2
      <4> QED
        BY <1>3, <1>6, <3>2, <4>1
    <3> QED
      BY <3>1, <3>2
  <2> QED
    BY <1>5, <2>1 DEF KeepsKeys
<1>7. DOMAIN new = DOMAIN cat
  BY <1>2
<1> QED
  BY <1>5, <1>6, <1>7 DEF new

(* ALTER TABLE DISABLE CONSTRAINT. *)
LEMMA DisableConstraintAlters ==
  ASSUME NEW cat, GoodCatalog(cat), NEW table, NEW name, NEW cascade
  PROVE  Alters(disable_constraint(cat, table, name, cascade).cat, cat)
<1> DEFINE u == cat[table].unique
           refs == (IF name \in DOMAIN u
                    THEN {f \in referencing(cat, table, u[name].columns) : f.enabled}
                    ELSE {}) \cup {f \in foreign_keys(cat) : f.child = table /\ f.name = name}
           off == with_disabled(cat, refs)
           t == IF name \in DOMAIN u THEN set_enabled(off[table], name, FALSE).table
                ELSE off[table]
           new == [off EXCEPT ![table] = t]
           result == disable_constraint(cat, table, name, cascade).cat
<1>1. \/ result = cat
      \/ table \in DOMAIN cat /\ result = new
  BY DEF disable_constraint, Fail, Done
<1> HIDE DEF refs
<1>2. /\ DOMAIN off = DOMAIN cat
      /\ \A n \in DOMAIN cat :
           /\ off[n].rows = cat[n].rows /\ off[n].unique = cat[n].unique
           /\ DOMAIN off[n] = DOMAIN cat[n]
           /\ KeepsKeys(off[n], cat[n])
  BY WithDisabledKeeps
<1>3. ASSUME NEW n \in DOMAIN cat
      PROVE  /\ DOMAIN cat[n] = {"columns", "not_null", "unique", "fks", "rows"}
             /\ \A v \in DOMAIN cat[n].unique : cat[n].unique[v] \in Unique
  BY DEF GoodCatalog, GoodTable, IsTable
<1> HIDE DEF off, result
<1>4. ASSUME table \in DOMAIN cat
      PROVE  Alters(new, cat)
  <2>1. /\ off[table].unique = u /\ table \in DOMAIN off
        /\ DOMAIN off[table] = {"columns", "not_null", "unique", "fks", "rows"}
        /\ \A v \in DOMAIN u : off[table].unique[v] \in Unique
    BY <1>2, <1>3, <1>4
  <2>2. t.rows = off[table].rows /\ KeepsKeys(t, off[table])
    <3>1. CASE name \in DOMAIN u
      BY <2>1, <3>1, SetEnabledKeeps
    <3>2. CASE name \notin DOMAIN u
      BY <3>2 DEF KeepsKeys
    <3> QED
      BY <3>1, <3>2
  <2> HIDE DEF t
  <2>3. Alters(new, off)
    BY <2>1, <2>2, AltersOne
  <2>4. SameRows(off, cat) /\ SameKeys(off, cat)
    BY <1>2 DEF SameRows, SameKeys
  <2>5. KeysExist(cat) => KeysExist(off)
    BY <2>4, KeysKept
  <2> HIDE DEF new
  <2> QED
    BY <2>3, <2>4, <2>5 DEF Alters, SameRows
<1> HIDE DEF new
<1>5. Alters(result, cat)
  BY <1>1, <1>4, AltersNothing
<1> QED
  BY <1>5 DEF result

(* ALTER TABLE ENABLE CONSTRAINT. *)
LEMMA EnableConstraintAlters ==
  ASSUME NEW cat, GoodCatalog(cat), NEW table, NEW name, NEW validate
  PROVE  Alters(enable_constraint(cat, table, name, validate).cat, cat)
<1> DEFINE t == cat[table]
           r == set_enabled(t, name, TRUE).table
           fk == [t.fks[name] EXCEPT !.enabled = TRUE]
           fks == [t.fks EXCEPT ![name] = fk]
           on == [t EXCEPT !.fks = fks]
           result == enable_constraint(cat, table, name, validate).cat
<1>1. \/ result = cat
      \/ /\ table \in DOMAIN cat /\ name \in DOMAIN t.unique
         /\ result = [cat EXCEPT ![table] = r]
      \/ /\ table \in DOMAIN cat /\ name \in DOMAIN t.fks
         /\ result = [cat EXCEPT ![table] = on]
  BY DEF enable_constraint, Fail, Done
<1>2. table \in DOMAIN cat => IsTable(t)
  BY DEF GoodCatalog, GoodTable
<1> HIDE DEF t, result
<1>3. ASSUME table \in DOMAIN cat, name \in DOMAIN t.unique
      PROVE  r.rows = t.rows /\ KeepsKeys(r, t)
  <2>1. /\ DOMAIN t = {"columns", "not_null", "unique", "fks", "rows"}
        /\ t.unique[name] \in Unique
    BY <1>2, <1>3 DEF IsTable
  <2> QED
    BY <1>3, <2>1, SetEnabledKeeps
<1> HIDE DEF r
<1>4. ASSUME table \in DOMAIN cat, name \in DOMAIN t.fks
      PROVE  on.rows = t.rows /\ KeepsKeys(on, t)
  <2>1. /\ DOMAIN t = {"columns", "not_null", "unique", "fks", "rows"}
        /\ t.fks[name] \in ForeignKey
    BY <1>2, <1>4 DEF IsTable
  <2>2. fk.parent = t.fks[name].parent /\ fk.parent_columns = t.fks[name].parent_columns
    BY <2>1 DEF ForeignKey
  <2> HIDE DEF fk
  <2>3. \A f \in DOMAIN fks :
          /\ f \in DOMAIN t.fks
          /\ fks[f].parent = t.fks[f].parent
          /\ fks[f].parent_columns = t.fks[f].parent_columns
    BY <1>4, <2>2
  <2> HIDE DEF fks
  <2>4. on.rows = t.rows /\ on.fks = fks /\ on.unique = t.unique
    BY <2>1
  <2> QED
    BY <2>3, <2>4 DEF KeepsKeys
<1> HIDE DEF on
<1>5. ASSUME table \in DOMAIN cat, NEW x, x.rows = t.rows, KeepsKeys(x, t)
      PROVE  Alters([cat EXCEPT ![table] = x], cat)
  BY <1>5, AltersOne DEF t
<1>6. Alters(result, cat)
  BY <1>1, <1>3, <1>4, <1>5, AltersNothing
<1> QED
  BY <1>6 DEF result

(* ALTER TABLE: no row changes, and no foreign key loses its key. *)
LEMMA AlterTableAlters ==
  ASSUME NEW cat, GoodCatalog(cat), NEW a, IsAlter(a)
  PROVE  Alters(alter_table(cat, a).cat, cat)
<1>1. CASE a.kind = "add_unique"
  BY <1>1, AddUniqueAlters DEF alter_table, IsAlter
<1>2. CASE a.kind = "add_fk"
  BY <1>2, AddForeignKeyAlters DEF alter_table, IsAlter
<1>3. CASE a.kind = "drop"
  BY <1>3, DropConstraintAlters DEF alter_table, IsAlter
<1>4. CASE a.kind = "disable"
  BY <1>4, DisableConstraintAlters DEF alter_table, IsAlter
<1>5. CASE a.kind = "enable"
  BY <1>5, EnableConstraintAlters DEF alter_table, IsAlter
<1> QED
  BY <1>1, <1>2, <1>3, <1>4, <1>5 DEF IsAlter

(* What the methods of Table do to the row ids. *)
LEMMA TableIds ==
  ASSUME NEW t, IsTable(t)
  PROVE  /\ \A id, values :
              DOMAIN Table_insert(t, id, values).table.rows \subseteq DOMAIN t.rows \cup {id}
         /\ \A ids : DOMAIN Table_delete(t, ids).rows = DOMAIN t.rows \ ids
         /\ \A batch : DOMAIN Table_update(t, batch).table.rows = DOMAIN t.rows
<1> DEFINE one(unique) == [t EXCEPT !.unique = unique]
           both(rows, unique) == [t EXCEPT !.rows = rows, !.unique = unique]
<1>1. \A rows, unique : one(unique).rows = t.rows /\ both(rows, unique).rows = rows
  BY DEF IsTable
<1> HIDE DEF one, both
<1>2. ASSUME NEW id, NEW values
      PROVE  DOMAIN Table_insert(t, id, values).table.rows \subseteq DOMAIN t.rows \cup {id}
  <2> DEFINE rows == [i \in DOMAIN t.rows \cup {id} |->
                        IF i = id THEN values ELSE t.rows[i]]
             unique == Reindex(t, [u \in DOMAIN t.unique |->
                         t.unique[u].index \cup KeyOf(t, u, values)])
  <2>1. \/ Table_insert(t, id, values).table = t
        \/ Table_insert(t, id, values).table = both(rows, unique)
    BY DEF Table_insert, both
  <2>2. DOMAIN rows = DOMAIN t.rows \cup {id}
    OBVIOUS
  <2>3. both(rows, unique).rows = rows
    BY <1>1
  <2> HIDE DEF rows, unique
  <2>4. CASE Table_insert(t, id, values).table = t
    BY <2>4
  <2>5. CASE Table_insert(t, id, values).table = both(rows, unique)
    BY <2>2, <2>3, <2>5
  <2> QED
    BY <2>1, <2>4, <2>5
<1>3. ASSUME NEW ids
      PROVE  DOMAIN Table_delete(t, ids).rows = DOMAIN t.rows \ ids
  <2> DEFINE gone == ids \cap DOMAIN t.rows
             rows == [i \in DOMAIN t.rows \ gone |-> t.rows[i]]
  <2>1. \E unique : Table_delete(t, ids) = both(rows, unique)
    BY DEF Table_delete, both
  <2>2. DOMAIN rows = DOMAIN t.rows \ ids
    <3>1. DOMAIN rows = DOMAIN t.rows \ gone
      OBVIOUS
    <3> HIDE DEF rows
    <3> QED
      BY <3>1
  <2> HIDE DEF rows
  <2> QED
    BY <1>1, <2>1, <2>2
<1>4. ASSUME NEW batch
      PROVE  DOMAIN Table_update(t, batch).table.rows = DOMAIN t.rows
  <2> DEFINE rows == [id \in DOMAIN t.rows |->
                        IF LastFor(t, batch, id) = {} THEN t.rows[id]
                        ELSE batch[CHOOSE i \in LastFor(t, batch, id) : TRUE].values]
             old == Reindex(t, [u \in DOMAIN t.unique |->
                      (t.unique[u].index \ OldKeys(t, u, batch)) \cup OldKeys(t, u, batch)])
             new == Reindex(t, [u \in DOMAIN t.unique |->
                      (t.unique[u].index \ OldKeys(t, u, batch)) \cup NewKeys(t, u, batch)])
  <2>1. \/ Table_update(t, batch).table = one(old)
        \/ Table_update(t, batch).table = both(rows, new)
    BY DEF Table_update, one, both
  <2>2. DOMAIN rows = DOMAIN t.rows
    OBVIOUS
  <2> HIDE DEF rows, old, new
  <2> QED
    BY <1>1, <2>1, <2>2
<1> QED
  BY <1>2, <1>3, <1>4

(* The row ids of a catalog in which one table was replaced. *)
LEMMA PutIds ==
  ASSUME NEW cat, NEW n \in DOMAIN cat, NEW t, NEW ids,
         DOMAIN t.rows \subseteq DOMAIN cat[n].rows \cup ids
  PROVE  Ids([cat EXCEPT ![n] = t]) \subseteq Ids(cat) \cup ids
<1> SUFFICES ASSUME NEW i \in Ids([cat EXCEPT ![n] = t])
             PROVE  i \in Ids(cat) \cup ids
  OBVIOUS
<1>1. PICK m \in DOMAIN cat : i \in DOMAIN [cat EXCEPT ![n] = t][m].rows
  BY DEF Ids
<1>2. CASE m = n
  BY <1>1, <1>2 DEF Ids
<1>3. CASE m # n
  BY <1>1, <1>3 DEF Ids
<1> QED
  BY <1>2, <1>3

(* The same rows have the same row ids. *)
LEMMA SameRowsIds ==
  ASSUME NEW old, NEW new, SameRows(new, old)
  PROVE  Ids(new) = Ids(old)
  BY DEF SameRows, Ids

(* One step of a replay. *)
LEMMA ReplayIds ==
  ASSUME NEW cat, GoodCatalog(cat), NEW c \in Change
  PROVE  Ids(replay_change(cat, c).cat)
           \subseteq Ids(cat) \cup (IF c.op = "insert" THEN {c.id} ELSE {})
<1> DEFINE n == c.table
<1>1. \/ replay_change(cat, c).cat = cat
      \/ /\ n \in DOMAIN cat /\ c.op = "insert"
         /\ replay_change(cat, c).cat =
              [cat EXCEPT ![n] = Table_insert(cat[n], c.id, c.values).table]
      \/ /\ n \in DOMAIN cat
         /\ replay_change(cat, c).cat =
              [cat EXCEPT ![n] =
                 Table_update(cat[n], <<[id |-> c.id, values |-> c.values]>>).table]
      \/ /\ n \in DOMAIN cat
         /\ replay_change(cat, c).cat = [cat EXCEPT ![n] = Table_delete(cat[n], {c.id})]
  BY DEF replay_change
<1>2. n \in DOMAIN cat => IsTable(cat[n])
  BY DEF GoodCatalog, GoodTable
<1> HIDE DEF n
<1>3. ASSUME n \in DOMAIN cat
      PROVE  /\ \A id, values :
                  DOMAIN Table_insert(cat[n], id, values).table.rows
                    \subseteq DOMAIN cat[n].rows \cup {id}
             /\ \A ids : DOMAIN Table_delete(cat[n], ids).rows = DOMAIN cat[n].rows \ ids
             /\ \A batch : DOMAIN Table_update(cat[n], batch).table.rows = DOMAIN cat[n].rows
  BY <1>2, <1>3, TableIds
<1>4. ASSUME n \in DOMAIN cat, NEW t, NEW ids, DOMAIN t.rows \subseteq DOMAIN cat[n].rows \cup ids
      PROVE  Ids([cat EXCEPT ![n] = t]) \subseteq Ids(cat) \cup ids
  BY <1>4, PutIds
<1>5. ASSUME n \in DOMAIN cat, NEW t, DOMAIN t.rows \subseteq DOMAIN cat[n].rows
      PROVE  Ids([cat EXCEPT ![n] = t]) \subseteq Ids(cat)
  <2>1. DOMAIN t.rows \subseteq DOMAIN cat[n].rows \cup {}
    BY <1>5
  <2>2. Ids([cat EXCEPT ![n] = t]) \subseteq Ids(cat) \cup {}
    BY <1>4, <1>5, <2>1
  <2> QED
    BY <2>2
<1>6. ASSUME n \in DOMAIN cat
      PROVE  /\ Ids([cat EXCEPT ![n] = Table_insert(cat[n], c.id, c.values).table])
                  \subseteq Ids(cat) \cup {c.id}
             /\ \A batch : Ids([cat EXCEPT ![n] = Table_update(cat[n], batch).table])
                             \subseteq Ids(cat)
             /\ Ids([cat EXCEPT ![n] = Table_delete(cat[n], {c.id})]) \subseteq Ids(cat)
  <2>1. Ids([cat EXCEPT ![n] = Table_insert(cat[n], c.id, c.values).table])
          \subseteq Ids(cat) \cup {c.id}
    BY <1>3, <1>4, <1>6
  <2>2. ASSUME NEW batch
        PROVE  Ids([cat EXCEPT ![n] = Table_update(cat[n], batch).table]) \subseteq Ids(cat)
    BY <1>3, <1>5, <1>6
  <2>3. Ids([cat EXCEPT ![n] = Table_delete(cat[n], {c.id})]) \subseteq Ids(cat)
    BY <1>3, <1>5, <1>6
  <2> QED
    BY <2>1, <2>2, <2>3
<1> QED
  BY <1>1, <1>6

(* The row ids of a table after one step of undo. *)
LEMMA RevertedIds ==
  ASSUME NEW t, IsTable(t), NEW c \in Change, NEW batch
  PROVE  DOMAIN reverted(t, c, batch).rows
           \subseteq DOMAIN t.rows \cup (IF c.op = "delete" THEN {c.id} ELSE {})
<1>1. c.op \in {"insert", "update", "delete"}
  BY DEF Change
<1>2. /\ DOMAIN Table_insert(t, c.id, c.old).table.rows \subseteq DOMAIN t.rows \cup {c.id}
      /\ DOMAIN Table_delete(t, {c.id}).rows = DOMAIN t.rows \ {c.id}
      /\ DOMAIN Table_update(t, batch).table.rows = DOMAIN t.rows
  BY TableIds
<1>3. CASE c.op = "insert"
  <2>1. reverted(t, c, batch) = Table_delete(t, {c.id})
    BY <1>3 DEF reverted
  <2> QED
    BY <1>2, <2>1
<1>4. CASE c.op = "update"
  <2>1. reverted(t, c, batch) = Table_update(t, batch).table
    BY <1>4 DEF reverted
  <2> QED
    BY <1>2, <2>1
<1>5. CASE c.op = "delete"
  <2>1. reverted(t, c, batch) = Table_insert(t, c.id, c.old).table
    BY <1>5 DEF reverted
  <2> QED
    BY <1>2, <1>5, <2>1
<1> QED
  BY <1>1, <1>3, <1>4, <1>5

(* No DDL statement adds a row. *)
LEMMA CreateTableIds ==
  ASSUME NEW cat, NEW def
  PROVE  Ids(create_table(cat, def).cat) \subseteq Ids(cat)
<1> DEFINE t == [columns |-> def.columns, not_null |-> def.not_null,
                 unique |-> [u \in DOMAIN def.unique |-> NewUnique(def.unique[u])],
                 fks |-> [f \in DOMAIN def.fks |-> NewForeignKey(def.fks[f])],
                 rows |-> << >>]
           new == [n \in DOMAIN cat \cup {def.name} |->
                     IF n = def.name THEN t ELSE cat[n]]
<1>1. create_table(cat, def).cat = cat \/ create_table(cat, def).cat = new
  BY DEF create_table, Fail, Done
<1>2. t.rows = << >>
  OBVIOUS
<1>3. DOMAIN << >> = {}
  BY SMT
<1> HIDE DEF t
<1>4. /\ DOMAIN new = DOMAIN cat \cup {def.name} /\ new[def.name] = t
      /\ \A n \in DOMAIN cat : n # def.name => new[n] = cat[n]
  OBVIOUS
<1> HIDE DEF new
<1>5. ASSUME NEW i \in Ids(new) PROVE i \in Ids(cat)
  <2>1. PICK n \in DOMAIN new : i \in DOMAIN new[n].rows
    BY <1>5 DEF Ids
  <2>2. n # def.name
    BY <1>2, <1>3, <1>4, <2>1
  <2> QED
    BY <1>4, <2>1, <2>2 DEF Ids
<1> QED
  BY <1>1, <1>5

(* DROP TABLE, TRUNCATE and DROP INDEX bring no row id in. *)
LEMMA DropTableIds ==
  ASSUME NEW cat, GoodCatalog(cat), NEW name, NEW cascade
  PROVE  Ids(drop_table(cat, name, cascade).cat) \subseteq Ids(cat)
<1> DEFINE refs == {f \in foreign_keys(cat) : f.parent = name /\ f.child # name}
           left == without_foreign_keys(cat, refs)
           new == [n \in DOMAIN cat \ {name} |-> left[n]]
<1>1. drop_table(cat, name, cascade).cat \in {cat, new}
  BY DEF drop_table, Fail, Done
<1> HIDE DEF refs
<1>2. \A n \in DOMAIN cat : left[n].rows = cat[n].rows
  BY WithoutForeignKeysAre, SMT
<1> HIDE DEF left
<1>3. DOMAIN new = DOMAIN cat \ {name} /\ \A n \in DOMAIN cat \ {name} : new[n] = left[n]
  OBVIOUS
<1> HIDE DEF new
<1>4. ASSUME NEW i \in Ids(new) PROVE i \in Ids(cat)
  <2>1. PICK n \in DOMAIN new : i \in DOMAIN new[n].rows
    BY <1>4 DEF Ids
  <2> QED
    BY <1>2, <1>3, <2>1 DEF Ids
<1> QED
  BY <1>1, <1>4

(* TRUNCATE only removes rows. *)
LEMMA TruncateTableIds ==
  ASSUME NEW cat, GoodCatalog(cat), NEW name
  PROVE  Ids(truncate_table(cat, name).cat) \subseteq Ids(cat)
<1>1. \/ truncate_table(cat, name).cat = cat
      \/ /\ name \in DOMAIN cat
         /\ truncate_table(cat, name).cat = [cat EXCEPT ![name] = truncate(cat[name])]
  BY DEF truncate_table, Fail, Done
<1>2. DOMAIN << >> = {}
  BY SMT
<1>3. ASSUME name \in DOMAIN cat
      PROVE  Ids([cat EXCEPT ![name] = truncate(cat[name])]) \subseteq Ids(cat)
  <2>1. truncate(cat[name]).rows = << >>
    BY <1>3 DEF truncate, GoodCatalog, GoodTable, IsTable
  <2>2. DOMAIN truncate(cat[name]).rows \subseteq DOMAIN cat[name].rows \cup {}
    BY <1>2, <2>1
  <2>3. Ids([cat EXCEPT ![name] = truncate(cat[name])]) \subseteq Ids(cat) \cup {}
    BY <1>3, <2>2, PutIds
  <2> QED
    BY <2>3
<1> QED
  BY <1>1, <1>3

(* DROP INDEX keeps the rows. *)
LEMMA DropIndexRows ==
  ASSUME NEW cat, GoodCatalog(cat), NEW table, NEW name
  PROVE  SameRows(drop_index(cat, table, name).cat, cat)
<1> DEFINE t == cat[table]
           r == [t EXCEPT !.unique = [v \in DOMAIN t.unique \ {name} |-> t.unique[v]]]
<1>1. \/ drop_index(cat, table, name).cat = cat
      \/ /\ table \in DOMAIN cat
         /\ drop_index(cat, table, name).cat = [cat EXCEPT ![table] = r]
  BY DEF drop_index, Fail, Done
<1>2. ASSUME table \in DOMAIN cat PROVE r.rows = cat[table].rows
  <2>1. DOMAIN t = {"columns", "not_null", "unique", "fks", "rows"}
    BY <1>2 DEF GoodCatalog, GoodTable, IsTable
  <2> QED
    BY <2>1
<1> HIDE DEF r
<1>3. SameRows(cat, cat)
  BY DEF SameRows
<1>4. table \in DOMAIN cat => SameRows([cat EXCEPT ![table] = r], cat)
  BY <1>2, PutRows
<1> QED
  BY <1>1, <1>3, <1>4

-----------------------------------------------------------------------------
(* What a step of a DML statement does to its transaction x: y has the same  *)
(* keys, and mentions and inserts no row id that x did not but those of ids. *)
Follows(y, x, ids) ==
  /\ SameKeys(y.work, x.work)
  /\ Seen(y) \subseteq Seen(x) \cup ids
  /\ InsertIds(y.log) \subseteq InsertIds(x.log) \cup ids
  /\ Sound(x) /\ ids \cap Seen(x) = {} => Sound(y)

(* A step that logs nothing. *)
LEMMA FollowsSelf ==
  ASSUME NEW x, NEW ids
  PROVE  Follows(x, x, ids)
<1>1. SameKeys(x.work, x.work)
  BY DEF SameKeys, KeepsKeys
<1> QED
  BY <1>1 DEF Follows

(* The entries of a log to which changes were appended. *)
LEMMA Appended ==
  ASSUME NEW log \in Seq(Change), NEW changes \in Seq(Change)
  PROVE  \A i \in DOMAIN (log \o changes) :
           \/ i \in DOMAIN log /\ (log \o changes)[i] = log[i]
           \/ \E j \in DOMAIN changes :
                i = Len(log) + j /\ (log \o changes)[i] = changes[j]
<1> SUFFICES ASSUME NEW i \in DOMAIN (log \o changes),
                    ~(i \in DOMAIN log /\ (log \o changes)[i] = log[i])
             PROVE  \E j \in DOMAIN changes :
                      i = Len(log) + j /\ (log \o changes)[i] = changes[j]
  OBVIOUS
<1>1. /\ i \in Nat /\ i > Len(log) /\ i <= Len(log) + Len(changes)
      /\ Len(log) \in Nat /\ Len(changes) \in Nat
  BY SMT
<1>2. i - Len(log) \in DOMAIN changes /\ i = Len(log) + (i - Len(log))
  BY <1>1, SMT
<1>3. (log \o changes)[i] = changes[i - Len(log)]
  BY <1>1, SMT
<1> QED
  BY <1>2, <1>3

(* Changes of table n, logged: they insert rows under the ids given only,    *)
(* delete rows that are there, and each row once.                            *)
LEMMA LoggedFollows ==
  ASSUME NEW x, GoodTxn(x), NEW n \in DOMAIN x.work,
         NEW t, KeepsKeys(t, x.work[n]), NEW ids,
         DOMAIN t.rows \subseteq DOMAIN x.work[n].rows \cup ids,
         NEW changes \in Seq(Change),
         \A i \in DOMAIN changes :
           /\ changes[i].table = n
           /\ changes[i].id \in DOMAIN x.work[n].rows \cup ids
           /\ changes[i].op = "insert" => changes[i].id \in ids
           /\ changes[i].op = "delete" =>
                changes[i].id \in DOMAIN x.work[n].rows \ DOMAIN t.rows,
         \A i, j \in DOMAIN changes :
           changes[i].op # "update" /\ changes[j].op # "update"
             /\ changes[i].id = changes[j].id => i = j
  PROVE  Follows(Logged(x, n, t, changes), x, ids)
<1> DEFINE y == Logged(x, n, t, changes)
           work == [x.work EXCEPT ![n] = t]
           log == x.log \o changes
<1>1. DOMAIN x = {"base_version", "work", "log"} /\ x.log \in Seq(Change)
  BY DEF GoodTxn, IsTxn
<1>2. y.work = work /\ y.log = log
  BY <1>1 DEF Logged
<1>3. SameKeys(work, x.work)
  BY PutKeeps
<1>4. Ids(work) \subseteq Ids(x.work) \cup ids
  BY PutIds
<1>5. \A i \in DOMAIN log :
        \/ i \in DOMAIN x.log /\ log[i] = x.log[i]
        \/ \E j \in DOMAIN changes : i = Len(x.log) + j /\ log[i] = changes[j]
  BY <1>1, Appended
<1>6. work[n] = t /\ \A m \in DOMAIN x.work \ {n} : work[m] = x.work[m]
  OBVIOUS
<1>7. LogIds(log) \subseteq LogIds(x.log) \cup DOMAIN x.work[n].rows \cup ids
  <2> SUFFICES ASSUME NEW i \in DOMAIN log
               PROVE  log[i].id \in LogIds(x.log) \cup DOMAIN x.work[n].rows \cup ids
    BY DEF LogIds
  <2>1. CASE i \in DOMAIN x.log /\ log[i] = x.log[i]
    BY <2>1 DEF LogIds
  <2>2. CASE \E j \in DOMAIN changes : log[i] = changes[j]
    BY <2>2
  <2> QED
    BY <1>5, <2>1, <2>2
<1>8. InsertIds(log) \subseteq InsertIds(x.log) \cup ids
  <2> SUFFICES ASSUME NEW i \in DOMAIN log, log[i].op = "insert"
               PROVE  log[i].id \in InsertIds(x.log) \cup ids
    BY DEF InsertIds
  <2>1. CASE i \in DOMAIN x.log /\ log[i] = x.log[i]
    BY <2>1 DEF InsertIds
  <2>2. CASE \E j \in DOMAIN changes : log[i] = changes[j]
    BY <2>2
  <2> QED
    BY <1>5, <2>1, <2>2
<1>9. DOMAIN x.work[n].rows \subseteq Ids(x.work)
  BY DEF Ids
<1>10. \A i \in DOMAIN x.log : x.log[i].table \in DOMAIN x.work
  BY DEF GoodTxn, LogFits
<1> HIDE DEF work, log
<1>11. ASSUME Sound(x), ids \cap Seen(x) = {}
       PROVE  Sound(y)
  <2>1. \A i \in DOMAIN x.log : x.log[i].id \notin ids
    BY <1>11 DEF Seen, LogIds
  <2>2. ASSUME NEW i \in DOMAIN log, log[i].op = "delete"
        PROVE  log[i].id \notin DOMAIN work[log[i].table].rows
    <3>1. CASE i \in DOMAIN x.log /\ log[i] = x.log[i]
      <4>1. x.log[i].id \notin DOMAIN x.work[x.log[i].table].rows
        BY <1>11, <2>2, <3>1 DEF Sound
      <4>2. CASE x.log[i].table = n
        BY <1>6, <2>1, <3>1, <4>1, <4>2
      <4>3. CASE x.log[i].table # n
        <5>1. work[x.log[i].table] = x.work[x.log[i].table]
          BY <1>6, <1>10, <3>1, <4>3
        <5> QED
          BY <3>1, <4>1, <5>1
      <4> QED
        BY <4>2, <4>3
    <3>2. CASE \E j \in DOMAIN changes : log[i] = changes[j]
      BY <1>6, <2>2, <3>2
    <3> QED
      BY <1>5, <3>1, <3>2
  <2>3. ASSUME NEW i \in DOMAIN log, NEW j \in DOMAIN log,
               log[i].op = "delete", log[j].op = "delete",
               log[i].table = log[j].table, log[i].id = log[j].id
        PROVE  i = j
    <3>1. \A k \in DOMAIN x.log, l \in DOMAIN changes :
            x.log[k].op = "delete" /\ changes[l].op = "delete"
              /\ x.log[k].table = changes[l].table => x.log[k].id # changes[l].id
      BY <1>11 DEF Sound
    <3>2. \A k, l \in DOMAIN x.log :
            x.log[k].op = "delete" /\ x.log[l].op = "delete"
              /\ x.log[k].table = x.log[l].table /\ x.log[k].id = x.log[l].id => k = l
      BY <1>11 DEF Sound
    <3>3. \A k, l \in DOMAIN changes :
            changes[k].op = "delete" /\ changes[l].op = "delete"
              /\ changes[k].id = changes[l].id => k = l
      OBVIOUS
    <3>4. CASE i \in DOMAIN x.log /\ log[i] = x.log[i]
      <4>1. CASE j \in DOMAIN x.log /\ log[j] = x.log[j]
        BY <2>3, <3>2, <3>4, <4>1
      <4>2. CASE \E l \in DOMAIN changes : log[j] = changes[l]
        BY <2>3, <3>1, <3>4, <4>2
      <4> QED
        BY <1>5, <4>1, <4>2
    <3>5. ASSUME NEW k \in DOMAIN changes, i = Len(x.log) + k, log[i] = changes[k]
          PROVE  i = j
      <4>1. CASE j \in DOMAIN x.log /\ log[j] = x.log[j]
        BY <2>3, <3>1, <3>5, <4>1
      <4>2. ASSUME NEW l \in DOMAIN changes, j = Len(x.log) + l, log[j] = changes[l]
            PROVE  i = j
        BY <2>3, <3>3, <3>5, <4>2
      <4> QED
        BY <1>5, <4>1, <4>2
    <3> QED
      BY <1>5, <3>4, <3>5
  <2>4. ASSUME NEW i \in DOMAIN log, NEW j \in DOMAIN log,
               log[i].op = "insert", log[j].op = "insert", log[i].id = log[j].id
        PROVE  i = j
    <3>1. \A k \in DOMAIN x.log, l \in DOMAIN changes :
            changes[l].op = "insert" => x.log[k].id # changes[l].id
      BY <2>1
    <3>2. \A k, l \in DOMAIN x.log :
            x.log[k].op = "insert" /\ x.log[l].op = "insert"
              /\ x.log[k].id = x.log[l].id => k = l
      BY <1>11 DEF Sound
    <3>3. \A k, l \in DOMAIN changes :
            changes[k].op = "insert" /\ changes[l].op = "insert"
              /\ changes[k].id = changes[l].id => k = l
      OBVIOUS
    <3>4. CASE i \in DOMAIN x.log /\ log[i] = x.log[i]
      <4>1. CASE j \in DOMAIN x.log /\ log[j] = x.log[j]
        BY <2>4, <3>2, <3>4, <4>1
      <4>2. CASE \E l \in DOMAIN changes : log[j] = changes[l]
        BY <2>4, <3>1, <3>4, <4>2
      <4> QED
        BY <1>5, <4>1, <4>2
    <3>5. ASSUME NEW k \in DOMAIN changes, i = Len(x.log) + k, log[i] = changes[k]
          PROVE  i = j
      <4>1. CASE j \in DOMAIN x.log /\ log[j] = x.log[j]
        BY <2>4, <3>1, <3>5, <4>1
      <4>2. ASSUME NEW l \in DOMAIN changes, j = Len(x.log) + l, log[j] = changes[l]
            PROVE  i = j
        BY <2>4, <3>3, <3>5, <4>2
      <4> QED
        BY <1>5, <4>1, <4>2
    <3> QED
      BY <1>5, <3>4, <3>5
  <2> QED
    BY <1>2, <2>2, <2>3, <2>4 DEF Sound
<1>12. Seen(y) \subseteq Seen(x) \cup ids
  BY <1>2, <1>4, <1>7, <1>9 DEF Seen
<1> QED
  BY <1>2, <1>3, <1>8, <1>11, <1>12 DEF Follows

(* One step of undo reverts changes of the log and drops them from it. *)
LEMMA UndoFollows ==
  ASSUME NEW x, GoodTxn(x), NEW m \in 1..Len(x.log)
  PROVE  Follows([x EXCEPT !.work = undo_change(x.work, x.log, m),
                           !.log = SubSeq(x.log, 1, Len(x.log) - m)], x, {})
<1> DEFINE last == Len(x.log)
           c == x.log[last]
           work == undo_change(x.work, x.log, m)
           log == SubSeq(x.log, 1, last - m)
           y == [x EXCEPT !.work = work, !.log = log]
           batch == [i \in 1..m |-> [id |-> x.log[last + 1 - i].id,
                                     values |-> x.log[last + 1 - i].old]]
           t == reverted(x.work[c.table], c, batch)
<1>1. /\ DOMAIN x = {"base_version", "work", "log"} /\ x.log \in Seq(Change)
      /\ GoodCatalog(x.work) /\ \A i \in DOMAIN x.log : x.log[i].table \in DOMAIN x.work
  BY DEF GoodTxn, IsTxn, LogFits
<1>2. y.work = work /\ y.log = log
  BY <1>1
<1>3. last \in Nat /\ last \in DOMAIN x.log /\ DOMAIN log = 1..(last - m)
  BY <1>1, SMT
<1>4. \A i \in DOMAIN log : i \in DOMAIN x.log /\ i # last /\ log[i] = x.log[i]
  BY <1>1, <1>3, SMT
<1>5. c \in Change /\ c.table \in DOMAIN x.work
  BY <1>1, <1>3, SMT
<1>6. work = [x.work EXCEPT ![c.table] = t]
  BY DEF undo_change
<1>7. SameKeys(work, x.work)
  BY <1>1, <1>5, UndoKeeps
<1>8. IsTable(x.work[c.table])
  BY <1>1, <1>5 DEF GoodCatalog, GoodTable
<1>9. DOMAIN t.rows \subseteq
        DOMAIN x.work[c.table].rows \cup (IF c.op = "delete" THEN {c.id} ELSE {})
  BY <1>5, <1>8, RevertedIds
<1>10. c.id \in LogIds(x.log)
  BY <1>3 DEF LogIds
<1> HIDE DEF last, c, t, work, log, batch
<1>11. Ids(work) \subseteq Ids(x.work) \cup {c.id}
  BY <1>5, <1>6, <1>9, PutIds
<1>12. Seen(y) \subseteq Seen(x)
  <2>1. LogIds(log) \subseteq LogIds(x.log)
    BY <1>4 DEF LogIds
  <2> QED
    BY <1>2, <1>10, <1>11, <2>1, SMT DEF Seen
<1>13. InsertIds(log) \subseteq InsertIds(x.log)
  BY <1>4 DEF InsertIds
<1>14. ASSUME Sound(x)
       PROVE  Sound(y)
  <2>1. ASSUME NEW i \in DOMAIN log, log[i].op = "delete"
        PROVE  log[i].id \notin DOMAIN work[log[i].table].rows
    <3>1. /\ i \in DOMAIN x.log /\ i # last /\ log[i] = x.log[i]
          /\ x.log[i].table \in DOMAIN x.work
          /\ x.log[i].id \notin DOMAIN x.work[x.log[i].table].rows
      BY <1>1, <1>4, <1>14, <2>1 DEF Sound
    <3>2. CASE x.log[i].table = c.table
      <4>1. work[c.table] = t
        BY <1>5, <1>6
      <4>2. c.op = "delete" => x.log[i].id # c.id
        BY <1>3, <1>14, <2>1, <3>1, <3>2 DEF Sound, c
      <4> QED
        BY <1>9, <3>1, <3>2, <4>1, <4>2
    <3>3. CASE x.log[i].table # c.table
      <4>1. work[x.log[i].table] = x.work[x.log[i].table]
        BY <1>6, <3>1, <3>3
      <4> QED
        BY <3>1, <4>1
    <3> QED
      BY <3>2, <3>3
  <2>2. ASSUME NEW i \in DOMAIN log, NEW j \in DOMAIN log,
               log[i].op = "delete", log[j].op = "delete",
               log[i].table = log[j].table, log[i].id = log[j].id
        PROVE  i = j
    BY <1>4, <1>14, <2>2 DEF Sound
  <2>3. ASSUME NEW i \in DOMAIN log, NEW j \in DOMAIN log,
               log[i].op = "insert", log[j].op = "insert", log[i].id = log[j].id
        PROVE  i = j
    BY <1>4, <1>14, <2>3 DEF Sound
  <2> QED
    BY <1>2, <2>1, <2>2, <2>3 DEF Sound
<1>15. Follows(y, x, {})
  BY <1>2, <1>7, <1>12, <1>13, <1>14 DEF Follows
<1> QED
  BY <1>15 DEF y, work, log, last

(* The transaction that the next DML of session s runs in. *)
Current(s) ==
  IF InTxn(s) THEN txn[s] ELSE [base_version |-> version, work |-> tables, log |-> << >>]

(* The row ids a step hands out. *)
Numbers(ids) ==
  \/ ids = {} /\ next_row_id' = next_row_id
  \/ ids = {next_row_id} /\ next_row_id' = next_row_id + 1

(* What a step of session s may do: work on its own copy ... *)
Works(s) ==
  /\ UNCHANGED <<tables, version, snapshot>>
  /\ pc'[s] \notin {"replaying", "altering"}
  /\ \E ids : Numbers(ids) /\ (InTxn(s)' => Follows(txn'[s], Current(s), ids))

(* ... publish its copy, a replay, what a DDL statement made of the         *)
(* committed catalog, or a draft of its newest version ...                  *)
Publishes(s) ==
  /\ version' = version + 1 /\ UNCHANGED <<next_row_id, snapshot>>
  /\ pc'[s] \in {"ready", "ddl"}
  /\ \/ /\ pc[s] = "ready" /\ InTxn(s) /\ txn'[s] = None
        /\ tables' = txn[s].work
     \/ /\ pc[s] = "replaying" /\ txn'[s] = None
        /\ tables' = frame[s].next
     \/ /\ pc[s] = "ddl" /\ txn'[s] = txn[s]
        /\ Ids(tables') \subseteq Ids(tables)
        /\ KeysExist(tables) => KeysExist(tables')
     \/ /\ pc[s] = "altering" /\ txn'[s] = txn[s]
        /\ draft[s].version = version /\ tables' = draft[s].cat

(* ... replay its log, starting from the committed catalog ... *)
Replays(s) ==
  /\ UNCHANGED <<tables, version, snapshot, next_row_id>>
  /\ InTxn(s) /\ txn'[s] = txn[s] /\ pc'[s] = "replaying"
  /\ \/ pc[s] = "ready" /\ frame'[s].next = tables
     \/ /\ pc[s] = "replaying" /\ frame[s].k \in DOMAIN txn[s].log
        /\ frame'[s].next = replay_change(frame[s].next, txn[s].log[frame[s].k]).cat
        /\ frame'[s].k = frame[s].k + 1

(* ... or draft an ALTER TABLE of it. *)
Drafts(s) ==
  /\ UNCHANGED <<tables, version, snapshot, next_row_id>>
  /\ txn'[s] = txn[s] /\ pc[s] \in {"ddl", "altering"} /\ pc'[s] = "altering"
  /\ draft'[s].version = version /\ Alters(draft'[s].cat, tables)

Moves(s) == OnlySession(s) /\ (Works(s) \/ Publishes(s) \/ Replays(s) \/ Drafts(s))

-----------------------------------------------------------------------------
(* A statement that starts opens the transaction if there is none; the      *)
(* steps after it have one.                                                 *)
LEMMA CurrentIs ==
  ASSUME IInv, NEW s \in Session
  PROVE  /\ pc[s] = "ready" => Current(s) = get_or_insert_txn(s)
         /\ pc[s] \in {"inserting", "parents", "children", "undoing", "replaying"} =>
              Current(s) = txn[s] /\ GoodTxn(txn[s]) /\ InTxn(s)
<1>1. pc[s] = "ready" => (InTxn(s) <=> txn[s] # None)
  BY DEF InTxn
<1>2. pc[s] = "ready" => Current(s) = get_or_insert_txn(s)
  BY <1>1 DEF Current, get_or_insert_txn
<1>3. LocalOK(txn[s], pc[s], frame[s], savepoint[s], draft[s])
  BY DEF IInv, Locals
<1> QED
  BY <1>2, <1>3 DEF Current, InTxn, LocalOK

(* A step that leaves everything shared alone, and gives session s a        *)
(* transaction that follows its current one.                                *)
LEMMA WorksOn ==
  ASSUME IInv, NEW s \in Session, OnlySession(s), UNCHANGED <<tables, version, snapshot>>,
         pc'[s] \notin {"replaying", "altering"}, NEW ids, Numbers(ids),
         NEW y, txn'[s] = y, Follows(y, Current(s), ids)
  PROVE  Moves(s)
  BY DEF Moves, Works

(* A step that inserts no row hands out no row id. *)
LEMMA KeepsNumber == next_row_id' = next_row_id => Numbers({})
  BY DEF Numbers

(* When a DML statement goes on to its checks, or to undo itself, its copy  *)
(* is the one it made.                                                      *)
LEMMA DmlGoesOn ==
  ASSUME IInv, NEW s \in Session, NEW y, NEW saved, NEW origin,
         Enforce(s, y, saved, origin) \/ Undo(s, y, saved, origin),
         UNCHANGED <<savepoint, draft>>
  PROVE  OnlySession(s) /\ txn'[s] = y /\ pc'[s] \notin {"replaying", "altering"}
<1>1. /\ txn' = [txn EXCEPT ![s] = y]
      /\ \E f : frame' = [frame EXCEPT ![s] = f]
      /\ \E p \in {"ready", "parents", "undoing"} : pc' = [pc EXCEPT ![s] = p]
  BY DEF Enforce, Undo, Goto
<1> QED
  BY <1>1 DEF IInv, Domains, OnlySession

(* INSERT starts; a transaction is opened if there is none. *)
LEMMA InsertMoves ==
  ASSUME IInv, NEW s \in Session, NEW n, NEW rows, Insert(s, n, rows)
  PROVE  Moves(s)
<1> DEFINE x == get_or_insert_txn(s)
<1>1. /\ pc[s] = "ready" /\ UNCHANGED <<shared, savepoint, draft>>
      /\ txn' = [txn EXCEPT ![s] = x] /\ pc' = [pc EXCEPT ![s] = "inserting"]
      /\ \E f : frame' = [frame EXCEPT ![s] = f]
  BY DEF Insert, StartDml, Goto
<1>2. OnlySession(s) /\ txn'[s] = x /\ pc'[s] = "inserting"
  BY <1>1 DEF IInv, Domains, OnlySession
<1>3. x = Current(s)
  BY <1>1, CurrentIs
<1>4. Numbers({}) /\ UNCHANGED <<tables, version, snapshot>>
  BY <1>1, KeepsNumber DEF shared
<1>5. Follows(x, Current(s), {})
  BY <1>3, FollowsSelf
<1> QED
  BY <1>2, <1>4, <1>5, WorksOn

(* A statement, or an undo, that ends. *)
LEMMA SettleMoves ==
  ASSUME IInv, NEW s \in Session, pc[s] \in {"children", "undoing"},
         UNCHANGED <<shared, savepoint, draft>>,
         txn' = [txn EXCEPT ![s] = Settle(txn[s])],
         frame' = [frame EXCEPT ![s] = Idle], Goto(s, "ready")
  PROVE  Moves(s)
<1>1. /\ Current(s) = txn[s] /\ Numbers({}) /\ UNCHANGED <<tables, version, snapshot>>
  BY CurrentIs, KeepsNumber DEF shared
<1>2. OnlySession(s) /\ txn'[s] = Settle(txn[s]) /\ pc'[s] = "ready"
  BY DEF IInv, Domains, OnlySession, Goto
<1>3. InTxn(s)' => txn'[s] = txn[s]
  BY <1>2 DEF InTxn, Settle
<1>4. Follows(txn[s], txn[s], {})
  BY FollowsSelf
<1> QED
  BY <1>1, <1>2, <1>3, <1>4 DEF Moves, Works

(* The child side, and undo. *)
LEMMA ChildrenMoves ==
  ASSUME IInv, NEW s \in Session, Children(s)
  PROVE  Moves(s)
<1> DEFINE x == txn[s]
<1>1. pc[s] = "children" /\ UNCHANGED <<shared, savepoint, draft>>
  BY DEF Children
<1>2. ASSUME txn' = [txn EXCEPT ![s] = Settle(x)],
             frame' = [frame EXCEPT ![s] = Idle], Goto(s, "ready")
      PROVE  Moves(s)
  BY <1>1, <1>2, SettleMoves
<1>3. ASSUME Undo(s, x, frame[s].saved, frame[s].origin)
      PROVE  Moves(s)
  <2>1. OnlySession(s) /\ txn'[s] = x /\ pc'[s] \notin {"replaying", "altering"}
    BY <1>1, <1>3, DmlGoesOn
  <2>2. Current(s) = x /\ Numbers({}) /\ UNCHANGED <<tables, version, snapshot>>
    BY <1>1, CurrentIs, KeepsNumber DEF shared
  <2>3. Follows(x, x, {})
    BY FollowsSelf
  <2> QED
    BY <2>1, <2>2, <2>3, WorksOn
<1> QED
  BY <1>2, <1>3 DEF Children

(* Undo takes changes off the end of the log. *)
LEMMA UndoMoves ==
  ASSUME IInv, NEW s \in Session, UndoStep(s) \/ UndoDone(s)
  PROVE  Moves(s)
<1>1. ASSUME UndoStep(s) PROVE Moves(s)
  <2> DEFINE x == txn[s]
             last == Len(x.log)
             saved == frame[s].saved
  <2>1. /\ pc[s] = "undoing" /\ UNCHANGED <<shared, pc, frame, savepoint, draft>>
    BY <1>1 DEF UndoStep
  <2>2. PICK m \in 1..(last - saved) :
          txn' = [txn EXCEPT ![s] = [x EXCEPT !.work = undo_change(x.work, x.log, m),
                                              !.log = SubSeq(x.log, 1, last - m)]]
    BY <1>1 DEF UndoStep
  <2> DEFINE y == [x EXCEPT !.work = undo_change(x.work, x.log, m),
                            !.log = SubSeq(x.log, 1, last - m)]
  <2>3. /\ GoodTxn(x) /\ Current(s) = x
        /\ Numbers({}) /\ UNCHANGED <<tables, version, snapshot>>
    BY <2>1, CurrentIs, KeepsNumber DEF shared
  <2>4. saved \in Nat
    BY DEF IInv, Locals, LocalOK, IsFrame
  <2>5. last \in Nat
    BY <2>3, SMT DEF GoodTxn, IsTxn
  <2>6. m \in 1..last
    BY <2>4, <2>5, SMT
  <2>7. Follows(y, x, {})
    BY <2>3, <2>6, UndoFollows
  <2>8. OnlySession(s) /\ txn'[s] = y /\ pc'[s] = "undoing"
    BY <2>1, <2>2 DEF IInv, Domains, OnlySession
  <2> HIDE DEF y
  <2> QED
    BY <2>3, <2>7, <2>8, WorksOn
<1>2. ASSUME UndoDone(s) PROVE Moves(s)
  BY <1>2, SettleMoves DEF UndoDone
<1> QED
  BY <1>1, <1>2

(* A step that keeps the transaction and touches nothing shared. *)
LEMMA KeepsTxn ==
  ASSUME IInv, NEW s \in Session, OnlySession(s),
         UNCHANGED <<tables, version, next_row_id, snapshot>>,
         pc[s] \in {"ready", "ddl", "altering"}, pc'[s] \in {"ready", "ddl", "undoing"},
         txn'[s] = txn[s], pc'[s] = "undoing" => txn[s] # None
  PROVE  Moves(s)
<1>1. InTxn(s)' => txn'[s] = Current(s)
  BY DEF InTxn, Current
<1>2. Follows(Current(s), Current(s), {}) /\ Numbers({})
  BY FollowsSelf, KeepsNumber
<1> QED
  BY <1>1, <1>2 DEF Moves, Works

(* A step after which there is no transaction. *)
LEMMA DropsTxn ==
  ASSUME IInv, NEW s \in Session, OnlySession(s),
         UNCHANGED <<tables, version, next_row_id, snapshot>>,
         pc'[s] = "ready", txn'[s] = None
  PROVE  Moves(s)
<1>1. ~InTxn(s)' /\ Numbers({})
  BY KeepsNumber DEF InTxn
<1> QED
  BY <1>1 DEF Moves, Works

(* Replay applies one change of the log. *)
LEMMA ReplayMoves ==
  ASSUME IInv, NEW s \in Session, Replay(s)
  PROVE  Moves(s)
<1> DEFINE x == txn[s]
           f == frame[s]
           r == replay_change(f.next, x.log[f.k])
           g == [f EXCEPT !.next = r.cat, !.k = @ + 1]
<1>1. /\ pc[s] = "replaying" /\ f.k <= Len(x.log)
      /\ UNCHANGED <<tables, version, next_row_id, snapshot, savepoint, draft>>
  BY DEF Replay
<1>2. GoodTxn(x) /\ IsFrame(f) /\ InTxn(s)
  BY <1>1, CurrentIs DEF IInv, Locals, LocalOK
<1>3. f.k \in DOMAIN x.log
  <2>1. f.k \in Nat \ {0} /\ x.log \in Seq(Change)
    BY <1>2 DEF GoodTxn, IsTxn, IsFrame
  <2> QED
    BY <1>1, <2>1, SMT
<1>4. g.next = r.cat /\ g.k = f.k + 1
  BY <1>2 DEF IsFrame, Idle
<1>5. CASE /\ frame' = [frame EXCEPT ![s].next = r.cat, ![s].k = @ + 1]
           /\ UNCHANGED <<txn, pc>>
  <2>1. frame' = [frame EXCEPT ![s] = g]
    BY <1>5 DEF IInv, Domains
  <2> HIDE DEF g, r
  <2>2. OnlySession(s) /\ pc'[s] = "replaying" /\ txn'[s] = x /\ frame'[s] = g
    BY <1>1, <1>5, <2>1 DEF IInv, Domains, OnlySession
  <2> QED
    BY <1>1, <1>2, <1>3, <1>4, <2>2 DEF Moves, Replays, r
<1>6. CASE /\ frame' = [frame EXCEPT ![s] = Idle] /\ txn' = [txn EXCEPT ![s] = None]
           /\ Goto(s, "ready")
  <2>1. OnlySession(s) /\ pc'[s] = "ready" /\ txn'[s] = None
    BY <1>1, <1>6 DEF IInv, Domains, OnlySession, Goto
  <2> QED
    BY <1>1, <2>1, DropsTxn
<1> HIDE DEF g
<1> QED
  BY <1>5, <1>6 DEF Replay

(* The last step of a COMMIT that had to replay publishes. *)
LEMMA ReplayDoneMoves ==
  ASSUME IInv, NEW s \in Session, ReplayDone(s)
  PROVE  Moves(s)
<1>1. /\ pc[s] = "replaying" /\ Publish(frame[s].next)
      /\ txn' = [txn EXCEPT ![s] = None] /\ frame' = [frame EXCEPT ![s] = Idle]
      /\ pc' = [pc EXCEPT ![s] = frame[s].after]
      /\ UNCHANGED <<next_row_id, snapshot, savepoint, draft>>
  BY DEF ReplayDone, Goto
<1>2. frame[s].after \in {"ready", "ddl"}
  BY DEF IInv, Locals, LocalOK, IsFrame
<1>3. OnlySession(s) /\ pc'[s] \in {"ready", "ddl"} /\ txn'[s] = None
  BY <1>1, <1>2 DEF IInv, Domains, OnlySession
<1> QED
  BY <1>1, <1>3 DEF Moves, Publishes, Publish

(* DDL. *)
LEMMA RunDdlMoves ==
  ASSUME IInv, NEW s \in Session, NEW r, RunDdl(s, r),
         Ids(r.cat) \subseteq Ids(tables), KeysExist(tables) => KeysExist(r.cat)
  PROVE  Moves(s)
<1>1. /\ pc[s] = "ddl" /\ pc' = [pc EXCEPT ![s] = "ready"]
      /\ Publish(r.cat) \/ UNCHANGED <<tables, version>>
      /\ UNCHANGED <<lock, next_row_id, snapshot, txn, frame, savepoint, draft>>
  BY DEF RunDdl, Goto
<1>2. OnlySession(s) /\ pc'[s] = "ready" /\ txn'[s] = txn[s]
  BY <1>1 DEF IInv, Domains, OnlySession
<1>3. CASE Publish(r.cat)
  BY <1>1, <1>2, <1>3 DEF Moves, Publishes, Publish
<1>4. CASE UNCHANGED <<tables, version>>
  BY <1>1, <1>2, <1>4, KeepsTxn
<1> QED
  BY <1>1, <1>3, <1>4

(* ALTER TABLE drafts what it makes of the committed catalog. *)
LEMMA AlterCopyMoves ==
  ASSUME IInv, NEW s \in Session, pc[s] \in {"ddl", "altering"},
         NEW a \in Alter, AlterCopy(s, a)
  PROVE  Moves(s)
<1> DEFINE r == alter_table(tables, a)
           d == [action |-> a, cat |-> r.cat, version |-> version]
<1>1. Alters(r.cat, tables)
  BY AlterTableAlters, DefinitionAssumption DEF IInv, SharedOK
<1>2. /\ UNCHANGED <<tables, version, lock, next_row_id, snapshot,
                     txn, frame, savepoint>>
      /\ \/ /\ draft' = [draft EXCEPT ![s] = d]
            /\ pc' = [pc EXCEPT ![s] = "altering"]
         \/ /\ draft' = [draft EXCEPT ![s] = None]
            /\ pc' = [pc EXCEPT ![s] = "ready"]
  BY DEF AlterCopy, Goto, shared
<1>3. d.cat = r.cat /\ d.version = version
  OBVIOUS
<1> HIDE DEF r, d
<1>4. OnlySession(s) /\ txn'[s] = txn[s]
  BY <1>2 DEF IInv, Domains, OnlySession
<1>5. CASE draft' = [draft EXCEPT ![s] = d] /\ pc' = [pc EXCEPT ![s] = "altering"]
  <2>1. draft'[s] = d /\ pc'[s] = "altering"
    BY <1>5 DEF IInv, Domains
  <2> QED
    BY <1>1, <1>2, <1>3, <1>4, <2>1 DEF Moves, Drafts
<1>6. CASE pc' = [pc EXCEPT ![s] = "ready"]
  <2>1. pc'[s] = "ready"
    BY <1>6 DEF IInv, Domains
  <2> QED
    BY <1>2, <1>4, <2>1, KeepsTxn
<1> QED
  BY <1>2, <1>5, <1>6

(* A draft is published only if nothing was committed since. *)
LEMMA AlterInstallMoves ==
  ASSUME IInv, NEW s \in Session, AlterInstall(s)
  PROVE  Moves(s)
<1>1. /\ pc[s] = "altering" /\ Publish(draft[s].cat) /\ draft[s].version = version
      /\ draft' = [draft EXCEPT ![s] = None] /\ pc' = [pc EXCEPT ![s] = "ready"]
      /\ UNCHANGED <<lock, next_row_id, snapshot, txn, frame, savepoint>>
  BY DEF AlterInstall, Goto, DraftIsCurrent
<1>2. OnlySession(s) /\ pc'[s] = "ready" /\ txn'[s] = txn[s]
  BY <1>1 DEF IInv, Domains, OnlySession
<1> QED
  BY <1>1, <1>2 DEF Moves, Publishes, Publish

-----------------------------------------------------------------------------
(* Each DDL statement. *)
LEMMA DdlStepMoves ==
  ASSUME IInv, NEW s \in Session, DdlStep(s)
  PROVE  Moves(s)
<1>1. GoodCatalog(tables)
  BY DEF IInv, SharedOK
<1>2. ASSUME NEW r, RunDdl(s, r), SameRows(r.cat, tables),
             KeysExist(tables) => KeysExist(r.cat)
      PROVE  Moves(s)
  <2>1. Ids(r.cat) = Ids(tables)
    BY <1>2, SameRowsIds
  <2> QED
    BY <1>2, <2>1, RunDdlMoves
<1>3. ASSUME CreateTable(s) PROVE Moves(s)
  BY <1>3, CreateTableIds, CreateTableKeys, RunDdlMoves DEF CreateTable
<1>4. ASSUME DropTable(s) PROVE Moves(s)
  BY <1>1, <1>4, DropTableIds, DropTableKeys, RunDdlMoves DEF DropTable
<1>5. ASSUME Truncate(s) PROVE Moves(s)
  BY <1>1, <1>5, TruncateTableIds, TruncateTableKeys, RunDdlMoves DEF Truncate
<1>6. ASSUME CreateIndex(s) PROVE Moves(s)
  BY <1>1, <1>2, <1>6, AddUniqueAlters DEF CreateIndex, Alters
<1>7. ASSUME DropIndex(s) PROVE Moves(s)
  BY <1>1, <1>2, <1>7, DropIndexRows, DropIndexKeys DEF DropIndex
<1>8. ASSUME OtherDdl(s) PROVE Moves(s)
  <2>1. Done(tables).cat = tables /\ SameRows(tables, tables)
    BY DEF Done, SameRows
  <2> QED
    BY <1>2, <1>8, <2>1 DEF OtherDdl
<1>9. ASSUME AlterTable(s) PROVE Moves(s)
  BY <1>9, AlterCopyMoves DEF AlterTable
<1>10. ASSUME AlterInstall(s) PROVE Moves(s)
  BY <1>10, AlterInstallMoves
<1>11. ASSUME AlterRetry(s) PROVE Moves(s)
  <2>1. pc[s] = "altering" /\ AlterCopy(s, draft[s].action)
    BY <1>11 DEF AlterRetry
  <2>2. draft[s].action \in Alter
    BY <2>1 DEF IInv, Locals, LocalOK
  <2> QED
    BY <2>1, <2>2, AlterCopyMoves
<1> QED
  BY <1>3, <1>4, <1>5, <1>6, <1>7, <1>8, <1>9, <1>10, <1>11 DEF DdlStep

(* The other sessions stay where they were. *)
LEMMA Others ==
  ASSUME NEW s \in Session, OnlySession(s), NEW r \in Session, r # s
  PROVE  /\ InTxn(r)' <=> InTxn(r)
         /\ txn'[r] = txn[r] /\ pc'[r] = pc[r] /\ frame'[r] = frame[r] /\ draft'[r] = draft[r]
<1>1. txn'[r] = txn[r] /\ pc'[r] = pc[r] /\ frame'[r] = frame[r] /\ draft'[r] = draft[r]
  BY DEF OnlySession
<1> QED
  BY <1>1 DEF InTxn

(* Every catalog a step makes has the keys its foreign keys reference.      *)
LEMMA MovesKeepKeys ==
  ASSUME IInv, KeysHeld, NEW s \in Session, Moves(s)
  PROVE  KeysHeld'
<1>1. OnlySession(s) /\ (Works(s) \/ Publishes(s) \/ Replays(s) \/ Drafts(s))
  BY DEF Moves
<1>2. snapshot' = snapshot
  BY <1>1 DEF Works, Publishes, Replays, Drafts
<1>3. ASSUME NEW r \in Session, r # s
      PROVE  /\ InTxn(r)' => KeysExist(txn'[r].work)
             /\ pc'[r] = "replaying" => KeysExist(frame'[r].next)
             /\ pc'[r] = "altering" => KeysExist(draft'[r].cat)
  BY <1>1, <1>3, Others DEF KeysHeld
<1>4. KeysExist(Current(s).work)
  <2>1. CASE InTxn(s)
    BY <2>1 DEF KeysHeld, Current
  <2>2. CASE ~InTxn(s)
    <3>1. Current(s).work = tables
      BY <2>2 DEF Current
    <3> QED
      BY <3>1 DEF KeysHeld
  <2> QED
    BY <2>1, <2>2
<1>5. ASSUME KeysExist(tables'), InTxn(s)' => KeysExist(txn'[s].work),
             pc'[s] = "replaying" => KeysExist(frame'[s].next),
             pc'[s] = "altering" => KeysExist(draft'[s].cat)
      PROVE  KeysHeld'
  BY <1>2, <1>3, <1>5 DEF KeysHeld
<1>6. CASE Works(s)
  <2>1. KeysExist(tables') /\ pc'[s] \notin {"replaying", "altering"}
    BY <1>6 DEF Works, KeysHeld
  <2>2. InTxn(s)' => SameKeys(txn'[s].work, Current(s).work)
    BY <1>6 DEF Works, Follows
  <2>3. InTxn(s)' => KeysExist(txn'[s].work)
    BY <1>4, <2>2, KeysKept
  <2> QED
    BY <1>5, <2>1, <2>3
<1>7. CASE Publishes(s)
  <2>1. /\ pc'[s] \in {"ready", "ddl"}
        /\ \/ pc[s] = "ready" /\ InTxn(s) /\ txn'[s] = None /\ tables' = txn[s].work
           \/ pc[s] = "replaying" /\ txn'[s] = None /\ tables' = frame[s].next
           \/ /\ pc[s] = "ddl" /\ txn'[s] = txn[s]
              /\ KeysExist(tables) => KeysExist(tables')
           \/ pc[s] = "altering" /\ txn'[s] = txn[s] /\ tables' = draft[s].cat
    BY <1>7 DEF Publishes
  <2>2. KeysExist(tables')
    BY <2>1 DEF KeysHeld
  <2>3. InTxn(s)' => txn'[s] = txn[s] /\ InTxn(s)
    BY <2>1 DEF InTxn
  <2>4. InTxn(s)' => KeysExist(txn'[s].work)
    BY <2>3 DEF KeysHeld
  <2> QED
    BY <1>5, <2>1, <2>2, <2>4
<1>8. CASE Replays(s)
  <2>1. /\ tables' = tables /\ InTxn(s) /\ txn'[s] = txn[s] /\ pc'[s] = "replaying"
        /\ \/ pc[s] = "ready" /\ frame'[s].next = tables
           \/ /\ pc[s] = "replaying" /\ frame[s].k \in DOMAIN txn[s].log
              /\ frame'[s].next = replay_change(frame[s].next, txn[s].log[frame[s].k]).cat
    BY <1>8 DEF Replays
  <2>2. KeysExist(tables') /\ KeysExist(txn'[s].work)
    BY <2>1 DEF KeysHeld
  <2>3. CASE pc[s] = "ready" /\ frame'[s].next = tables
    BY <1>5, <2>1, <2>2, <2>3 DEF KeysHeld
  <2>4. CASE /\ pc[s] = "replaying" /\ frame[s].k \in DOMAIN txn[s].log
             /\ frame'[s].next = replay_change(frame[s].next, txn[s].log[frame[s].k]).cat
    <3>1. GoodCatalog(frame[s].next) /\ GoodTxn(txn[s])
      BY <2>4 DEF IInv, Locals, LocalOK
    <3>2. txn[s].log[frame[s].k] \in Change
      <4>1. txn[s].log \in Seq(Change)
        BY <3>1 DEF GoodTxn, IsTxn
      <4> QED
        BY <2>4, <4>1, SMT
    <3>3. SameKeys(frame'[s].next, frame[s].next)
      BY <2>4, <3>1, <3>2, ReplayKeeps
    <3>4. KeysExist(frame[s].next)
      BY <2>4 DEF KeysHeld
    <3>5. KeysExist(frame'[s].next)
      BY <3>3, <3>4, KeysKept
    <3> QED
      BY <1>5, <2>1, <2>2, <3>5
  <2> QED
    BY <2>1, <2>3, <2>4
<1>9. CASE Drafts(s)
  <2>1. /\ tables' = tables /\ txn'[s] = txn[s] /\ pc[s] \in {"ddl", "altering"}
        /\ pc'[s] = "altering" /\ Alters(draft'[s].cat, tables)
    BY <1>9 DEF Drafts
  <2>2. InTxn(s)' => InTxn(s)
    BY <2>1 DEF InTxn
  <2>3. KeysExist(draft'[s].cat)
    BY <2>1 DEF KeysHeld, Alters
  <2>4. KeysExist(tables') /\ (InTxn(s)' => KeysExist(txn'[s].work))
    BY <2>1, <2>2 DEF KeysHeld
  <2> QED
    BY <1>5, <2>1, <2>3, <2>4
<1> QED
  BY <1>1, <1>6, <1>7, <1>8, <1>9

(* A draft of the newest version has its rows. *)
LEMMA MovesKeepDrafts ==
  ASSUME IInv, DraftsFit, NEW s \in Session, Moves(s)
  PROVE  DraftsFit'
<1>1. OnlySession(s) /\ (Works(s) \/ Publishes(s) \/ Replays(s) \/ Drafts(s))
  BY DEF Moves
<1>2. version \in Nat
  BY DEF IInv, SharedOK
<1>3. \/ tables' = tables /\ version' = version
      \/ version' = version + 1
  BY <1>1 DEF Works, Publishes, Replays, Drafts
<1>4. ASSUME NEW r \in Session, r # s, pc'[r] = "altering"
      PROVE  /\ draft'[r].version \in Nat /\ draft'[r].version <= version'
             /\ draft'[r].version = version' => SameRows(draft'[r].cat, tables')
  <2>1. draft'[r] = draft[r] /\ pc[r] = "altering"
    BY <1>1, <1>4, Others
  <2>2. /\ draft[r].version \in Nat /\ draft[r].version <= version
        /\ draft[r].version = version => SameRows(draft[r].cat, tables)
    BY <2>1 DEF DraftsFit
  <2> DEFINE v == draft[r].version
  <2>3. v \in Nat /\ v <= version
    BY <2>2
  <2> HIDE DEF v
  <2>4. CASE tables' = tables /\ version' = version
    BY <2>1, <2>2, <2>4
  <2>5. CASE version' = version + 1
    <3>1. v <= version' /\ v # version'
      BY <1>2, <2>3, <2>5, SMT
    <3> QED
      BY <2>1, <2>3, <3>1 DEF v
  <2> QED
    BY <1>3, <2>4, <2>5
<1>5. ASSUME pc'[s] = "altering"
      PROVE  /\ draft'[s].version \in Nat /\ draft'[s].version <= version'
             /\ draft'[s].version = version' => SameRows(draft'[s].cat, tables')
  <2>1. Drafts(s)
    BY <1>1, <1>5 DEF Works, Publishes, Replays
  <2>2. /\ draft'[s].version = version /\ SameRows(draft'[s].cat, tables)
        /\ tables' = tables /\ version' = version
    BY <2>1 DEF Drafts, Alters
  <2>3. version <= version
    BY <1>2, SMT
  <2> QED
    BY <1>2, <2>2, <2>3
<1> QED
  BY <1>4, <1>5 DEF DraftsFit

-----------------------------------------------------------------------------
(* A row id is handed out once. *)
LEMMA GivenGrows ==
  ASSUME IInv, NEW ids, Numbers(ids)
  PROVE  Given \subseteq Given' /\ ids \subseteq Given' /\ ids \cap Given = {}
<1>1. next_row_id \in Nat
  BY DEF IInv, SharedOK
<1>2. CASE ids = {} /\ next_row_id' = next_row_id
  BY <1>1, <1>2 DEF Given
<1>3. CASE ids = {next_row_id} /\ next_row_id' = next_row_id + 1
  BY <1>1, <1>3, SMT DEF Given
<1> QED
  BY <1>2, <1>3 DEF Numbers

(* A transaction has seen the ids it inserted under. *)
LEMMA InsertsLogged ==
  ASSUME NEW x
  PROVE  InsertIds(x.log) \subseteq Seen(x)
  BY DEF InsertIds, Seen, LogIds

(* The transaction a session works in, also when it has yet to be opened. *)
LEMMA CurrentFresh ==
  ASSUME IInv, Fresh, NEW s \in Session
  PROVE  /\ Sound(Current(s)) /\ Seen(Current(s)) \subseteq Private(s) \cup Public
         /\ InsertIds(Current(s).log) \cap Public = {}
         /\ \A r \in Session \ {s} : InsertIds(Current(s).log) \cap Private(r) = {}
<1>1. CASE InTxn(s)
  <2>1. Current(s) = txn[s]
    BY <1>1 DEF Current
  <2>2. Seen(txn[s]) \subseteq Private(s)
    BY <1>1 DEF Private
  <2> QED
    BY <1>1, <2>1, <2>2 DEF Fresh
<1>2. CASE ~InTxn(s)
  <2> DEFINE log == << >>
  <2>1. Current(s).work = tables /\ Current(s).log = log
    BY <1>2 DEF Current
  <2>2. DOMAIN log = {}
    BY SMT
  <2> HIDE DEF log
  <2>3. LogIds(log) = {} /\ InsertIds(log) = {}
    BY <2>2 DEF LogIds, InsertIds
  <2>4. Ids(tables) \subseteq Public
    BY DEF Public
  <2>5. Sound(Current(s))
    BY <2>1, <2>2 DEF Sound
  <2>6. Seen(Current(s)) \subseteq Public
    BY <2>1, <2>3, <2>4 DEF Seen
  <2> QED
    BY <2>1, <2>3, <2>5, <2>6
<1> QED
  BY <1>1, <1>2

(* What a step makes public. *)
LEMMA PublicStep ==
  ASSUME NEW s \in Session, OnlySession(s), snapshot' = snapshot, NEW Q,
         Ids(tables') \subseteq Public \cup Q,
         pc'[s] = "altering" => Ids(draft'[s].cat) \subseteq Public
  PROVE  Public' \subseteq Public \cup Q
<1> SUFFICES ASSUME NEW i \in Public' PROVE i \in Public \cup Q
  OBVIOUS
<1>1. \/ i \in Ids(tables')
      \/ snapshot' # None /\ i \in Ids(snapshot')
      \/ \E r \in Session : pc'[r] = "altering" /\ i \in Ids(draft'[r].cat)
  BY DEF Public
<1>2. CASE i \in Ids(tables')
  BY <1>2
<1>3. CASE snapshot' # None /\ i \in Ids(snapshot')
  BY <1>3 DEF Public
<1>4. ASSUME NEW r \in Session, pc'[r] = "altering", i \in Ids(draft'[r].cat)
      PROVE  i \in Public
  <2>1. CASE r = s
    BY <1>4, <2>1
  <2>2. CASE r # s
    <3>1. pc[r] = "altering" /\ draft'[r] = draft[r]
      BY <1>4, <2>2 DEF OnlySession
    <3> QED
      BY <1>4, <3>1 DEF Public
  <2> QED
    BY <2>1, <2>2
<1> QED
  BY <1>1, <1>2, <1>3, <1>4

(* A step of one session leaves what another has seen. *)
LEMMA PrivateKept ==
  ASSUME NEW s \in Session, OnlySession(s), NEW r \in Session \ {s}
  PROVE  Private(r)' = Private(r)
<1>1. /\ InTxn(r)' <=> InTxn(r)
      /\ txn'[r] = txn[r] /\ pc'[r] = pc[r] /\ frame'[r] = frame[r]
  BY Others
<1> QED
  BY <1>1 DEF Private

(* A step is sound if it hands out its row ids, makes public only what was, *)
(* or what its session alone held and gives up, and inserts only under row  *)
(* ids of its transaction and those it was handed.                          *)
LEMMA FreshStep ==
  ASSUME IInv, Fresh, NEW s \in Session, OnlySession(s), NEW ids, Numbers(ids),
         Public' \subseteq Public \cup Private(s),
         InTxn(s)' => Public' \subseteq Public,
         Private(s)' \subseteq Private(s) \cup Public \cup ids,
         InTxn(s)' => /\ Sound(txn'[s])
                      /\ InsertIds(txn'[s].log) \subseteq InsertIds(Current(s).log) \cup ids,
         pc'[s] = "replaying" =>
           \A i \in DOMAIN txn'[s].log :
             i >= frame'[s].k /\ txn'[s].log[i].op = "insert"
               => txn'[s].log[i].id \notin Ids(frame'[s].next)
  PROVE  Fresh'
<1>1. Given \subseteq Given' /\ ids \subseteq Given' /\ ids \cap Given = {}
  BY GivenGrows
<1>2. /\ Public \subseteq Given
      /\ \A r \in Session : Private(r) \subseteq Given
  BY DEF Fresh
<1>3. \A r \in Session \ {s} : Private(r)' = Private(r)
  BY PrivateKept
<1>4. Public' \subseteq Given' /\ \A r \in Session : Private(r)' \subseteq Given'
  <2>1. Public' \subseteq Given'
    BY <1>1, <1>2
  <2>2. Private(s)' \subseteq Given'
    BY <1>1, <1>2
  <2>3. ASSUME NEW r \in Session, r # s PROVE Private(r)' \subseteq Given'
    BY <1>1, <1>2, <1>3, <2>3
  <2> QED
    BY <2>1, <2>2, <2>3
<1>5. ASSUME NEW r \in Session, r # s, InTxn(r)'
      PROVE  /\ Sound(txn'[r])
             /\ InsertIds(txn'[r].log) \cap Public' = {}
             /\ \A q \in Session \ {r} : InsertIds(txn'[r].log) \cap Private(q)' = {}
  <2>1. InTxn(r) /\ txn'[r] = txn[r]
    BY <1>5, Others
  <2> DEFINE I == InsertIds(txn[r].log)
  <2>2. /\ Sound(txn[r]) /\ I \cap Public = {}
        /\ \A q \in Session \ {r} : I \cap Private(q) = {}
    BY <2>1 DEF Fresh
  <2>3. I \subseteq Private(r)
    BY <2>1, InsertsLogged DEF Private
  <2>4. I \subseteq Given
    BY <1>2, <2>3
  <2> HIDE DEF I
  <2>5. I \cap Public' = {}
    BY <1>5, <2>2
  <2>6. I \cap Private(s)' = {}
    BY <1>1, <1>5, <2>2, <2>4
  <2>7. ASSUME NEW q \in Session, q # r PROVE I \cap Private(q)' = {}
    BY <1>3, <2>2, <2>6, <2>7
  <2> QED
    BY <2>1, <2>2, <2>5, <2>7 DEF I
<1>6. ASSUME InTxn(s)'
      PROVE  /\ Sound(txn'[s])
             /\ InsertIds(txn'[s].log) \cap Public' = {}
             /\ \A q \in Session \ {s} : InsertIds(txn'[s].log) \cap Private(q)' = {}
  <2> DEFINE I == InsertIds(Current(s).log)
             J == InsertIds(txn'[s].log)
  <2>1. /\ I \cap Public = {} /\ \A r \in Session \ {s} : I \cap Private(r) = {}
    BY CurrentFresh
  <2>2. Sound(txn'[s]) /\ J \subseteq I \cup ids /\ Public' \subseteq Public
    BY <1>6
  <2> HIDE DEF I, J
  <2>3. J \cap Public' = {}
    BY <1>1, <1>2, <2>1, <2>2
  <2>4. ASSUME NEW q \in Session, q # s PROVE J \cap Private(q)' = {}
    <3>1. Private(q)' = Private(q) /\ I \cap Private(q) = {} /\ Private(q) \subseteq Given
      BY <1>2, <1>3, <2>1, <2>4
    <3>2. J \cap Private(q) = {}
      BY <1>1, <2>2, <3>1
    <3> QED
      BY <3>1, <3>2
  <2> QED
    BY <2>2, <2>3, <2>4 DEF J
<1>7. ASSUME NEW r \in Session, r # s, pc'[r] = "replaying"
      PROVE  \A i \in DOMAIN txn'[r].log :
               i >= frame'[r].k /\ txn'[r].log[i].op = "insert"
                 => txn'[r].log[i].id \notin Ids(frame'[r].next)
  <2>1. txn'[r] = txn[r] /\ frame'[r] = frame[r] /\ pc[r] = "replaying"
    BY <1>7, Others
  <2>2. \A i \in DOMAIN txn[r].log :
          i >= frame[r].k /\ txn[r].log[i].op = "insert"
            => txn[r].log[i].id \notin Ids(frame[r].next)
    BY <2>1 DEF Fresh
  <2> QED
    BY <2>1, <2>2
<1>8. ASSUME NEW r \in Session
      PROVE  /\ Private(r)' \subseteq Given'
             /\ InTxn(r)' =>
                  /\ Sound(txn'[r])
                  /\ InsertIds(txn'[r].log) \cap Public' = {}
                  /\ \A q \in Session \ {r} : InsertIds(txn'[r].log) \cap Private(q)' = {}
             /\ pc'[r] = "replaying" =>
                  \A i \in DOMAIN txn'[r].log :
                    i >= frame'[r].k /\ txn'[r].log[i].op = "insert"
                      => txn'[r].log[i].id \notin Ids(frame'[r].next)
  BY <1>4, <1>5, <1>6, <1>7
<1> QED
  BY <1>4, <1>8 DEF Fresh

(* The steps of a session keep row ids fresh. *)
LEMMA WorksKeepFresh ==
  ASSUME IInv, Fresh, NEW s \in Session, OnlySession(s), Works(s)
  PROVE  Fresh'
<1>1. PICK ids : Numbers(ids) /\ (InTxn(s)' => Follows(txn'[s], Current(s), ids))
  BY DEF Works
<1>2. /\ tables' = tables /\ snapshot' = snapshot
      /\ pc'[s] # "replaying" /\ pc'[s] # "altering"
  BY DEF Works
<1>3. Ids(tables') \subseteq Public \cup {}
  BY <1>2 DEF Public
<1>4. Public' \subseteq Public \cup {}
  BY <1>2, <1>3, PublicStep
<1>5. /\ Sound(Current(s)) /\ Seen(Current(s)) \subseteq Private(s) \cup Public
  BY CurrentFresh
<1>6. ids \cap Seen(Current(s)) = {}
  <2>1. ids \cap Given = {}
    BY <1>1, GivenGrows
  <2>2. Private(s) \subseteq Given /\ Public \subseteq Given
    BY DEF Fresh
  <2> QED
    BY <1>5, <2>1, <2>2
<1>7. InTxn(s)' =>
        /\ Sound(txn'[s])
        /\ InsertIds(txn'[s].log) \subseteq InsertIds(Current(s).log) \cup ids
        /\ Seen(txn'[s]) \subseteq Private(s) \cup Public \cup ids
  <2> SUFFICES ASSUME InTxn(s)'
               PROVE  /\ Sound(txn'[s])
                      /\ InsertIds(txn'[s].log) \subseteq InsertIds(Current(s).log) \cup ids
                      /\ Seen(txn'[s]) \subseteq Private(s) \cup Public \cup ids
    OBVIOUS
  <2>1. /\ Seen(txn'[s]) \subseteq Seen(Current(s)) \cup ids
        /\ InsertIds(txn'[s].log) \subseteq InsertIds(Current(s).log) \cup ids
        /\ Sound(txn'[s])
    BY <1>1, <1>5, <1>6 DEF Follows
  <2> QED
    BY <1>5, <2>1
<1>8. Private(s)' \subseteq Private(s) \cup Public \cup ids
  <2>1. CASE InTxn(s)'
    <3>1. Private(s)' = Seen(txn'[s]) \cup {}
      BY <1>2, <2>1 DEF Private
    <3> QED
      BY <1>7, <2>1, <3>1
  <2>2. CASE ~InTxn(s)'
    <3>1. Private(s)' = {} \cup {}
      BY <1>2, <2>2 DEF Private
    <3> QED
      BY <3>1
  <2> QED
    BY <2>1, <2>2
<1>9. Public' \subseteq Public /\ Public' \subseteq Public \cup Private(s)
  BY <1>4
<1> QED
  BY <1>1, <1>2, <1>7, <1>8, <1>9, FreshStep

(* A step that leaves the transaction of its session alone, or ends it. *)
LEMMA KeepsFresh ==
  ASSUME IInv, Fresh, NEW s \in Session, OnlySession(s),
         next_row_id' = next_row_id, snapshot' = snapshot, pc'[s] # "replaying",
         pc'[s] = "altering" => Ids(draft'[s].cat) \subseteq Public,
         InTxn(s)' => InTxn(s) /\ txn'[s] = txn[s],
         NEW Q, Q = (IF InTxn(s)' THEN {} ELSE Private(s)),
         Ids(tables') \subseteq Public \cup Q
  PROVE  Fresh'
<1>1. Numbers({})
  BY KeepsNumber
<1>2. Public' \subseteq Public \cup Q
  BY PublicStep
<1>3. Public' \subseteq Public \cup Private(s) /\ (InTxn(s)' => Public' \subseteq Public)
  BY <1>2
<1>4. InTxn(s)' =>
        /\ Current(s) = txn[s] /\ Sound(txn'[s])
        /\ InsertIds(txn'[s].log) \subseteq InsertIds(Current(s).log) \cup {}
  BY DEF Current, Fresh
<1>5. Private(s)' \subseteq Private(s) \cup Public \cup {}
  <2>1. CASE InTxn(s)'
    <3>1. Private(s)' = Seen(txn[s]) \cup {}
      BY <2>1 DEF Private
    <3>2. Seen(txn[s]) \subseteq Private(s)
      BY <2>1 DEF Private
    <3> QED
      BY <3>1, <3>2
  <2>2. CASE ~InTxn(s)'
    <3>1. Private(s)' = {} \cup {}
      BY <2>2 DEF Private
    <3> QED
      BY <3>1
  <2> QED
    BY <2>1, <2>2
<1> QED
  BY <1>1, <1>3, <1>4, <1>5, FreshStep

(* The ids a COMMIT publishes are in no other transaction. *)
LEMMA PublishesKeepFresh ==
  ASSUME IInv, Fresh, NEW s \in Session, OnlySession(s), Publishes(s)
  PROVE  Fresh'
<1>1. /\ next_row_id' = next_row_id /\ snapshot' = snapshot
      /\ pc'[s] # "replaying" /\ pc'[s] # "altering"
      /\ pc'[s] \in {"ready", "ddl"}
  BY DEF Publishes
<1>2. \/ pc[s] = "ready" /\ InTxn(s) /\ txn'[s] = None /\ tables' = txn[s].work
      \/ pc[s] = "replaying" /\ txn'[s] = None /\ tables' = frame[s].next
      \/ pc[s] = "ddl" /\ txn'[s] = txn[s] /\ Ids(tables') \subseteq Ids(tables)
      \/ pc[s] = "altering" /\ txn'[s] = txn[s] /\ tables' = draft[s].cat
  BY DEF Publishes
<1>3. ASSUME txn'[s] = None, Ids(tables') \subseteq Private(s)
      PROVE  Fresh'
  <2>1. ~InTxn(s)'
    BY <1>1, <1>3 DEF InTxn
  <2>2. Ids(tables') \subseteq Public \cup Private(s)
    BY <1>3
  <2> QED
    BY <1>1, <2>1, <2>2, KeepsFresh
<1>4. ASSUME txn'[s] = txn[s], Ids(tables') \subseteq Public
      PROVE  Fresh'
  <2>1. InTxn(s)' => InTxn(s) /\ txn'[s] = txn[s]
    BY <1>1, <1>4 DEF InTxn
  <2> DEFINE Q == IF InTxn(s)' THEN {} ELSE Private(s)
  <2>2. Ids(tables') \subseteq Public \cup Q
    BY <1>4
  <2> QED
    BY <1>1, <2>1, <2>2, KeepsFresh
<1>5. InTxn(s) => Ids(txn[s].work) \subseteq Private(s)
  BY DEF Private, Seen
<1>6. pc[s] = "replaying" => Ids(frame[s].next) \subseteq Private(s)
  BY DEF Private
<1>7. Ids(tables) \subseteq Public
  BY DEF Public
<1>8. pc[s] = "altering" => Ids(draft[s].cat) \subseteq Public
  BY DEF Public
<1> QED
  BY <1>2, <1>3, <1>4, <1>5, <1>6, <1>7, <1>8

(* A draft holds the ids of the committed catalog. *)
LEMMA DraftsKeepFresh ==
  ASSUME IInv, Fresh, NEW s \in Session, OnlySession(s), Drafts(s)
  PROVE  Fresh'
<1>1. /\ tables' = tables /\ next_row_id' = next_row_id /\ snapshot' = snapshot
      /\ txn'[s] = txn[s] /\ pc[s] \in {"ddl", "altering"} /\ pc'[s] = "altering"
      /\ SameRows(draft'[s].cat, tables)
  BY DEF Drafts, Alters
<1>2. Ids(tables) \subseteq Public
  BY DEF Public
<1>3. Ids(draft'[s].cat) \subseteq Public
  BY <1>1, <1>2, SameRowsIds
<1>4. InTxn(s)' => InTxn(s) /\ txn'[s] = txn[s]
  BY <1>1 DEF InTxn
<1> DEFINE Q == IF InTxn(s)' THEN {} ELSE Private(s)
<1>5. Ids(tables') \subseteq Public \cup Q
  BY <1>1, <1>2
<1>6. pc'[s] # "replaying"
  BY <1>1
<1> QED
  BY <1>1, <1>3, <1>4, <1>5, <1>6, KeepsFresh

(* A replay inserts each row id of its log once. *)
LEMMA ReplaysKeepFresh ==
  ASSUME IInv, Fresh, NEW s \in Session, OnlySession(s), Replays(s)
  PROVE  Fresh'
<1> DEFINE x == txn[s]
           k == frame[s].k
           c == x.log[k]
<1>1. /\ tables' = tables /\ next_row_id' = next_row_id /\ snapshot' = snapshot
      /\ InTxn(s) /\ txn'[s] = x /\ pc'[s] = "replaying" /\ pc'[s] # "altering"
  BY DEF Replays
<1>2. \/ pc[s] = "ready" /\ frame'[s].next = tables
      \/ /\ pc[s] = "replaying" /\ k \in DOMAIN x.log
         /\ frame'[s].next = replay_change(frame[s].next, c).cat
         /\ frame'[s].k = k + 1
  BY DEF Replays
<1>3. /\ Sound(x) /\ InsertIds(x.log) \cap Public = {} /\ Seen(x) \subseteq Private(s)
      /\ Current(s) = x
  BY <1>1 DEF Fresh, Private, Current
<1>4. InTxn(s)' /\ Numbers({})
  BY <1>1, KeepsNumber DEF InTxn
<1>5. Ids(tables) \subseteq Public
  BY DEF Public
<1>6. Public' \subseteq Public
  <2>1. Ids(tables') \subseteq Public \cup {}
    BY <1>1, <1>5
  <2>2. Public' \subseteq Public \cup {}
    BY <1>1, <2>1, PublicStep
  <2> QED
    BY <2>2
<1>7. ASSUME Ids(frame'[s].next) \subseteq Private(s) \cup Public,
             \A i \in DOMAIN x.log : i >= frame'[s].k /\ x.log[i].op = "insert"
               => x.log[i].id \notin Ids(frame'[s].next)
      PROVE  Fresh'
  <2>1. Private(s)' = Seen(x) \cup Ids(frame'[s].next)
    BY <1>1, <1>4 DEF Private
  <2>2. Private(s)' \subseteq Private(s) \cup Public \cup {}
    BY <1>3, <1>7, <2>1
  <2>3. Public' \subseteq Public \cup Private(s)
    BY <1>6
  <2>4. InsertIds(txn'[s].log) \subseteq InsertIds(Current(s).log) \cup {}
    BY <1>1, <1>3
  <2>5. Sound(txn'[s])
    BY <1>1, <1>3
  <2>6. \A i \in DOMAIN txn'[s].log : i >= frame'[s].k /\ txn'[s].log[i].op = "insert"
          => txn'[s].log[i].id \notin Ids(frame'[s].next)
    BY <1>1, <1>7
  <2> QED
    BY <1>4, <1>6, <2>2, <2>3, <2>4, <2>5, <2>6, FreshStep
<1>8. CASE pc[s] = "ready" /\ frame'[s].next = tables
  <2>1. \A i \in DOMAIN x.log : x.log[i].op = "insert" => x.log[i].id \in InsertIds(x.log)
    BY DEF InsertIds
  <2> QED
    BY <1>3, <1>5, <1>7, <1>8, <2>1
<1>9. CASE /\ pc[s] = "replaying" /\ k \in DOMAIN x.log
           /\ frame'[s].next = replay_change(frame[s].next, c).cat
           /\ frame'[s].k = k + 1
  <2>1. GoodCatalog(frame[s].next) /\ x.log \in Seq(Change) /\ k \in Nat
    BY <1>9 DEF IInv, Locals, LocalOK, GoodTxn, IsTxn, IsFrame
  <2>2. c \in Change
    BY <1>9, <2>1, SMT
  <2> DEFINE new == IF c.op = "insert" THEN {c.id} ELSE {}
  <2>3. Ids(frame'[s].next) \subseteq Ids(frame[s].next) \cup new
    BY <1>9, <2>1, <2>2, ReplayIds
  <2>4. new \subseteq Seen(x)
    BY <1>9 DEF Seen, LogIds
  <2>5. Ids(frame[s].next) \subseteq Private(s)
    BY <1>9 DEF Private
  <2>6. Ids(frame'[s].next) \subseteq Private(s) \cup Public
    BY <1>3, <2>3, <2>4, <2>5
  <2>7. ASSUME NEW i \in DOMAIN x.log, i >= k + 1, x.log[i].op = "insert"
        PROVE  x.log[i].id \notin Ids(frame'[s].next)
    <3>1. i >= k /\ i # k
      <4>1. i \in Nat
        BY <2>1, SMT
      <4> QED
        BY <2>1, <2>7, <4>1, SMT
    <3>2. x.log[i].id \notin Ids(frame[s].next)
      BY <1>9, <2>7, <3>1 DEF Fresh
    <3>3. x.log[i].id \notin new
      BY <1>3, <1>9, <2>7, <3>1 DEF Sound
    <3> QED
      BY <2>3, <3>2, <3>3
  <2> QED
    BY <1>7, <1>9, <2>6, <2>7
<1> QED
  BY <1>2, <1>8, <1>9

(* Whatever a session does, ids stay fresh. *)
LEMMA MovesKeepFresh ==
  ASSUME IInv, Fresh, NEW s \in Session, Moves(s)
  PROVE  Fresh'
  BY WorksKeepFresh, PublishesKeepFresh, ReplaysKeepFresh, DraftsKeepFresh DEF Moves

(* The helper takes and restores snapshots between the steps of sessions. *)
LEMMA HelperKeeps ==
  ASSUME Strong, Snapshot \/ RestoreSnapshot \/ Reset
  PROVE  KeysHeld' /\ DraftsFit' /\ Fresh'
<1> USE DEF Strong
<1>1. /\ next_row_id' = next_row_id /\ txn' = txn /\ pc' = pc /\ frame' = frame
      /\ draft' = draft
  BY DEF Snapshot, RestoreSnapshot, Reset, Restore
<1>2. \/ tables' = tables /\ version' = version /\ snapshot' = tables
      \/ snapshot # None /\ tables' = snapshot /\ version' = version + 1 /\ snapshot' = snapshot
      \/ tables' = << >> /\ version' = version + 1 /\ snapshot' = snapshot
  BY DEF Snapshot, RestoreSnapshot, Reset, Restore, Publish
<1> DEFINE none == << >>
<1>3. DOMAIN none = {}
  BY SMT
<1>4. tables' = none \/ tables' = tables \/ (snapshot # None /\ tables' = snapshot)
  BY <1>2
<1>5. snapshot' = snapshot \/ snapshot' = tables
  BY <1>2
<1> HIDE DEF none
<1>6. KeysExist(none) /\ Ids(none) = {}
  BY <1>3 DEF KeysExist, Ids
<1>7. \A r \in Session : InTxn(r)' <=> InTxn(r)
  BY <1>1 DEF InTxn
<1>8. KeysHeld'
  <2>1. KeysExist(tables') /\ (snapshot' # None => KeysExist(snapshot'))
    BY <1>4, <1>5, <1>6 DEF KeysHeld
  <2>2. ASSUME NEW r \in Session
        PROVE  /\ InTxn(r)' => KeysExist(txn'[r].work)
               /\ pc'[r] = "replaying" => KeysExist(frame'[r].next)
               /\ pc'[r] = "altering" => KeysExist(draft'[r].cat)
    BY <1>1, <1>7 DEF KeysHeld
  <2> QED
    BY <2>1, <2>2 DEF KeysHeld
<1>9. DraftsFit'
  <2> SUFFICES ASSUME NEW r \in Session, pc'[r] = "altering"
               PROVE  /\ draft'[r].version \in Nat /\ draft'[r].version <= version'
                      /\ draft'[r].version = version' => SameRows(draft'[r].cat, tables')
    BY DEF DraftsFit
  <2>1. /\ draft'[r] = draft[r]
        /\ draft[r].version \in Nat /\ draft[r].version <= version
        /\ draft[r].version = version => SameRows(draft[r].cat, tables)
    BY <1>1 DEF DraftsFit
  <2>2. version \in Nat
    BY DEF IInv, SharedOK
  <2>3. CASE tables' = tables /\ version' = version
    BY <2>1, <2>3
  <2>4. CASE version' = version + 1
    <3> DEFINE v == draft[r].version
    <3>1. v \in Nat /\ v <= version
      BY <2>1
    <3> HIDE DEF v
    <3>2. v <= version' /\ v # version'
      BY <2>2, <2>4, <3>1, SMT
    <3> QED
      BY <2>1, <3>2 DEF v
  <2> QED
    BY <1>2, <2>3, <2>4
<1>10. Fresh'
  <2>1. Given' = Given
    BY <1>1 DEF Given
  <2>2. \A r \in Session : Private(r)' = Private(r)
    BY <1>1, <1>7 DEF Private
  <2>3. Public' \subseteq Public
    <3>1. Ids(tables') \subseteq Public
      BY <1>4, <1>6 DEF Public
    <3>2. snapshot' # None => Ids(snapshot') \subseteq Public
      BY <1>5 DEF Public
    <3> DEFINE D == UNION {Ids(draft[r].cat) : r \in {q \in Session : pc[q] = "altering"}}
    <3>3. /\ Public' = Ids(tables') \cup (IF snapshot' = None THEN {} ELSE Ids(snapshot')) \cup D
          /\ D \subseteq Public
      BY <1>1 DEF Public
    <3> HIDE DEF D
    <3> QED
      BY <3>1, <3>2, <3>3
  <2>4. ASSUME NEW r \in Session
        PROVE  /\ Private(r)' \subseteq Given'
               /\ InTxn(r)' =>
                    /\ Sound(txn'[r])
                    /\ InsertIds(txn'[r].log) \cap Public' = {}
                    /\ \A q \in Session \ {r} : InsertIds(txn'[r].log) \cap Private(q)' = {}
               /\ pc'[r] = "replaying" =>
                    \A i \in DOMAIN txn'[r].log :
                      i >= frame'[r].k /\ txn'[r].log[i].op = "insert"
                        => txn'[r].log[i].id \notin Ids(frame'[r].next)
    <3>1. Private(r)' \subseteq Given'
      BY <2>1, <2>2 DEF Fresh
    <3>2. ASSUME InTxn(r)
          PROVE  /\ Sound(txn'[r])
                 /\ InsertIds(txn'[r].log) \cap Public' = {}
                 /\ \A q \in Session \ {r} : InsertIds(txn'[r].log) \cap Private(q)' = {}
      <4> DEFINE I == InsertIds(txn[r].log)
      <4>1. /\ Sound(txn[r]) /\ I \cap Public = {}
            /\ \A q \in Session \ {r} : I \cap Private(q) = {}
        BY <3>2 DEF Fresh
      <4>2. I = InsertIds(txn'[r].log)
        BY <1>1
      <4> HIDE DEF I
      <4>3. I \cap Public' = {}
        BY <2>3, <4>1
      <4> QED
        BY <1>1, <2>2, <4>1, <4>2, <4>3
    <3>3. pc'[r] = "replaying" =>
            \A i \in DOMAIN txn'[r].log :
              i >= frame'[r].k /\ txn'[r].log[i].op = "insert"
                => txn'[r].log[i].id \notin Ids(frame'[r].next)
      BY <1>1 DEF Fresh
    <3> QED
      BY <1>7, <3>1, <3>2, <3>3
  <2>5. Public' \subseteq Given'
    BY <2>1, <2>3 DEF Fresh
  <2> QED
    BY <2>4, <2>5 DEF Fresh
<1> QED
  BY <1>8, <1>9, <1>10

=============================================================================
