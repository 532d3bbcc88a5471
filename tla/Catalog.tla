------------------------------ MODULE Catalog ------------------------------
(***************************************************************************)
(* The catalog (catalog.rs, session.rs): all tables by name, what one      *)
(* logged change does to them, and how foreign keys are followed.  An      *)
(* operator that can fail returns [ok, cat]; when it fails the code        *)
(* discards the copy it was working on.                                    *)
(*                                                                         *)
(* Data.  A catalog is a function from the names of the existing tables to *)
(* tables.  Constraint names are unique in the catalog, so a table keeps   *)
(* its unique constraints and its foreign keys as functions of their       *)
(* names.                                                                  *)
(***************************************************************************)
EXTENDS Table, FiniteSets

CONSTANTS TableName, ConstraintName

ForeignKey == [columns: Seq(Column), parent: TableName,
               parent_columns: Seq(Column),
               on_delete: {"restrict", "cascade", "set_null"},
               enabled: BOOLEAN]

(* The cells a constraint's column list names exist in every row. *)
InWidth(columns, width) == \A i \in DOMAIN columns : columns[i] \in 1..width

IsTable(t) ==
  /\ DOMAIN t = {"columns", "not_null", "unique", "fks", "rows"}
  /\ t.columns \in Nat
  /\ t.not_null \subseteq Column
  /\ DOMAIN t.unique \subseteq ConstraintName
  /\ \A u \in DOMAIN t.unique : t.unique[u] \in Unique
  /\ DOMAIN t.fks \subseteq ConstraintName
  /\ \A f \in DOMAIN t.fks : t.fks[f] \in ForeignKey
  /\ \A u \in DOMAIN t.unique : InWidth(t.unique[u].columns, t.columns)
  /\ DOMAIN t.rows \subseteq Nat /\ IsFiniteSet(DOMAIN t.rows)
  /\ \A i \in DOMAIN t.rows : t.rows[i] \in Row /\ Len(t.rows[i]) = t.columns

(* A table whose enforced constraints hold, with indexes that cover its rows. *)
GoodTable(t) == IsTable(t) /\ UniqueHolds(t) /\ IndexCovers(t)

(* A catalog of such tables. *)
GoodCatalog(cat) ==
  DOMAIN cat \subseteq TableName /\ \A n \in DOMAIN cat : GoodTable(cat[n])

ColumnsOf(columns) == {columns[i] : i \in DOMAIN columns}

-----------------------------------------------------------------------------
(* Every foreign key of the catalog, with its name and its table. *)
foreign_keys(cat) ==
  UNION {{[child |-> n, name |-> f, columns |-> cat[n].fks[f].columns,
           parent |-> cat[n].fks[f].parent,
           parent_columns |-> cat[n].fks[f].parent_columns,
           on_delete |-> cat[n].fks[f].on_delete,
           enabled |-> cat[n].fks[f].enabled] : f \in DOMAIN cat[n].fks} :
         n \in DOMAIN cat}

(* The foreign keys that reference the key over `columns` of `table`. *)
referencing(cat, table, columns) ==
  {f \in foreign_keys(cat) : f.parent = table /\ f.parent_columns = columns}

constraint_names(cat) ==
  UNION {DOMAIN cat[n].unique \cup DOMAIN cat[n].fks : n \in DOMAIN cat}

-----------------------------------------------------------------------------
(* Changes, as a transaction logs them.  `values` is what an insert or     *)
(* update wrote, `old` what an update or delete replaced.                  *)
Change == [op: {"insert", "update", "delete"}, table: TableName, id: Nat,
           values: Row, old: Row]

Inserted(n, id, values) ==
  [op |-> "insert", table |-> n, id |-> id, values |-> values, old |-> << >>]
Updated(n, id, values, old) ==
  [op |-> "update", table |-> n, id |-> id, values |-> values, old |-> old]
(* Mutant: what the row held is not kept. *)
DeletedForGood(n, id, old) ==
  [op |-> "delete", table |-> n, id |-> id, values |-> << >>, old |-> << >>]

Deleted(n, id, old) ==
  [op |-> "delete", table |-> n, id |-> id, values |-> << >>, old |-> old]

(* One step of COMMIT's replay.  A change to a table that is gone, or that *)
(* now has another number of columns, is skipped.  Only unique violations  *)
(* are errors.                                                             *)
replay_change(cat, c) ==
  LET n == c.table
      skip == [ok |-> TRUE, cat |-> cat]
      fits == n \in DOMAIN cat /\ cat[n].columns = Len(c.values)
      put(r) == [ok |-> r.ok, cat |-> [cat EXCEPT ![n] = r.table]]
  IN  CASE c.op = "insert" /\ fits -> put(Table_insert(cat[n], c.id, c.values))
        [] c.op = "update" /\ fits ->
             put(Table_update(cat[n], <<[id |-> c.id, values |-> c.values]>>))
        [] c.op = "delete" /\ n \in DOMAIN cat ->
             [ok |-> TRUE, cat |-> [cat EXCEPT ![n] = Table_delete(@, {c.id})]]
        [] OTHER -> skip

(* The newest m log entries form one step of `undo`: a maximal run of       *)
(* updates of one table is reverted together, anything else on its own.      *)
undo_run(log, keep, m) ==
  LET last == Len(log)
      of_run(i) == log[i].op = "update" /\ log[i].table = log[last].table
  IN  /\ m \in 1..(last - keep)
      /\ IF log[last].op = "update"
         THEN /\ \A i \in (last - m + 1)..last : of_run(i)
              /\ m < last - keep => ~of_run(last - m)
         ELSE m = 1

(* Mutant: an insert is dropped from the log but its row stays. *)
UndoKeepsInserts(cat, log, m) ==
  LET c == log[Len(log)]
  IN  [n \in DOMAIN cat |->
         IF n = c.table /\ c.op = "delete" THEN Table_insert(cat[n], c.id, c.old).table
         ELSE cat[n]]

reverted(t, c, batch) ==
  CASE c.op = "insert" -> Table_delete(t, {c.id})
    [] c.op = "delete" -> Table_insert(t, c.id, c.old).table
    [] c.op = "update" -> Table_update(t, batch).table

(* One step of `undo`: reverts the newest m entries of the log.  The        *)
(* results of insert and update are ignored.                                 *)
undo_change(cat, log, m) ==
  LET last == Len(log)
      c == log[last]
      batch == [i \in 1..m |-> [id |-> log[last + 1 - i].id,
                                values |-> log[last + 1 - i].old]]
  IN  [cat EXCEPT ![c.table] = reverted(@, c, batch)]

-----------------------------------------------------------------------------
(* enforce_foreign_keys, the parent side: the keys of foreign key f's parent *)
(* that the changes removed by deleting or by updating rows, and that no     *)
(* other row still holds.                                                    *)
deleted_keys(cat, f, changes) ==
  {k \in UNION {foreign_key(f.parent_columns, c.old) :
                c \in {d \in changes : d.op = "delete" /\ d.table = f.parent}} :
     ~has_key(cat[f.parent], f.parent_columns, k)}

updated_keys(cat, f, changes) ==
  {k \in UNION {foreign_key(f.parent_columns, c.old)
                  \ foreign_key(f.parent_columns, c.values) :
                c \in {d \in changes : d.op = "update" /\ d.table = f.parent}} :
     ~has_key(cat[f.parent], f.parent_columns, k)}

(* Mutant: a foreign key of several rows is followed for the first one only. *)
FirstChild(cat, f, keys) ==
  LET hits == {i \in DOMAIN cat[f.child].rows :
                 foreign_key(f.columns, cat[f.child].rows[i]) \cap keys # {}}
  IN  {i \in hits : \A j \in hits : i <= j}

(* The child rows of f that reference one of the keys. *)
children(cat, f, keys) ==
  {i \in DOMAIN cat[f.child].rows :
     foreign_key(f.columns, cat[f.child].rows[i]) \cap keys # {}}

(* ON DELETE SET NULL may not write NULL where the child forbids it. *)
may_set_null(cat, f) ==
  ColumnsOf(f.columns)
    \cap (cat[f.child].not_null \cup primary_columns(cat[f.child])) = {}

nulled(f, values) ==
  [c \in DOMAIN values |-> IF c \in ColumnsOf(f.columns) THEN Null ELSE values[c]]

(* The child side: each row that the changes inserted or updated, and that *)
(* is still there, has its parent.                                         *)
has_parent(cat, f, values) ==
  \A k \in foreign_key(f.columns, values) :
    f.parent \in DOMAIN cat /\ has_key(cat[f.parent], f.parent_columns, k)

children_have_parents(cat, changes) ==
  \A c \in {d \in changes : d.op \in {"insert", "update"}} :
    c.table \in DOMAIN cat /\ c.id \in DOMAIN cat[c.table].rows =>
      \A f \in {g \in foreign_keys(cat) : g.enabled /\ g.child = c.table} :
        has_parent(cat, f, cat[c.table].rows[c.id])
=============================================================================
