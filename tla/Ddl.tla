-------------------------------- MODULE Ddl --------------------------------
(***************************************************************************)
(* What each DDL statement does to the catalog (Session::ddl, alter_table, *)
(* add_constraint, validate_constraint in session.rs).  Every operator     *)
(* returns [ok, cat]; a statement that fails leaves the catalog as it was. *)
(*                                                                         *)
(* Inputs.  The definitions in a statement are records: a table            *)
(* [name, columns, not_null, unique, fks] whose last two fields are        *)
(* functions of constraint names, a unique constraint [columns, primary,   *)
(* is_index, enabled] and a foreign key [columns, parent, parent_columns,  *)
(* on_delete, enabled] whose columns are listed in the order of the        *)
(* referenced key, which is how the code lines them up before storing it.  *)
(*                                                                         *)
(* Left out: CHECK constraints, several constraints in one ADD, CREATE     *)
(* TABLE AS SELECT, and two corners that need the order in which a table's *)
(* constraints were added: a constraint with the name of an existing       *)
(* index, and dropping one of two unique constraints over the same columns *)
(* of a table that references them itself (alter_table keeps a position in *)
(* the constraint list while it removes the foreign key from that list).   *)
(***************************************************************************)
EXTENDS Catalog

IsUniqueDef(d) ==
  /\ d.columns \in Seq(Column)
  /\ d.primary \in BOOLEAN /\ d.is_index \in BOOLEAN /\ d.enabled \in BOOLEAN

IsForeignKeyDef(d) ==
  /\ d.columns \in Seq(Column) /\ d.parent \in TableName
  /\ d.parent_columns \in Seq(Column)
  /\ d.on_delete \in {"restrict", "cascade", "set_null"} /\ d.enabled \in BOOLEAN

IsTableDef(d) ==
  /\ d.name \in TableName /\ d.columns \in Nat /\ d.not_null \subseteq Column
  /\ DOMAIN d.unique \subseteq ConstraintName
  /\ \A u \in DOMAIN d.unique : IsUniqueDef(d.unique[u])
  /\ DOMAIN d.fks \subseteq ConstraintName
  /\ \A f \in DOMAIN d.fks : IsForeignKeyDef(d.fks[f])

IsAlter(a) ==
  /\ a.table \in TableName /\ a.name \in ConstraintName
  /\ a.kind \in {"add_unique", "add_fk", "drop", "disable", "enable"}
  /\ a.kind = "add_unique" => IsUniqueDef(a.def)
  /\ a.kind = "add_fk" => IsForeignKeyDef(a.def)

Fail(cat) == [ok |-> FALSE, cat |-> cat]
Done(cat) == [ok |-> TRUE, cat |-> cat]

(* A primary key or unique constraint of t, not a mere index, over columns. *)
has_referenced_key(t, columns) ==
  \E u \in DOMAIN t.unique :
    ~t.unique[u].is_index /\ t.unique[u].columns = columns

NewUnique(def) ==
  [columns |-> def.columns, primary |-> def.primary, is_index |-> def.is_index,
   enabled |-> def.enabled, index |-> {}]

NewForeignKey(def) ==
  [columns |-> def.columns, parent |-> def.parent,
   parent_columns |-> def.parent_columns, on_delete |-> def.on_delete,
   enabled |-> def.enabled]

create_table(cat, def) ==
  LET t == [columns |-> def.columns, not_null |-> def.not_null,
            unique |-> [u \in DOMAIN def.unique |-> NewUnique(def.unique[u])],
            fks |-> [f \in DOMAIN def.fks |-> NewForeignKey(def.fks[f])],
            rows |-> << >>]
      new == [n \in DOMAIN cat \cup {def.name} |->
                IF n = def.name THEN t ELSE cat[n]]
  IN  IF /\ def.name \notin DOMAIN cat
         /\ (DOMAIN def.unique \cup DOMAIN def.fks) \cap constraint_names(cat) = {}
         /\ \A u, v \in DOMAIN def.unique :
              def.unique[u].primary /\ def.unique[v].primary => u = v
         /\ \A u \in DOMAIN def.unique : InWidth(def.unique[u].columns, def.columns)
         /\ \A f \in DOMAIN def.fks :
              /\ InWidth(def.fks[f].columns, def.columns)
              /\ def.fks[f].parent \in DOMAIN new
              /\ has_referenced_key(new[def.fks[f].parent], def.fks[f].parent_columns)
      THEN Done(new)
      ELSE Fail(cat)

(* Mutant: the foreign keys stay behind when what they reference goes. *)
KeepForeignKeys(cat, refs) == cat

(* Removes foreign keys from the tables that declare them. *)
without_foreign_keys(cat, refs) ==
  [n \in DOMAIN cat |->
     [cat[n] EXCEPT !.fks =
        [f \in {g \in DOMAIN cat[n].fks :
                  ~\E r \in refs : r.child = n /\ r.name = g} |-> cat[n].fks[f]]]]

drop_table(cat, name, cascade) ==
  LET refs == {f \in foreign_keys(cat) : f.parent = name /\ f.child # name}
      left == without_foreign_keys(cat, refs)
  IN  IF name \in DOMAIN cat /\ (cascade \/ refs = {})
      THEN Done([n \in DOMAIN cat \ {name} |-> left[n]])
      ELSE Fail(cat)

truncate_table(cat, name) ==
  IF /\ name \in DOMAIN cat
     /\ ~\E f \in foreign_keys(cat) :
          f.parent = name /\ f.child # name /\ f.enabled
  THEN Done([cat EXCEPT ![name] = truncate(@)])
  ELSE Fail(cat)

-----------------------------------------------------------------------------
(* ALTER TABLE ADD of a primary key or unique constraint, and CREATE UNIQUE *)
(* INDEX.  A primary key also needs its columns free of NULLs, unless it is *)
(* added disabled.                                                          *)
add_unique_constraint(cat, table, name, def) ==
  LET t == cat[table]
      r == add_unique(t, name, def, def.enabled)
  IN  IF /\ name \notin constraint_names(cat)
         /\ table \in DOMAIN cat
         /\ InWidth(def.columns, t.columns)
         /\ def.primary =>
              /\ ~\E u \in DOMAIN t.unique : t.unique[u].primary
              /\ def.enabled =>
                   \A i \in DOMAIN t.rows : \A c \in ColumnsOf(def.columns) :
                     t.rows[i][c] # Null
         /\ r.ok
      THEN Done([cat EXCEPT ![table] = r.table])
      ELSE Fail(cat)

(* Every row of the child has its parent. *)
validate_foreign_key(cat, table, fk) ==
  \A i \in DOMAIN cat[table].rows : has_parent(cat, fk, cat[table].rows[i])

add_foreign_key(cat, table, name, def, validate) ==
  LET fk == NewForeignKey(def)
      new == [cat EXCEPT ![table].fks =
                [f \in DOMAIN cat[table].fks \cup {name} |->
                   IF f = name THEN fk ELSE cat[table].fks[f]]]
  IN  IF /\ name \notin constraint_names(cat)
         /\ table \in DOMAIN cat /\ def.parent \in DOMAIN cat
         /\ InWidth(def.columns, cat[table].columns)
         /\ has_referenced_key(cat[def.parent], def.parent_columns)
         /\ def.enabled /\ validate => validate_foreign_key(new, table, fk)
      THEN Done(new)
      ELSE Fail(cat)

-----------------------------------------------------------------------------
drop_constraint(cat, table, name, cascade) ==
  LET u == cat[table].unique
      refs == IF name \in DOMAIN u THEN referencing(cat, table, u[name].columns) ELSE {}
      left == without_foreign_keys(cat, refs \cup
                {f \in foreign_keys(cat) : f.child = table /\ f.name = name})
  IN  IF /\ table \in DOMAIN cat
         /\ \/ name \in DOMAIN u /\ ~u[name].is_index
            \/ name \in DOMAIN cat[table].fks
         /\ cascade \/ refs = {}
      THEN Done([left EXCEPT ![table].unique = [v \in DOMAIN u \ {name} |-> u[v]]])
      ELSE Fail(cat)

drop_index(cat, table, name) ==
  LET u == cat[table].unique
  IN  IF table \in DOMAIN cat /\ name \in DOMAIN u /\ u[name].is_index
      THEN Done([cat EXCEPT ![table].unique = [v \in DOMAIN u \ {name} |-> u[v]]])
      ELSE Fail(cat)

(* Disables foreign keys in the tables that declare them. *)
with_disabled(cat, refs) ==
  [n \in DOMAIN cat |->
     [cat[n] EXCEPT !.fks =
        [f \in DOMAIN cat[n].fks |->
           IF \E r \in refs : r.child = n /\ r.name = f
           THEN [cat[n].fks[f] EXCEPT !.enabled = FALSE]
           ELSE cat[n].fks[f]]]]

disable_constraint(cat, table, name, cascade) ==
  LET u == cat[table].unique
      refs == IF name \in DOMAIN u
              THEN {f \in referencing(cat, table, u[name].columns) : f.enabled}
              ELSE {}
      own == {f \in foreign_keys(cat) : f.child = table /\ f.name = name}
      off == with_disabled(cat, refs \cup own)
  IN  IF /\ table \in DOMAIN cat
         /\ \/ name \in DOMAIN u /\ ~u[name].is_index
            \/ name \in DOMAIN cat[table].fks
         /\ cascade \/ refs = {}
      THEN Done([off EXCEPT ![table] =
                   IF name \in DOMAIN u THEN set_enabled(@, name, FALSE).table ELSE @])
      ELSE Fail(cat)

(* Enabling checks the rows: a unique constraint by rebuilding its index, a  *)
(* primary key also for NULLs, a foreign key when it was off and `validate`. *)
enable_constraint(cat, table, name, validate) ==
  LET t == cat[table]
      r == set_enabled(t, name, TRUE)
      on == [cat EXCEPT ![table].fks[name].enabled = TRUE]
  IN  IF table \notin DOMAIN cat THEN Fail(cat)
      ELSE IF name \in DOMAIN t.unique
      THEN IF /\ ~t.unique[name].is_index
              /\ r.ok
              /\ t.unique[name].primary /\ ~t.unique[name].enabled =>
                   \A i \in DOMAIN t.rows :
                     \A c \in ColumnsOf(t.unique[name].columns) : t.rows[i][c] # Null
           THEN Done([cat EXCEPT ![table] = r.table])
           ELSE Fail(cat)
      ELSE IF /\ name \in DOMAIN t.fks
              /\ validate /\ ~t.fks[name].enabled =>
                   validate_foreign_key(on, table, t.fks[name])
           THEN Done(on)
           ELSE Fail(cat)

-----------------------------------------------------------------------------
(* An ALTER TABLE statement: its kind, its table, the constraint it names   *)
(* and, for ADD, its definition.  `cascade` and `validate` are the          *)
(* statement's options.                                                     *)
alter_table(cat, a) ==
  CASE a.kind = "add_unique" -> add_unique_constraint(cat, a.table, a.name, a.def)
    [] a.kind = "add_fk" ->
         add_foreign_key(cat, a.table, a.name, a.def, a.validate)
    [] a.kind = "drop" -> drop_constraint(cat, a.table, a.name, a.cascade)
    [] a.kind = "disable" -> disable_constraint(cat, a.table, a.name, a.cascade)
    [] a.kind = "enable" -> enable_constraint(cat, a.table, a.name, a.validate)
=============================================================================
