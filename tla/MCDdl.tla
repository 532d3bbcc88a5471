------------------------------- MODULE MCDdl -------------------------------
(* A parent and a child table that two sessions create, drop, truncate,     *)
(* alter and index while the other has changes to their rows in flight, and *)
(* that the embedding program snapshots and restores.                       *)
EXTENDS Transactions, TLC

MCTableName == {"c", "p"}
MCConstraintName == {"p_pk", "p_ix", "c_uk", "c_fk"}

MCUniqueDef(primary, is_index) ==
  [columns |-> <<1>>, primary |-> primary, is_index |-> is_index,
   enabled |-> TRUE]
MCFkDef(enabled) ==
  [columns |-> <<1>>, parent |-> "p", parent_columns |-> <<1>>,
   on_delete |-> "cascade", enabled |-> enabled]

MCTableP ==
  [name |-> "p", columns |-> 1, not_null |-> {}, fks |-> << >>,
   unique |-> [u \in {"p_pk"} |-> MCUniqueDef(TRUE, FALSE)]]
MCTableC ==
  [name |-> "c", columns |-> 1, not_null |-> {},
   unique |-> << >>, fks |-> [f \in {"c_fk"} |-> MCFkDef(TRUE)]]

(* What the seed script leaves: both tables, and one parent row. *)
MCEmpty == create_table(create_table(<< >>, MCTableP).cat, MCTableC).cat
MCSeed == [MCEmpty EXCEPT !["p"] = Table_insert(@, 1, <<"a">>).table]

MCRows == [n \in MCTableName |-> {<<"a">>}]
MCTableDef == {MCTableP, MCTableC}
MCIndexDef == {[table |-> "p", name |-> "p_ix", def |-> MCUniqueDef(FALSE, TRUE)]}

MCAlterOf(kind, table, name, def, cascade, validate) ==
  [kind |-> kind, table |-> table, name |-> name, def |-> def,
   cascade |-> cascade, validate |-> validate]

MCAlter ==
  {MCAlterOf("add_unique", "c", "c_uk", MCUniqueDef(FALSE, FALSE), FALSE, TRUE),
   MCAlterOf("add_unique", "p", "p_pk", MCUniqueDef(TRUE, FALSE), FALSE, TRUE),
   MCAlterOf("add_fk", "c", "c_fk", MCFkDef(TRUE), FALSE, TRUE),
   MCAlterOf("add_fk", "c", "c_fk", MCFkDef(FALSE), FALSE, TRUE),
   MCAlterOf("drop", "p", "p_pk", None, TRUE, TRUE),
   MCAlterOf("drop", "p", "p_pk", None, FALSE, TRUE),
   MCAlterOf("drop", "c", "c_fk", None, FALSE, TRUE),
   MCAlterOf("disable", "p", "p_pk", None, TRUE, TRUE),
   MCAlterOf("enable", "p", "p_pk", None, FALSE, TRUE),
   MCAlterOf("enable", "c", "c_fk", None, FALSE, TRUE),
   MCAlterOf("enable", "c", "c_fk", None, FALSE, FALSE)}

MCFkOrder == <<"c_fk">>
Symmetry == Permutations(Session)
=============================================================================
