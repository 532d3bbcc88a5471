----------------------------- MODULE MCRestore -----------------------------
(* An empty table two sessions fill, in and outside PL/SQL blocks, while    *)
(* the embedding program snapshots, restores and resets the database.       *)
EXTENDS Transactions, TLC

MCTableName == {"t"}
MCConstraintName == {"t_pk"}

MCSeed ==
  [n \in MCTableName |->
     [columns |-> 1, not_null |-> {}, fks |-> << >>,
      unique |-> [u \in MCConstraintName |->
                    [columns |-> <<1>>, primary |-> TRUE, is_index |-> FALSE,
                     enabled |-> TRUE, index |-> {}]],
      rows |-> << >>]]

MCRows == [n \in MCTableName |-> {<<"b">>}]
MCFkOrder == << >>
Symmetry == Permutations(Session)
=============================================================================
