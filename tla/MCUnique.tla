------------------------------ MODULE MCUnique ------------------------------
(* One table with a primary key and a second unique constraint, whose keys *)
(* two sessions insert, change, swap and delete.                           *)
EXTENDS Transactions, TLC

MCTableName == {"t"}
MCConstraintName == {"t_pk", "t_uk"}

MCUnique(columns, primary, index) ==
  [columns |-> columns, primary |-> primary, is_index |-> FALSE,
   enabled |-> TRUE, index |-> index]

MCSeed ==
  [t \in {"t"} |->
     [columns |-> 2, not_null |-> {},
      unique |-> [u \in MCConstraintName |->
                    IF u = "t_pk" THEN MCUnique(<<1>>, TRUE, {<<"a">>})
                    ELSE MCUnique(<<2>>, FALSE, {<<"a">>})],
      fks |-> << >>,
      rows |-> [i \in {1} |-> <<"a", "a">>]]]

MCRows == [n \in {"t"} |-> {<<"a", Null>>, <<"b", "a">>}]

(* For a block that changes a row twice without changing its primary key. *)
MCUndoRows == [n \in {"t"} |-> {<<"a", Null>>, <<"b", "b">>}]
MCFkOrder == << >>
Symmetry == Permutations(Session)
=============================================================================
