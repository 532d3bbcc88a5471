----------------------------- MODULE MCForeign -----------------------------
(* Departments, employees and badges: an employee has a department (ON      *)
(* DELETE SET NULL) and a manager (ON DELETE CASCADE, within the table), a  *)
(* badge has an employee (restrict) and a department its NOT NULL column     *)
(* may not lose (SET NULL).  No two employees share manager and department, *)
(* which a SET NULL can violate.                                            *)
EXTENDS Transactions

MCTableName == {"badge", "dept", "emp"}
MCConstraintName ==
  {"dept_pk", "emp_pk", "emp_uk", "badge_pk",
   "emp_dept", "emp_mgr", "badge_dept", "badge_emp"}

MCUnique(columns, primary, index) ==
  [columns |-> columns, primary |-> primary, is_index |-> FALSE,
   enabled |-> TRUE, index |-> index]

MCFk(columns, parent, on_delete) ==
  [columns |-> columns, parent |-> parent, parent_columns |-> <<1>>,
   on_delete |-> on_delete, enabled |-> TRUE]

MCDept ==
  [columns |-> 1, not_null |-> {}, fks |-> << >>,
   unique |-> [u \in {"dept_pk"} |-> MCUnique(<<1>>, TRUE, {<<"a">>, <<"b">>})],
   rows |-> [i \in {1, 2} |-> IF i = 1 THEN <<"a">> ELSE <<"b">>]]

MCEmp ==
  [columns |-> 3, not_null |-> {},
   unique |-> [u \in {"emp_pk", "emp_uk"} |->
                 IF u = "emp_pk" THEN MCUnique(<<1>>, TRUE, {<<"a">>, <<"b">>})
                 ELSE MCUnique(<<2, 3>>, FALSE, {<<Null, "a">>, <<"a", "a">>})],
   fks |-> [f \in {"emp_dept", "emp_mgr"} |->
              IF f = "emp_dept" THEN MCFk(<<3>>, "dept", "set_null")
              ELSE MCFk(<<2>>, "emp", "cascade")],
   rows |-> [i \in {3, 4} |->
               IF i = 3 THEN <<"a", Null, "a">> ELSE <<"b", "a", "a">>]]

MCBadge ==
  [columns |-> 2, not_null |-> {2},
   unique |-> [u \in {"badge_pk"} |-> MCUnique(<<1>>, TRUE, {})],
   fks |-> [f \in {"badge_dept", "badge_emp"} |->
              IF f = "badge_dept" THEN MCFk(<<2>>, "dept", "set_null")
              ELSE MCFk(<<1>>, "emp", "restrict")],
   rows |-> << >>]

MCSeed ==
  [n \in MCTableName |->
     CASE n = "dept" -> MCDept [] n = "emp" -> MCEmp [] n = "badge" -> MCBadge]

MCRows ==
  [n \in MCTableName |->
     CASE n = "dept" -> {<<"a">>, <<"b">>}
       [] n = "emp" -> {<<"a", "b", "a">>, <<"b", "b", "b">>}
       [] n = "badge" -> {<<"b", "b">>}]

(* The order of the tables' names, then of the constraints of a table. *)
MCFkOrder == <<"badge_dept", "badge_emp", "emp_dept", "emp_mgr">>
=============================================================================
