----------------------------- MODULE MCNumbering -----------------------------
(* Two sessions and one thread that snapshots and restores, over sequences  *)
(* that count up, down, and around.                                         *)
EXTENDS Numbering, TLC

MCOption(start, increment, min, max, cycle, restart) ==
  [start |-> start, increment |-> increment, min |-> min, max |-> max,
   nomin |-> FALSE, nomax |-> FALSE, cycle |-> cycle,
   restart |-> restart, at |-> None]

MCOptions ==
  {MCOption(None, None, None, None, None, FALSE),
   MCOption(None, -1, -2, None, TRUE, TRUE)}

MCExprs ==
  {[insert |-> TRUE, refs |-> <<"curr", "next", "sub", "next">>],
   [insert |-> FALSE, refs |-> <<"curr">>]}
MCMinDefault == -5
Symmetry == Permutations(Session)
=============================================================================
