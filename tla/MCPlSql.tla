------------------------------- MODULE MCPlSql -------------------------------
(* Nested blocks, loops and calls, with and without declarations of E, and  *)
(* with handlers of every kind.                                             *)
EXTENDS PlSql

MCBlock(e, cursor, handlers) == [e |-> e, cursor |-> cursor, handlers |-> handlers]
MCBlocks ==
  {MCBlock("no", "no", <<"E">>),
   MCBlock("user", "no", << >>),
   MCBlock("init", "no", <<"E">>),
   MCBlock("user", "closed", <<"NO_DATA_FOUND", "E">>),
   MCBlock("no", "no", <<"OTHERS">>)}
MCLoops == {[label |-> None, framed |-> TRUE], [label |-> "L", framed |-> FALSE]}
=============================================================================
