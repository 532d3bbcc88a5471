----------------------------- MODULE MCConnection -----------------------------
(* One connection in depth: its server has one seed and two callers of      *)
(* stop(); cursor ids wrap after the third statement.                       *)
EXTENDS Connection
=============================================================================
