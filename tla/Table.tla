------------------------------- MODULE Table -------------------------------
(***************************************************************************)
(* One in-memory table (catalog.rs): its rows by row id and the unique     *)
(* constraints and foreign keys declared on it.  The operators are the     *)
(* methods of `Table`; each one takes a table and returns the table it     *)
(* leaves behind, wrapped as [ok, table] where the method returns a        *)
(* Result.                                                                 *)
(*                                                                         *)
(* Data.  A row is a sequence of cells.  A key is the tuple of the cells   *)
(* of a column list, and an Option<key> is a set of at most one key, so    *)
(* index maintenance is set algebra.  An index is the set of its keys: the *)
(* row ids it maps them to are written by the code and never read.         *)
(***************************************************************************)
EXTENDS Naturals, Sequences

CONSTANTS Value, Null

ASSUME NullAssumption == Null \notin Value

Cell == Value \cup {Null}
Row == Seq(Cell)
Column == Nat \ {0}
Key == Seq(Cell)

(* A PRIMARY KEY, a UNIQUE constraint or (is_index) a unique index. *)
Unique == [columns: Seq(Column), primary: BOOLEAN, is_index: BOOLEAN,
           enabled: BOOLEAN, index: SUBSET Key]

(* The key a unique constraint files a row under; none when all cells are NULL. *)
unique_key(columns, values) ==
  IF \A i \in DOMAIN columns : values[columns[i]] = Null
  THEN {}
  ELSE {[i \in DOMAIN columns |-> values[columns[i]]]}

(* The key a foreign key looks up in its parent; none when any cell is NULL. *)
foreign_key(columns, values) ==
  IF \E i \in DOMAIN columns : values[columns[i]] = Null
  THEN {}
  ELSE {[i \in DOMAIN columns |-> values[columns[i]]]}

-----------------------------------------------------------------------------
(* The names of the unique constraints that are enforced. *)
Enforced(t) == {u \in DOMAIN t.unique : t.unique[u].enabled}

KeyOf(t, u, values) == unique_key(t.unique[u].columns, values)

(* Rewrites the index of every enforced constraint u to new[u]. *)
Reindex(t, new) ==
  [u \in DOMAIN t.unique |->
     IF t.unique[u].enabled THEN [t.unique[u] EXCEPT !.index = new[u]]
     ELSE t.unique[u]]

(* Mutant: the row is stored whatever keys others hold. *)
InsertUnchecked(t, id, values) ==
  [ok |-> TRUE,
   table |->
     [t EXCEPT
        !.rows = [i \in DOMAIN t.rows \cup {id} |->
                    IF i = id THEN values ELSE t.rows[i]],
        !.unique = Reindex(t, [u \in DOMAIN t.unique |->
                     t.unique[u].index \cup KeyOf(t, u, values)])]]

Table_insert(t, id, values) ==
  IF \E u \in Enforced(t) : KeyOf(t, u, values) \cap t.unique[u].index # {}
  THEN [ok |-> FALSE, table |-> t]
  ELSE [ok |-> TRUE,
        table |->
          [t EXCEPT
             !.rows = [i \in DOMAIN t.rows \cup {id} |->
                         IF i = id THEN values ELSE t.rows[i]],
             !.unique = Reindex(t, [u \in DOMAIN t.unique |->
                          t.unique[u].index \cup KeyOf(t, u, values)])]]

(* Mutant: the rows go, their keys stay in the indexes. *)
DeleteWithoutUnindex(t, ids) ==
  [t EXCEPT !.rows = [i \in DOMAIN t.rows \ ids |-> t.rows[i]]]

(* Removes several rows, one `delete` each: deletions of different rows *)
(* commute, and ids that are not there are skipped.                     *)
Table_delete(t, ids) ==
  LET gone == ids \cap DOMAIN t.rows
  IN  [t EXCEPT
         !.rows = [i \in DOMAIN t.rows \ gone |-> t.rows[i]],
         !.unique = Reindex(t, [u \in DOMAIN t.unique |->
                      t.unique[u].index
                        \ UNION {KeyOf(t, u, t.rows[i]) : i \in gone}])]

-----------------------------------------------------------------------------
(* `update` takes a batch: a sequence of [id, values].  Entries of rows *)
(* that no longer exist are skipped.                                    *)
Live(t, batch) == {i \in DOMAIN batch : batch[i].id \in DOMAIN t.rows}

(* Mutant: the keys of the new values are taken out. *)
UnindexNewValues(t, u, batch) ==
  UNION {KeyOf(t, u, batch[i].values) : i \in Live(t, batch)}

OldKeys(t, u, batch) ==
  UNION {KeyOf(t, u, t.rows[batch[i].id]) : i \in Live(t, batch)}

NewKeys(t, u, batch) ==
  UNION {KeyOf(t, u, batch[i].values) : i \in Live(t, batch)}

(* Mutant: keys given out twice within the batch go unnoticed. *)
ConflictOutsideBatch(t, batch) ==
  \E u \in Enforced(t) :
    NewKeys(t, u, batch) \cap (t.unique[u].index \ OldKeys(t, u, batch)) # {}

(* Some new key is held by a row outside the batch, or given out twice. *)
Conflict(t, batch) ==
  \E u \in Enforced(t) : \E i \in Live(t, batch) :
    \/ KeyOf(t, u, batch[i].values)
         \cap (t.unique[u].index \ OldKeys(t, u, batch)) # {}
    \/ \E j \in Live(t, batch) :
         /\ j < i
         /\ KeyOf(t, u, batch[i].values) \cap KeyOf(t, u, batch[j].values) # {}

(* The entries whose values are the last ones written to row id. *)
LastFor(t, batch, id) ==
  {i \in Live(t, batch) :
     /\ batch[i].id = id
     /\ \A j \in Live(t, batch) : batch[j].id = id => j <= i}

Table_update(t, batch) ==
  IF Conflict(t, batch)
  THEN [ok |-> FALSE,
        table |-> [t EXCEPT !.unique = Reindex(t, [u \in DOMAIN t.unique |->
                     (t.unique[u].index \ OldKeys(t, u, batch))
                       \cup OldKeys(t, u, batch)])]]
  ELSE [ok |-> TRUE,
        table |->
          [t EXCEPT
             !.rows = [id \in DOMAIN t.rows |->
                         IF LastFor(t, batch, id) = {} THEN t.rows[id]
                         ELSE batch[CHOOSE i \in LastFor(t, batch, id) : TRUE].values],
             !.unique = Reindex(t, [u \in DOMAIN t.unique |->
                          (t.unique[u].index \ OldKeys(t, u, batch))
                            \cup NewKeys(t, u, batch)])]]

-----------------------------------------------------------------------------
(* Mutant: the indexes are not cleared. *)
TruncateRowsOnly(t) == [t EXCEPT !.rows = << >>]

truncate(t) ==
  [t EXCEPT !.rows = << >>,
            !.unique = [u \in DOMAIN t.unique |->
                          [t.unique[u] EXCEPT !.index = {}]]]

(* Mutant: duplicates are merged instead of refused. *)
BuildIndexMerging(t, columns) ==
  [ok |-> TRUE,
   index |-> UNION {unique_key(columns, t.rows[i]) : i \in DOMAIN t.rows}]

(* Rebuilding an index succeeds when no two rows share a key. *)
build_index(t, columns) ==
  [ok |-> \A i, j \in DOMAIN t.rows :
            i # j => unique_key(columns, t.rows[i])
                       \cap unique_key(columns, t.rows[j]) = {},
   index |-> UNION {unique_key(columns, t.rows[i]) : i \in DOMAIN t.rows}]

add_unique(t, name, def, enabled) ==
  LET built == build_index(t, def.columns)
  IN  [ok |-> enabled => built.ok,
       table |->
         [t EXCEPT !.unique =
            [u \in DOMAIN t.unique \cup {name} |->
               IF u # name THEN t.unique[u]
               ELSE [columns |-> def.columns, primary |-> def.primary,
                     is_index |-> def.is_index, enabled |-> enabled,
                     index |-> IF enabled THEN built.index ELSE {}]]]]

(* Turns a unique constraint on, rebuilding its index, or off, emptying it. *)
set_enabled(t, name, enabled) ==
  LET built == build_index(t, t.unique[name].columns)
  IN  [ok |-> enabled => built.ok,
       table |-> [t EXCEPT !.unique[name] =
                    [@ EXCEPT !.enabled = enabled,
                              !.index = IF enabled THEN built.index ELSE {}]]]

(* Whether some row holds key in columns: through the index of an enforced *)
(* constraint over exactly those columns, otherwise by scanning the rows.  *)
has_key(t, columns, key) ==
  LET by == {u \in Enforced(t) : t.unique[u].columns = columns}
  IN  IF by # {} THEN \E u \in by : key \in t.unique[u].index
      ELSE \E i \in DOMAIN t.rows : key \in unique_key(columns, t.rows[i])

(* Primary key columns are NOT NULL while the key is enabled. *)
primary_columns(t) ==
  UNION {{t.unique[u].columns[i] : i \in DOMAIN t.unique[u].columns} :
         u \in {v \in Enforced(t) : t.unique[v].primary}}

(* NOT NULL and primary key columns of a full row. *)
check_row(t, values) ==
  \A c \in (t.not_null \cup primary_columns(t)) \cap DOMAIN values :
    values[c] # Null

-----------------------------------------------------------------------------
(* What makes a table sound: the index of an enforced constraint holds every *)
(* row's key, and no two rows share one.                                     *)
UniqueHolds(t) ==
  \A u \in Enforced(t) :
    \A i, j \in DOMAIN t.rows :
      i # j => KeyOf(t, u, t.rows[i]) \cap KeyOf(t, u, t.rows[j]) = {}

IndexCovers(t) ==
  \A u \in Enforced(t) :
    \A i \in DOMAIN t.rows : KeyOf(t, u, t.rows[i]) \subseteq t.unique[u].index

(* The index holds nothing but the rows' keys. *)
IndexExact(t) ==
  \A u \in DOMAIN t.unique :
    t.unique[u].index =
      IF t.unique[u].enabled
      THEN UNION {KeyOf(t, u, t.rows[i]) : i \in DOMAIN t.rows}
      ELSE {}
=============================================================================
