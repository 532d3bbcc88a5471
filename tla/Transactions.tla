---------------------------- MODULE Transactions ----------------------------
(***************************************************************************)
(* Sessions that share one Database (lib.rs, session.rs): every session    *)
(* runs statements against a private working copy of the catalog, logs     *)
(* each change, and publishes the copy, or replays the log, at COMMIT.     *)
(*                                                                         *)
(* Steps.  A statement that only touches its session's own copy is split   *)
(* at the calls that change it (one row inserted, one foreign key          *)
(* enforced, one log entry undone or replayed), because sessions run on    *)
(* different threads and these are the points where they interleave.  A    *)
(* replaying COMMIT holds the write lock, so nobody reads the committed    *)
(* catalog until it is done.                                               *)
(*                                                                         *)
(* Data.  `commits`, the count of commits and rollbacks, is only ever      *)
(* compared with its value at a savepoint, so a savepoint records whether  *)
(* it changed since.  A statement that fails before it changes anything    *)
(* (unknown table or column, bad value, CHECK violated) is a stuttering    *)
(* step and not an action.                                                 *)
(***************************************************************************)
EXTENDS Ddl

CONSTANTS
  Session,
  None,          (* no transaction, no savepoint, no lock holder            *)
  Seed,          (* the catalog the seed script left                        *)
  FirstRowId,    (* the first row id the seed script did not use            *)
  FkOrder,       (* the foreign keys in the order enforce_ visits them      *)
  Statement,     (* the kinds of statement the sessions run                 *)
  Rows,          (* the rows a statement may write, by table                *)
  TableDef,      (* the tables a CREATE TABLE may define                    *)
  IndexDef,      (* the unique indexes a CREATE INDEX may define            *)
  Alter,         (* the ALTER TABLE statements                              *)
  MaxRows,       (* bound: rows one statement writes                        *)
  MaxRowId,      (* bound: row ids handed out before an INSERT starts       *)
  MaxLog,        (* bound: logged changes before a statement starts         *)
  MaxVersion     (* bound: versions of the committed catalog                *)

VARIABLES
  tables,        (* Database.state: the committed tables ...                *)
  version,       (* ... and their version                                   *)
  lock,          (* the session that holds the write lock over its replay   *)
  next_row_id,   (* Database.next_row_id                                    *)
  snapshot,      (* the catalog of the last Database::snapshot              *)
  txn,           (* Session.txn                                             *)
  pc,            (* where each session is in its statement                  *)
  frame,         (* the locals of that statement                            *)
  savepoint,     (* the savepoint of the PL/SQL block a session runs        *)
  draft          (* the copy an ALTER TABLE works on                        *)

shared == <<tables, version, lock, next_row_id, snapshot>>
vars == <<tables, version, lock, next_row_id, snapshot,
          txn, pc, frame, savepoint, draft>>

-----------------------------------------------------------------------------
(* Types *)
IsCatalog(cat) ==
  DOMAIN cat \subseteq TableName /\ \A n \in DOMAIN cat : IsTable(cat[n])

IsTxn(x) ==
  /\ DOMAIN x = {"base_version", "work", "log"}
  /\ x.base_version \in Nat
  /\ IsCatalog(x.work)
  /\ x.log \in Seq(Change)

(* Locals: `saved` is the log length the statement would be undone to,    *)
(* `table` and `rows` what is left to insert, `start`, `end` and `fk` the *)
(* round of enforce_foreign_keys, `next` and `k` the catalog a COMMIT     *)
(* replays onto and its place in the log, `after` what follows a COMMIT,  *)
(* `origin` (history) what the session saw when the statement started.    *)
Idle == [saved |-> 0, table |-> None, rows |-> << >>, start |-> 0, end |-> 0,
         fk |-> 1, next |-> << >>, k |-> 1, after |-> "ready", origin |-> << >>]

IsFrame(f) ==
  /\ DOMAIN f = DOMAIN Idle
  /\ f.saved \in Nat /\ f.start \in Nat /\ f.end \in Nat
  /\ f.fk \in Nat \ {0} /\ f.k \in Nat \ {0}
  /\ f.rows \in Seq(Row)
  /\ f.after \in {"ready", "ddl"}

(* `changes` is the length of the log at the savepoint, `origin` (history)  *)
(* what the session saw then.                                               *)
IsSavepoint(sp) ==
  /\ DOMAIN sp = {"changes", "committed", "origin"}
  /\ sp.changes \in Nat /\ sp.committed \in BOOLEAN

Steps == {"ready", "inserting", "parents", "children", "undoing", "replaying",
          "ddl", "altering"}

(* What a session can be given: a seed script's catalog, rows and          *)
(* definitions of the right shape.                                         *)
ASSUME SessionAssumption == None \notin Session

ASSUME SeedAssumption ==
  /\ IsCatalog(Seed)
  /\ \A n \in DOMAIN Seed : UniqueHolds(Seed[n]) /\ IndexCovers(Seed[n])
  /\ FirstRowId \in Nat
  /\ \A n \in DOMAIN Seed : \A i \in DOMAIN Seed[n].rows : i < FirstRowId
  /\ \A f \in foreign_keys(Seed) :
       /\ f.parent \in DOMAIN Seed
       /\ has_referenced_key(Seed[f.parent], f.parent_columns)

ASSUME InputAssumption ==
  /\ MaxRows \in Nat
  /\ \A n \in TableName : Rows[n] \subseteq Row

ASSUME DefinitionAssumption ==
  /\ \A d \in TableDef : IsTableDef(d)
  /\ \A i \in IndexDef : i.table \in TableName /\ i.name \in ConstraintName
                           /\ IsUniqueDef(i.def)
  /\ \A a \in Alter : IsAlter(a)

-----------------------------------------------------------------------------
Init ==
  /\ tables = Seed
  /\ version = 0
  /\ lock = None
  /\ next_row_id = FirstRowId
  /\ snapshot = None
  /\ txn = [s \in Session |-> None]
  /\ pc = [s \in Session |-> "ready"]
  /\ frame = [s \in Session |-> Idle]
  /\ savepoint = [s \in Session |-> None]
  /\ draft = [s \in Session |-> None]

-----------------------------------------------------------------------------
(* The transaction a DML statement runs in; opening one reads the committed *)
(* catalog, which waits for a COMMIT that is replaying.                     *)
get_or_insert_txn(s) ==
  IF txn[s] # None THEN txn[s]
  ELSE [base_version |-> version, work |-> tables, log |-> << >>]

CanRead(s) == txn[s] # None \/ lock = None

Goto(s, where) == pc' = [pc EXCEPT ![s] = where]

(* The end of a statement: without changes there is no transaction. *)
Settle(x) == IF x.log = << >> THEN None ELSE x

(* The strictly increasing sequences of at most MaxRows row ids of S. *)
IdSeqs(S) ==
  {q \in UNION {[1..n -> S] : n \in 1..MaxRows} :
     \A i, j \in DOMAIN q : i < j => q[i] < q[j]}

StartDml(s, kind) ==
  /\ kind \in Statement
  /\ pc[s] = "ready"
  /\ CanRead(s)
  /\ Len(get_or_insert_txn(s).log) < MaxLog

(* Where a statement goes once its own changes are made (to its end when   *)
(* no foreign key is enabled), and where it goes when it fails.            *)
Enforce(s, x, saved, origin) ==
  LET fks == {f \in foreign_keys(x.work) : f.enabled}
  IN  /\ txn' = [txn EXCEPT ![s] = x]
      /\ frame' = [frame EXCEPT ![s] =
                     IF fks = {} THEN Idle
                     ELSE [Idle EXCEPT !.saved = saved, !.start = saved,
                                       !.end = Len(x.log), !.origin = origin]]
      /\ Goto(s, IF fks = {} THEN "ready" ELSE "parents")

Undo(s, x, saved, origin) ==
  /\ txn' = [txn EXCEPT ![s] = x]
  /\ frame' = [frame EXCEPT ![s] = [Idle EXCEPT !.saved = saved, !.origin = origin]]
  /\ Goto(s, "undoing")

(* A transaction after one more change, or several, to table n. *)
Logged(x, n, t, changes) ==
  [x EXCEPT !.work = [x.work EXCEPT ![n] = t], !.log = x.log \o changes]

-----------------------------------------------------------------------------
(* INSERT: the rows are built and checked first, then stored one by one,   *)
(* each under a fresh row id.                                              *)
Insert(s, n, rows) ==
  LET x == get_or_insert_txn(s)
  IN  /\ StartDml(s, "insert")
      /\ next_row_id <= MaxRowId
      /\ n \in DOMAIN x.work
      /\ \A i \in DOMAIN rows :
           Len(rows[i]) = x.work[n].columns /\ check_row(x.work[n], rows[i])
      /\ txn' = [txn EXCEPT ![s] = x]
      /\ frame' = [frame EXCEPT ![s] =
                     [Idle EXCEPT !.saved = Len(x.log), !.table = n,
                                  !.rows = rows, !.origin = x.work]]
      /\ Goto(s, "inserting")
      /\ UNCHANGED <<shared, savepoint, draft>>

PeekRowId == UNCHANGED next_row_id     (* Mutant: read, not advanced *)

next_row_id_fetch_add == next_row_id' = next_row_id + 1

InsertRow(s) ==
  LET x == txn[s]
      n == frame[s].table
      values == Head(frame[s].rows)
      r == Table_insert(x.work[n], next_row_id, values)
      y == Logged(x, n, r.table, <<Inserted(n, next_row_id, values)>>)
  IN  /\ pc[s] = "inserting"
      /\ next_row_id_fetch_add
      /\ IF ~r.ok THEN Undo(s, x, frame[s].saved, frame[s].origin)
         ELSE IF Tail(frame[s].rows) = << >>
         THEN Enforce(s, y, frame[s].saved, frame[s].origin)
         ELSE /\ txn' = [txn EXCEPT ![s] = y]
              /\ frame' = [frame EXCEPT ![s].rows = Tail(@)]
              /\ UNCHANGED pc
      /\ UNCHANGED <<tables, version, lock, snapshot, savepoint, draft>>

(* UPDATE: all rows change at once; a unique violation changes none. *)
Update(s, n, ids, new) ==
  LET x == get_or_insert_txn(s)
      t == x.work[n]
      batch == [i \in DOMAIN ids |-> [id |-> ids[i], values |-> new[i]]]
      r == Table_update(t, batch)
      changes == [i \in DOMAIN ids |->
                    Updated(n, ids[i], new[i], t.rows[ids[i]])]
      y == Logged(x, n, r.table, changes)
  IN  /\ StartDml(s, "update")
      /\ n \in DOMAIN x.work
      /\ ids \in IdSeqs(DOMAIN t.rows)
      /\ DOMAIN new = DOMAIN ids
      /\ \A i \in DOMAIN new : Len(new[i]) = t.columns /\ check_row(t, new[i])
      /\ IF r.ok THEN Enforce(s, y, Len(x.log), x.work)
         ELSE Undo(s, [x EXCEPT !.work = [x.work EXCEPT ![n] = r.table]],
                   Len(x.log), x.work)
      /\ UNCHANGED <<shared, savepoint, draft>>

Delete(s, n, ids) ==
  LET x == get_or_insert_txn(s)
      t == x.work[n]
      changes == [i \in DOMAIN ids |-> Deleted(n, ids[i], t.rows[ids[i]])]
      gone == {ids[i] : i \in DOMAIN ids}
  IN  /\ StartDml(s, "delete")
      /\ n \in DOMAIN x.work
      /\ ids \in IdSeqs(DOMAIN t.rows)
      /\ Enforce(s, Logged(x, n, Table_delete(t, gone), changes), Len(x.log), x.work)
      /\ UNCHANGED <<shared, savepoint, draft>>

-----------------------------------------------------------------------------
(* enforce_foreign_keys.  The changes of the current round. *)
RoundChanges(s) ==
  {txn[s].log[i] : i \in (frame[s].start + 1)..frame[s].end}

NextForeignKey(s) ==
  /\ frame' = [frame EXCEPT ![s].fk = @ + 1]
  /\ UNCHANGED pc

(* One foreign key of a round: removed parent keys that child rows still   *)
(* reference fail the statement, or cascade.                               *)
EnforceParent(s, f) ==
  LET x == txn[s]
      deleted == deleted_keys(x.work, f, RoundChanges(s))
      updated == updated_keys(x.work, f, RoundChanges(s))
      hits == children(x.work, f, deleted)
      child == x.work[f.child]
      fails == \/ children(x.work, f, updated) # {}
               \/ hits # {} /\ f.on_delete = "restrict"
               \/ hits # {} /\ f.on_delete = "set_null" /\ ~may_set_null(x.work, f)
  IN  \/ /\ fails
         /\ Undo(s, x, frame[s].saved, frame[s].origin)
      \/ /\ ~fails /\ hits = {}
         /\ NextForeignKey(s)
         /\ UNCHANGED txn
      \/ /\ ~fails
         /\ \E ids \in [1..Cardinality(hits) -> hits] :
              LET old(i) == child.rows[ids[i]]
                  batch == [i \in DOMAIN ids |->
                              [id |-> ids[i], values |-> nulled(f, old(i))]]
                  r == Table_update(child, batch)
                  cascaded == [i \in DOMAIN ids |-> Deleted(f.child, ids[i], old(i))]
                  cleared == [i \in DOMAIN ids |->
                                Updated(f.child, ids[i], batch[i].values, old(i))]
              IN  /\ hits # {}
                  /\ \A i, j \in DOMAIN ids : i < j => ids[i] < ids[j]
                  /\ \/ /\ f.on_delete = "cascade"
                        /\ txn' = [txn EXCEPT ![s] =
                             Logged(x, f.child, Table_delete(child, hits), cascaded)]
                        /\ NextForeignKey(s)
                     \/ /\ f.on_delete = "set_null" /\ r.ok
                        /\ txn' = [txn EXCEPT ![s] =
                             Logged(x, f.child, r.table, cleared)]
                        /\ NextForeignKey(s)
                     \/ /\ f.on_delete = "set_null" /\ ~r.ok
                        /\ Undo(s, Logged(x, f.child, r.table, << >>),
                                frame[s].saved, frame[s].origin)

AlwaysAnotherRound(s) == TRUE          (* Mutant: the rounds never stop *)

(* Whether the round that ends logged changes for another one. *)
AnotherRound(s) == frame[s].end < Len(txn[s].log)

(* The rounds: every enabled foreign key in turn, then again over what the *)
(* round logged, until a round logs nothing.                               *)
Parents(s) ==
  LET x == txn[s]
      fk == frame[s].fk
      visited == {f \in foreign_keys(x.work) : f.enabled /\ f.name = FkOrder[fk]}
  IN  /\ pc[s] = "parents"
      /\ \/ /\ fk <= Len(FkOrder) /\ visited = {}
            /\ NextForeignKey(s)
            /\ UNCHANGED txn
         \/ /\ fk <= Len(FkOrder)
            /\ \E f \in visited : EnforceParent(s, f)
         \/ /\ fk > Len(FkOrder) /\ AnotherRound(s)
            /\ frame' = [frame EXCEPT ![s].start = frame[s].end,
                                      ![s].end = Len(x.log), ![s].fk = 1]
            /\ UNCHANGED <<txn, pc>>
         \/ /\ fk > Len(FkOrder) /\ ~AnotherRound(s)
            /\ Goto(s, "children")
            /\ UNCHANGED <<txn, frame>>
      /\ UNCHANGED <<shared, savepoint, draft>>

(* The child side, and the end of a successful statement. *)
Children(s) ==
  LET x == txn[s]
      changes == {x.log[i] : i \in (frame[s].saved + 1)..Len(x.log)}
  IN  /\ pc[s] = "children"
      /\ IF children_have_parents(x.work, changes)
         THEN /\ txn' = [txn EXCEPT ![s] = Settle(x)]
              /\ frame' = [frame EXCEPT ![s] = Idle]
              /\ Goto(s, "ready")
         ELSE Undo(s, x, frame[s].saved, frame[s].origin)
      /\ UNCHANGED <<shared, savepoint, draft>>

-----------------------------------------------------------------------------
(* undo: reverts the log down to `saved` entries, newest first, and ends a *)
(* failed statement or block.                                              *)
UndoStep(s) ==
  LET x == txn[s]
      last == Len(x.log)
  IN  /\ pc[s] = "undoing"
      /\ last > frame[s].saved
      /\ \E m \in 1..(last - frame[s].saved) :
           /\ undo_run(x.log, frame[s].saved, m)
           /\ txn' = [txn EXCEPT ![s] =
                [x EXCEPT !.work = undo_change(x.work, x.log, m),
                          !.log = SubSeq(x.log, 1, last - m)]]
      /\ UNCHANGED <<shared, pc, frame, savepoint, draft>>

UndoDone(s) ==
  /\ pc[s] = "undoing"
  /\ Len(txn[s].log) <= frame[s].saved
  /\ txn' = [txn EXCEPT ![s] = Settle(@)]
  /\ frame' = [frame EXCEPT ![s] = Idle]
  /\ Goto(s, "ready")
  /\ UNCHANGED <<shared, savepoint, draft>>

-----------------------------------------------------------------------------
(* A PL/SQL block is one statement: a savepoint, the statements it runs,   *)
(* and, if an exception leaves it, rollback_to the savepoint.  An          *)
(* exception of one of its statements that the block handles is the next   *)
(* statement of the block.                                                 *)
BeginBlock(s) ==
  /\ "block" \in Statement
  /\ pc[s] = "ready" /\ savepoint[s] = None
  /\ CanRead(s)
  /\ savepoint' = [savepoint EXCEPT ![s] =
       [changes |-> Len(get_or_insert_txn(s).log), committed |-> FALSE,
        origin |-> get_or_insert_txn(s).work]]
  /\ UNCHANGED <<shared, txn, pc, frame, draft>>

EndBlock(s) ==
  /\ pc[s] = "ready" /\ savepoint[s] # None
  /\ savepoint' = [savepoint EXCEPT ![s] = None]
  /\ UNCHANGED <<shared, txn, pc, frame, draft>>

(* How many changes rollback_to keeps.  Changes committed since the        *)
(* savepoint are not in the log any more; those after the last commit are  *)
(* all undone.                                                             *)
KeepAsMarked(sp) == sp.changes         (* Mutant: commits are not counted *)

Kept(sp) == IF sp.committed THEN 0 ELSE sp.changes

FailBlock(s) ==
  LET sp == savepoint[s]
      keep == IF Kept(sp) <= Len(txn[s].log) THEN Kept(sp) ELSE Len(txn[s].log)
  IN  /\ pc[s] = "ready" /\ sp # None
      /\ savepoint' = [savepoint EXCEPT ![s] = None]
      /\ IF txn[s] = None THEN UNCHANGED <<txn, frame, pc>>
         ELSE Undo(s, txn[s], keep, sp.origin)
      /\ UNCHANGED <<shared, draft>>

(* COMMIT and ROLLBACK count in `commits`. *)
CountCommit(s) ==
  savepoint' = [savepoint EXCEPT ![s] =
                  IF @ = None THEN None ELSE [@ EXCEPT !.committed = TRUE]]

(* ROLLBACK, and the end of a session. *)
Rollback(s) ==
  /\ "rollback" \in Statement
  /\ pc[s] = "ready"
  /\ txn' = [txn EXCEPT ![s] = None]
  /\ CountCommit(s)
  /\ UNCHANGED <<shared, pc, frame, draft>>

-----------------------------------------------------------------------------
(* The sessions that may yet publish a version. *)
Publishing == {s \in Session : pc[s] \in {"replaying", "ddl", "altering"}}

VersionsLeft(n) == version + Cardinality(Publishing) + n <= MaxVersion

(* Mutant: the version stays. *)
PublishUnnoticed(cat) == tables' = cat /\ UNCHANGED version

Publish(cat) == tables' = cat /\ version' = version + 1

(* Nobody published anything since the transaction started. *)
AlwaysCurrent(x) == TRUE               (* Mutant: whatever happened meanwhile *)

IsCurrent(x) == x.base_version = version

(* COMMIT, alone or before DDL.  If nobody committed since the transaction *)
(* started its copy becomes the committed catalog; otherwise its changes   *)
(* are replayed onto the newer one, under the write lock.                  *)
Commit(s, after) ==
  LET x == txn[s]
  IN  /\ pc[s] = "ready"
      /\ after = "ready" => "commit" \in Statement
      /\ after = "ddl" => "ddl" \in Statement
      /\ VersionsLeft(IF after = "ddl" THEN 2 ELSE 1)
      /\ CountCommit(s)
      /\ \/ /\ x = None
            /\ Goto(s, after)
            /\ UNCHANGED <<shared, txn, frame>>
         \/ /\ x # None /\ lock = None /\ IsCurrent(x)
            /\ Publish(x.work)
            /\ txn' = [txn EXCEPT ![s] = None]
            /\ Goto(s, after)
            /\ UNCHANGED <<lock, next_row_id, snapshot, frame>>
         \/ /\ x # None /\ lock = None /\ ~IsCurrent(x)
            /\ lock' = s
            /\ frame' = [frame EXCEPT ![s] =
                           [Idle EXCEPT !.next = tables, !.after = after]]
            /\ Goto(s, "replaying")
            /\ UNCHANGED <<tables, version, next_row_id, snapshot, txn>>
      /\ UNCHANGED draft

HoldLock == UNCHANGED lock             (* Mutant: the lock is never given up *)

Unlock == lock' = None

(* A unique violation ends the COMMIT: the committed catalog is as it was, *)
(* the transaction is gone, and a DDL statement that was to follow is not  *)
(* run.                                                                    *)
Replay(s) ==
  LET x == txn[s]
      r == replay_change(frame[s].next, x.log[frame[s].k])
  IN  /\ pc[s] = "replaying"
      /\ frame[s].k <= Len(x.log)
      /\ IF r.ok
         THEN /\ frame' = [frame EXCEPT ![s].next = r.cat, ![s].k = @ + 1]
              /\ UNCHANGED <<lock, txn, pc>>
         ELSE /\ frame' = [frame EXCEPT ![s] = Idle]
              /\ Unlock
              /\ txn' = [txn EXCEPT ![s] = None]
              /\ Goto(s, "ready")
      /\ UNCHANGED <<tables, version, next_row_id, snapshot, savepoint, draft>>

ReplayDone(s) ==
  /\ pc[s] = "replaying"
  /\ frame[s].k > Len(txn[s].log)
  /\ Publish(frame[s].next)
  /\ Unlock
  /\ txn' = [txn EXCEPT ![s] = None]
  /\ Goto(s, frame[s].after)
  /\ frame' = [frame EXCEPT ![s] = Idle]
  /\ UNCHANGED <<next_row_id, snapshot, savepoint, draft>>

-----------------------------------------------------------------------------
(* DDL changes the committed catalog directly, under the write lock. *)
RunDdl(s, r) ==
  /\ pc[s] = "ddl" /\ lock = None
  /\ IF r.ok THEN Publish(r.cat) ELSE UNCHANGED <<tables, version>>
  /\ Goto(s, "ready")
  /\ UNCHANGED <<lock, next_row_id, snapshot, txn, frame, savepoint, draft>>

CreateTable(s) == \E def \in TableDef : RunDdl(s, create_table(tables, def))

DropTable(s) ==
  \E n \in TableName, cascade \in BOOLEAN : RunDdl(s, drop_table(tables, n, cascade))

Truncate(s) == \E n \in TableName : RunDdl(s, truncate_table(tables, n))

CreateIndex(s) ==
  \E i \in IndexDef :
    RunDdl(s, add_unique_constraint(tables, i.table, i.name, i.def))

DropIndex(s) ==
  \E i \in IndexDef : RunDdl(s, drop_index(tables, i.table, i.name))

(* Non-unique indexes, sequences and routines: the tables stay. *)
OtherDdl(s) == RunDdl(s, Done(tables))

(* ALTER TABLE works on a copy without the lock and tries again from the   *)
(* newer catalog if someone published one meanwhile.                       *)
AlterCopy(s, a) ==
  LET r == alter_table(tables, a)
  IN  /\ lock = None
      /\ IF r.ok
         THEN /\ draft' = [draft EXCEPT ![s] =
                             [action |-> a, cat |-> r.cat, version |-> version]]
              /\ Goto(s, "altering")
         ELSE draft' = [draft EXCEPT ![s] = None] /\ Goto(s, "ready")
      /\ UNCHANGED <<shared, txn, frame, savepoint>>

AlterTable(s) == pc[s] = "ddl" /\ \E a \in Alter : AlterCopy(s, a)

DraftAlwaysCurrent(s) == TRUE          (* Mutant: installed regardless *)

DraftIsCurrent(s) == version = draft[s].version

AlterInstall(s) ==
  /\ pc[s] = "altering" /\ lock = None
  /\ DraftIsCurrent(s)
  /\ Publish(draft[s].cat)
  /\ draft' = [draft EXCEPT ![s] = None]
  /\ Goto(s, "ready")
  /\ UNCHANGED <<lock, next_row_id, snapshot, txn, frame, savepoint>>

AlterRetry(s) ==
  /\ pc[s] = "altering"
  /\ ~DraftIsCurrent(s)
  /\ AlterCopy(s, draft[s].action)

-----------------------------------------------------------------------------
(* The test helpers, called from the embedding program. *)
Snapshot ==
  /\ "snapshot" \in Statement /\ lock = None
  /\ snapshot' = tables
  /\ UNCHANGED <<tables, version, lock, next_row_id, txn, pc, frame, savepoint, draft>>

(* Mutant: the row ids start over. *)
RestoreRowIds(cat) ==
  /\ "snapshot" \in Statement /\ lock = None
  /\ VersionsLeft(1)
  /\ Publish(cat)
  /\ next_row_id' = FirstRowId
  /\ UNCHANGED <<lock, snapshot, txn, pc, frame, savepoint, draft>>

Restore(cat) ==
  /\ "snapshot" \in Statement /\ lock = None
  /\ VersionsLeft(1)
  /\ Publish(cat)
  /\ UNCHANGED <<lock, next_row_id, snapshot, txn, pc, frame, savepoint, draft>>

RestoreSnapshot == snapshot # None /\ Restore(snapshot)

Reset == Restore(<< >>)

-----------------------------------------------------------------------------
RowIds(s, n) ==
  LET work == get_or_insert_txn(s).work
  IN  IF n \in DOMAIN work THEN DOMAIN work[n].rows ELSE {}

RowSeqs(n) == UNION {[1..k -> Rows[n]] : k \in 1..MaxRows}

(* The steps that start a statement, or a block. *)
Start(s) ==
  \/ \E n \in TableName : \E rows \in RowSeqs(n) : Insert(s, n, rows)
  \/ \E n \in TableName : \E ids \in IdSeqs(RowIds(s, n)) :
       \E new \in [DOMAIN ids -> Rows[n]] : Update(s, n, ids, new)
  \/ \E n \in TableName : \E ids \in IdSeqs(RowIds(s, n)) : Delete(s, n, ids)
  \/ BeginBlock(s)
  \/ EndBlock(s)
  \/ FailBlock(s)
  \/ Rollback(s)
  \/ Commit(s, "ready")
  \/ Commit(s, "ddl")

(* The steps that carry a statement on. *)
Continue(s) ==
  \/ InsertRow(s)
  \/ Parents(s)
  \/ Children(s)
  \/ UndoStep(s)
  \/ UndoDone(s)
  \/ Replay(s)
  \/ ReplayDone(s)

DdlStep(s) ==
  \/ CreateTable(s)
  \/ DropTable(s)
  \/ Truncate(s)
  \/ CreateIndex(s)
  \/ DropIndex(s)
  \/ OtherDdl(s)
  \/ AlterTable(s)
  \/ AlterInstall(s)
  \/ AlterRetry(s)

Next ==
  \/ \E s \in Session : Start(s) \/ Continue(s) \/ DdlStep(s)
  \/ Snapshot
  \/ RestoreSnapshot
  \/ Reset

Spec == Init /\ [][Next]_vars

(* A session's thread runs the statement it has started to its end: no     *)
(* step of Continue waits for another session.                             *)
FairSpec == Spec /\ \A s \in Session : WF_vars(Continue(s))

-----------------------------------------------------------------------------
(* A transaction logs changes of tables its copy has, and can undo them:   *)
(* what an UPDATE or DELETE replaced still has the width of its table.     *)
LogFits(x) ==
  \A i \in DOMAIN x.log :
    /\ x.log[i].table \in DOMAIN x.work
    /\ x.log[i].op # "insert" => Len(x.log[i].old) = x.work[x.log[i].table].columns

(* Every variable has its type; the lock is held by exactly the session    *)
(* that is replaying; a session in the middle of a DML statement or of a   *)
(* replay has a transaction whose log fits its copy, and one that inserts  *)
(* has a row left to store.                                                *)
TypeOK ==
  /\ IsCatalog(tables)
  /\ version \in Nat
  /\ lock \in Session \cup {None}
  /\ next_row_id \in Nat
  /\ snapshot = None \/ IsCatalog(snapshot)
  /\ DOMAIN txn = Session /\ DOMAIN frame = Session
  /\ DOMAIN savepoint = Session /\ DOMAIN draft = Session
  /\ pc \in [Session -> Steps]
  /\ \A s \in Session :
       /\ txn[s] # None => IsTxn(txn[s]) /\ LogFits(txn[s])
       /\ IsFrame(frame[s])
       /\ savepoint[s] = None \/ IsSavepoint(savepoint[s])
       /\ lock = s <=> pc[s] = "replaying"
       /\ pc[s] \in {"inserting", "parents", "children", "undoing", "replaying"}
            => IsTxn(txn[s]) /\ LogFits(txn[s])
       /\ pc[s] \in {"inserting", "parents", "children", "undoing"}
            => frame[s].saved <= Len(txn[s].log)
       /\ pc[s] = "replaying" => IsCatalog(frame[s].next)
       /\ pc[s] = "altering" => IsCatalog(draft[s].cat) /\ draft[s].action \in Alter
       /\ pc[s] = "inserting" =>
            /\ frame[s].table \in DOMAIN txn[s].work
            /\ frame[s].rows # << >>
            /\ \A i \in DOMAIN frame[s].rows :
                 Len(frame[s].rows[i]) = txn[s].work[frame[s].table].columns

(* The catalogs that exist at a moment: the committed one, every working   *)
(* copy, what a COMMIT has replayed so far, an ALTER TABLE's draft, and    *)
(* the last snapshot.                                                      *)
Catalogs ==
  {tables}
    \cup {txn[s].work : s \in {r \in Session : txn[r] # None}}
    \cup {frame[s].next : s \in {r \in Session : pc[r] = "replaying"}}
    \cup {draft[s].cat : s \in {r \in Session : pc[r] = "altering"}}
    \cup ({snapshot} \ {None})

(* No two rows of a table share the key of an enforced unique constraint,  *)
(* in any catalog a session can read or publish: not after concurrent      *)
(* inserts of one key, a replay onto a newer catalog, an undo whose errors *)
(* are ignored, or a restored snapshot.                                    *)
UniqueKeysHold ==
  \A cat \in Catalogs : \A n \in DOMAIN cat : UniqueHolds(cat[n])

(* The unique indexes hold exactly the keys of the rows: a key left behind *)
(* would make later inserts fail with ORA-00001 and let foreign keys find  *)
(* parents that do not exist.                                              *)
IndexesExact ==
  \A cat \in Catalogs : \A n \in DOMAIN cat : IndexExact(cat[n])

(* A row is never stored over another one: COMMIT's replay inserts, and    *)
(* undo re-inserts, only under row ids that are free in the table.         *)
InsertsAreFresh ==
  \A s \in Session :
    LET x == txn[s]
        f == frame[s]
    IN  /\ pc[s] = "replaying" /\ f.k <= Len(x.log) =>
             LET c == x.log[f.k]
             IN  c.op = "insert" =>
                   \A n \in DOMAIN f.next : c.id \notin DOMAIN f.next[n].rows
        /\ pc[s] = "undoing" /\ Len(x.log) > f.saved =>
             LET c == x.log[Len(x.log)]
             IN  c.op = "delete" /\ c.table \in DOMAIN x.work =>
                   c.id \notin DOMAIN x.work[c.table].rows

(* Each foreign key of each catalog references a key that exists: its      *)
(* parent table is there and declares a unique constraint over the         *)
(* referenced columns.  enforce_foreign_keys unwraps on this.              *)
ForeignKeysHaveKeys ==
  \A cat \in Catalogs : \A f \in foreign_keys(cat) :
    /\ f.parent \in DOMAIN cat
    /\ has_referenced_key(cat[f.parent], f.parent_columns)

(* Each child row has its parent, found by looking at the parent's rows. *)
ForeignKeyHolds(cat, f) ==
  \A i \in DOMAIN cat[f.child].rows :
    \A k \in foreign_key(f.columns, cat[f.child].rows[i]) :
      \E j \in DOMAIN cat[f.parent].rows :
        k \in unique_key(f.parent_columns, cat[f.parent].rows[j])

ForeignKeysHold(cat) ==
  \A f \in foreign_keys(cat) : f.enabled => ForeignKeyHolds(cat, f)

(* The README's "FOREIGN KEY ... enforced", for the committed catalog: no  *)
(* child row without its parent is ever committed.                         *)
CommittedForeignKeysHold == ForeignKeysHold(tables)

-----------------------------------------------------------------------------
(* A DML statement that succeeds leaves no child without its parent if     *)
(* there was none before it, whatever cascades and SET NULLs it set off.   *)
StatementKeepsForeignKeys ==
  [][\A s \in Session :
       /\ pc[s] = "children" /\ pc'[s] = "ready"
       /\ ForeignKeysHold(frame[s].origin)
       => ForeignKeysHold(txn'[s].work)]_vars

(* A statement, or a block, that fails leaves the session with what it saw *)
(* before: its working copy is the one it started from.                    *)
FailureUndoesChanges ==
  [][\A s \in Session :
       pc[s] = "undoing" /\ pc'[s] = "ready" /\ txn'[s] # None
       => txn'[s].work = frame[s].origin]_vars

(* The rows two catalogs disagree on, as <<table, row id>>. *)
Touched(old, new) ==
  UNION {{<<n, i>> : i \in
            {j \in DOMAIN old[n].rows \cup DOMAIN new[n].rows :
               ~ /\ j \in DOMAIN old[n].rows
                 /\ j \in DOMAIN new[n].rows
                 /\ old[n].rows[j] = new[n].rows[j]}} :
         n \in DOMAIN old \cap DOMAIN new}

(* The definition of a table: all of it but the rows and the indexes. *)
Definition(t) ==
  [columns |-> t.columns, not_null |-> t.not_null, fks |-> t.fks,
   unique |-> [u \in DOMAIN t.unique |-> [t.unique[u] EXCEPT !.index = {}]]]

(* COMMIT publishes the rows its transaction logged and nothing else: it   *)
(* takes back no other session's commit, DDL or restored snapshot, by      *)
(* either of its two paths.                                                *)
CommitPublishesItsLog ==
  [][\A s \in Session :
       txn[s] # None /\ txn'[s] = None /\ tables' # tables =>
         /\ DOMAIN tables' = DOMAIN tables
         /\ \A n \in DOMAIN tables : Definition(tables'[n]) = Definition(tables[n])
         /\ \A p \in Touched(tables, tables') :
              \E i \in DOMAIN txn[s].log :
                txn[s].log[i].table = p[1] /\ txn[s].log[i].id = p[2]]_vars

(* ALTER TABLE changes no row, however many commits its retry loop let     *)
(* through before it installed its copy.                                   *)
AlterKeepsRows ==
  [][\A s \in Session :
       pc[s] = "altering" /\ pc'[s] # "altering" /\ tables' # tables =>
         DOMAIN tables' = DOMAIN tables /\ Touched(tables, tables') = {}]_vars

(* README: "A block that fails undoes its own changes."  The rows a session *)
(* sees after a failed block are the rows it saw before it.                 *)
FailedBlockRestoresRows ==
  [][\A s \in Session :
       pc[s] = "undoing" /\ pc'[s] = "ready" /\ txn'[s] # None
       => Touched(frame[s].origin, txn'[s].work) = {}]_vars

(* A statement that was started ends: the rounds of cascades, the undo and *)
(* the replay of a commit all terminate.                                   *)
StatementsEnd ==
  \A s \in Session :
    pc[s] \in Steps \ {"ready", "ddl", "altering"} ~> pc[s] \in {"ready", "ddl"}
=============================================================================
