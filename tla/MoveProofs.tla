---------------------------- MODULE MoveProofs -----------------------------
(***************************************************************************)
(* Row ids, referenced keys and ALTER TABLE, for any number of sessions,   *)
(* tables and rows: Strong is an invariant of Transactions.                *)
(*                                                                         *)
(* Every step of a session is one of the four moves of KeyProofs; for the  *)
(* actions here that takes what TransactionsProofs says of the tables they *)
(* leave. The moves preserve Strong, and so do the test helpers, which are *)
(* not steps of a session.                                                 *)
(***************************************************************************)
EXTENDS TransactionsProofs, KeyProofs

(* A step is proved by Zenon unless it names another prover. *)
USE Zenon

(* DELETE and ON DELETE CASCADE. *)
LEMMA DeleteFollows ==
  ASSUME NEW x, GoodTxn(x), NEW n \in DOMAIN x.work, NEW k \in Nat,
         NEW ids \in [1..k -> DOMAIN x.work[n].rows],
         \A i, j \in 1..k : i < j => ids[i] < ids[j],
         NEW gone, \A i \in 1..k : ids[i] \in gone
  PROVE  LET t == x.work[n]
             changes == [i \in DOMAIN ids |-> Deleted(n, ids[i], t.rows[ids[i]])]
         IN  Follows(Logged(x, n, Table_delete(t, gone), changes), x, {})
<1> DEFINE t == x.work[n]
           changes == [i \in DOMAIN ids |-> Deleted(n, ids[i], t.rows[ids[i]])]
           rt == Table_delete(t, gone)
<1>1. /\ n \in TableName /\ GoodTable(t) /\ IsTable(t)
      /\ \A i \in DOMAIN t.rows : i \in Nat /\ Fits(t, t.rows[i])
  BY WorkTableGood DEF GoodTable
<1>2. ids \in [1..k -> DOMAIN t.rows]
  OBVIOUS
<1>3. KeepsKeys(rt, x.work[n]) /\ DOMAIN rt.rows = DOMAIN t.rows \ gone
  BY <1>1, RowsKeep, TableIds
<1> HIDE DEF t
<1>4. \A i \in 1..k : /\ changes[i] \in Change /\ changes[i].table = n
                      /\ changes[i].id = ids[i] /\ changes[i].op = "delete"
  <2>1. << >> \in Row
    BY SMT DEF Row
  <2> QED
    BY <1>1, <1>2, <2>1 DEF Change, Deleted, Fits
<1>5. DOMAIN changes = 1..k /\ changes \in [1..k -> Change]
  BY <1>2, <1>4
<1> HIDE DEF changes, rt
<1>6. changes \in Seq(Change)
  BY <1>5, SMT
<1>7. \A i \in DOMAIN changes :
        /\ changes[i].table = n
        /\ changes[i].id \in DOMAIN x.work[n].rows \cup {}
        /\ changes[i].op = "insert" => changes[i].id \in {}
        /\ changes[i].op = "delete" => changes[i].id \in DOMAIN x.work[n].rows \ DOMAIN rt.rows
  <2> SUFFICES ASSUME NEW i \in DOMAIN changes
               PROVE  /\ changes[i].table = n
                      /\ changes[i].op = "delete"
                      /\ changes[i].id \in DOMAIN t.rows \ DOMAIN rt.rows
    BY DEF t
  <2>1. i \in 1..k /\ ids[i] \in DOMAIN t.rows /\ ids[i] \in gone
    BY <1>2, <1>5
  <2> QED
    BY <1>3, <1>4, <2>1
<1>8. ASSUME NEW i \in DOMAIN changes, NEW j \in DOMAIN changes, changes[i].id = changes[j].id
      PROVE  i = j
  <2>1. i \in 1..k /\ j \in 1..k /\ ids[i] = ids[j] /\ ids[i] \in Nat
    BY <1>1, <1>2, <1>4, <1>5, <1>8
  <2> QED
    BY <2>1, SMT
<1>9. DOMAIN rt.rows \subseteq DOMAIN x.work[n].rows \cup {}
  BY <1>3 DEF t
<1>10. \A i, j \in DOMAIN changes :
         changes[i].op # "update" /\ changes[j].op # "update"
           /\ changes[i].id = changes[j].id => i = j
  BY <1>8
<1>11. KeepsKeys(rt, x.work[n])
  BY <1>3
<1>12. Follows(Logged(x, n, rt, changes), x, {})
  BY <1>6, <1>7, <1>9, <1>10, <1>11, LoggedFollows
<1> QED
  BY <1>12 DEF t, rt, changes

(* UPDATE and ON DELETE SET NULL, done or refused. *)
LEMMA UpdateFollows ==
  ASSUME NEW x, GoodTxn(x), NEW n \in DOMAIN x.work, NEW k \in Nat,
         NEW ids \in [1..k -> DOMAIN x.work[n].rows], NEW new,
         \A i \in 1..k : Fits(x.work[n], new[i]), NEW batch
  PROVE  LET t == x.work[n]
             changes == [i \in DOMAIN ids |->
                           Updated(n, ids[i], new[i], t.rows[ids[i]])]
             r == Table_update(t, batch)
         IN  /\ Follows(Logged(x, n, r.table, changes), x, {})
             /\ Follows(Logged(x, n, r.table, << >>), x, {})
<1> DEFINE t == x.work[n]
           changes == [i \in DOMAIN ids |-> Updated(n, ids[i], new[i], t.rows[ids[i]])]
           rt == Table_update(t, batch).table
           none == << >>
<1>1. /\ n \in TableName /\ GoodTable(t) /\ IsTable(t)
      /\ \A i \in DOMAIN t.rows : i \in Nat /\ Fits(t, t.rows[i])
  BY WorkTableGood DEF GoodTable
<1>2. ids \in [1..k -> DOMAIN t.rows] /\ \A i \in 1..k : Fits(t, new[i])
  OBVIOUS
<1>3. KeepsKeys(rt, x.work[n]) /\ DOMAIN rt.rows = DOMAIN t.rows
  BY <1>1, RowsKeep, TableIds
<1> HIDE DEF t
<1>4. \A i \in 1..k : /\ changes[i] \in Change /\ changes[i].table = n
                      /\ changes[i].id = ids[i] /\ changes[i].op = "update"
  BY <1>1, <1>2 DEF Change, Updated, Fits
<1>5. DOMAIN changes = 1..k /\ changes \in [1..k -> Change]
  BY <1>2, <1>4
<1> HIDE DEF changes, rt
<1>6. changes \in Seq(Change)
  BY <1>5, SMT
<1>7. \A i \in DOMAIN changes :
        /\ changes[i].table = n
        /\ changes[i].id \in DOMAIN x.work[n].rows \cup {}
        /\ changes[i].op = "insert" => changes[i].id \in {}
        /\ changes[i].op = "delete" => changes[i].id \in DOMAIN x.work[n].rows \ DOMAIN rt.rows
  <2> SUFFICES ASSUME NEW i \in DOMAIN changes
               PROVE  /\ changes[i].table = n
                      /\ changes[i].op = "update"
                      /\ changes[i].id \in DOMAIN t.rows
    BY DEF t
  <2> QED
    BY <1>2, <1>4, <1>5
<1>8. DOMAIN rt.rows \subseteq DOMAIN x.work[n].rows \cup {}
  BY <1>3 DEF t
<1>9. \A i, j \in DOMAIN changes :
        changes[i].op # "update" /\ changes[j].op # "update"
          /\ changes[i].id = changes[j].id => i = j
  BY <1>4, <1>5
<1>10. KeepsKeys(rt, x.work[n])
  BY <1>3
<1>11. Follows(Logged(x, n, rt, changes), x, {})
  BY <1>6, <1>7, <1>8, <1>9, <1>10, LoggedFollows
<1>12. none \in Seq(Change) /\ DOMAIN none = {}
  BY SMT
<1> HIDE DEF none
<1>13. Follows(Logged(x, n, rt, none), x, {})
  <2>1. \A i \in DOMAIN none : FALSE
    BY <1>12
  <2> QED
    BY <1>8, <1>10, <1>12, <2>1, LoggedFollows
<1> QED
  BY <1>11, <1>13 DEF t, rt, changes, none

(* INSERT stores one row, under the row id it fetched. *)
LEMMA InsertRowMoves ==
  ASSUME IInv, NEW s \in Session, InsertRow(s)
  PROVE  Moves(s)
<1> DEFINE x == txn[s]
           f == frame[s]
           n == f.table
           values == Head(f.rows)
           t == Table_insert(x.work[n], next_row_id, values).table
           c == Inserted(n, next_row_id, values)
           cs == <<c>>
           y == Logged(x, n, t, cs)
           ids == {next_row_id}
<1>1. /\ pc[s] = "inserting" /\ next_row_id' = next_row_id + 1
      /\ UNCHANGED <<tables, version, snapshot, savepoint, draft>>
  BY DEF InsertRow, next_row_id_fetch_add
<1>2. /\ GoodTxn(x) /\ IsFrame(f) /\ n \in DOMAIN x.work /\ f.rows # << >>
      /\ Current(s) = x /\ Numbers(ids)
  <2>1. LocalOK(x, pc[s], f, savepoint[s], draft[s])
    BY DEF IInv, Locals
  <2>2. GoodTxn(x) /\ Current(s) = x /\ Numbers(ids)
    BY <1>1, CurrentIs DEF Numbers
  <2> HIDE DEF x, f
  <2> QED
    BY <1>1, <2>1, <2>2 DEF LocalOK
<1>3. values \in Row
  <2>1. f.rows \in Seq(Row)
    BY <1>2 DEF IsFrame
  <2> QED
    BY <1>2, <2>1, SMT
<1>4. next_row_id \in Nat
  BY DEF IInv, SharedOK
<1>5. /\ n \in TableName /\ IsTable(x.work[n])
  BY <1>2, WorkTableGood DEF GoodTable
<1>6. c \in Change /\ c.table = n /\ c.op = "insert" /\ c.id = next_row_id
  <2>1. << >> \in Row
    BY SMT DEF Row
  <2> QED
    BY <1>3, <1>4, <1>5, <2>1 DEF Change, Inserted
<1>7. KeepsKeys(t, x.work[n]) /\ DOMAIN t.rows \subseteq DOMAIN x.work[n].rows \cup ids
  BY <1>5, RowsKeep, TableIds
<1> HIDE DEF c, t
<1>8. cs \in Seq(Change) /\ DOMAIN cs = {1} /\ cs[1] = c
  BY <1>6, SMT
<1> HIDE DEF cs
<1>9. \A i \in DOMAIN cs :
        /\ cs[i].table = n
        /\ cs[i].id \in DOMAIN x.work[n].rows \cup ids
        /\ cs[i].op = "insert" => cs[i].id \in ids
        /\ cs[i].op = "delete" => cs[i].id \in DOMAIN x.work[n].rows \ DOMAIN t.rows
  BY <1>6, <1>8
<1>10. \A i, j \in DOMAIN cs :
         cs[i].op # "update" /\ cs[j].op # "update" /\ cs[i].id = cs[j].id => i = j
  BY <1>8
<1> HIDE DEF x, n, ids
<1>11. Follows(y, x, ids)
  BY <1>2, <1>7, <1>8, <1>9, <1>10, LoggedFollows
<1>12. Follows(x, x, ids)
  BY FollowsSelf
<1> HIDE DEF y
<1>13. ASSUME NEW z, z = x \/ z = y, OnlySession(s), txn'[s] = z,
              pc'[s] \notin {"replaying", "altering"}
       PROVE  Moves(s)
  BY <1>1, <1>2, <1>11, <1>12, <1>13, WorksOn
<1>14. CASE Undo(s, x, f.saved, f.origin)
  BY <1>1, <1>13, <1>14, DmlGoesOn
<1>15. CASE Enforce(s, y, f.saved, f.origin)
  BY <1>1, <1>13, <1>15, DmlGoesOn
<1>16. CASE /\ txn' = [txn EXCEPT ![s] = y]
            /\ frame' = [frame EXCEPT ![s].rows = Tail(@)]
            /\ UNCHANGED pc
  <2>1. OnlySession(s) /\ txn'[s] = y /\ pc'[s] = "inserting"
    BY <1>1, <1>16 DEF IInv, Domains, OnlySession
  <2> QED
    BY <1>13, <2>1
<1> QED
  BY <1>14, <1>15, <1>16 DEF InsertRow, x, n, t, c, cs, y

(* DELETE. *)
LEMMA DeleteMoves ==
  ASSUME IInv, NEW s \in Session, NEW n, NEW ids, Delete(s, n, ids)
  PROVE  Moves(s)
<1> DEFINE x == get_or_insert_txn(s)
           t == x.work[n]
           changes == [i \in DOMAIN ids |-> Deleted(n, ids[i], t.rows[ids[i]])]
           gone == {ids[i] : i \in DOMAIN ids}
           y == Logged(x, n, Table_delete(t, gone), changes)
<1>1. /\ pc[s] = "ready" /\ n \in DOMAIN x.work
      /\ ids \in IdSeqs(DOMAIN t.rows)
      /\ Enforce(s, y, Len(x.log), x.work)
      /\ UNCHANGED <<tables, version, lock, next_row_id, snapshot, savepoint, draft>>
  BY DEF Delete, StartDml, shared
<1>2. GoodTxn(x) /\ x = Current(s)
  BY <1>1, GetTxnGood, CurrentIs
<1>3. PICK k \in Nat : ids \in [1..k -> DOMAIN t.rows]
  BY <1>1, IdSeqsAre
<1>4. /\ \A i, j \in 1..k : i < j => ids[i] < ids[j]
      /\ \A i \in 1..k : ids[i] \in gone
  BY <1>1, <1>3 DEF IdSeqs
<1> HIDE DEF x, gone
<1>5. Follows(y, x, {})
  BY <1>1, <1>2, <1>3, <1>4, DeleteFollows
<1> HIDE DEF y
<1>6. OnlySession(s) /\ txn'[s] = y /\ pc'[s] \notin {"replaying", "altering"}
  BY <1>1, DmlGoesOn
<1> QED
  BY <1>1, <1>2, <1>5, <1>6, KeepsNumber, WorksOn

(* UPDATE. *)
LEMMA UpdateMoves ==
  ASSUME IInv, NEW s \in Session, NEW n \in TableName, NEW ids,
         NEW new \in [DOMAIN ids -> Rows[n]], Update(s, n, ids, new)
  PROVE  Moves(s)
<1> DEFINE x == get_or_insert_txn(s)
           t == x.work[n]
           batch == [i \in DOMAIN ids |-> [id |-> ids[i], values |-> new[i]]]
           changes == [i \in DOMAIN ids |-> Updated(n, ids[i], new[i], t.rows[ids[i]])]
           r == Table_update(t, batch)
           y == Logged(x, n, r.table, changes)
           z == [x EXCEPT !.work = [x.work EXCEPT ![n] = r.table]]
<1>1. /\ pc[s] = "ready" /\ n \in DOMAIN x.work
      /\ ids \in IdSeqs(DOMAIN t.rows)
      /\ \A i \in DOMAIN new : Len(new[i]) = t.columns
      /\ \/ Enforce(s, y, Len(x.log), x.work)
         \/ Undo(s, z, Len(x.log), x.work)
      /\ UNCHANGED <<tables, version, lock, next_row_id, snapshot, savepoint, draft>>
  BY DEF Update, StartDml, shared
<1>2. GoodTxn(x) /\ x = Current(s)
  BY <1>1, GetTxnGood, CurrentIs
<1>3. PICK k \in Nat : ids \in [1..k -> DOMAIN t.rows]
  BY <1>1, IdSeqsAre
<1>4. \A i \in 1..k : Fits(t, new[i])
  <2>1. Rows[n] \subseteq Row
    BY InputAssumption
  <2> HIDE DEF t
  <2> QED
    BY <1>1, <1>3, <2>1 DEF Fits
<1> HIDE DEF x
<1>5. GoodTable(r.table) /\ r.table.columns = x.work[n].columns
  BY <1>1, <1>2, <1>3, <1>4, UpdateLogged
<1>6. Follows(y, x, {}) /\ Follows(Logged(x, n, r.table, << >>), x, {})
  BY <1>1, <1>2, <1>3, <1>4, UpdateFollows
<1> HIDE DEF r
<1>7. Follows(z, x, {})
  <2> DEFINE rt == r.table
  <2>1. DOMAIN x = {"base_version", "work", "log"} /\ x.log \in Seq(Change)
    BY <1>2 DEF GoodTxn, IsTxn
  <2>2. x.log \o << >> = x.log
    BY <2>1, SMT
  <2> HIDE DEF rt
  <2>3. Logged(x, n, rt, << >>) = [x EXCEPT !.work = [x.work EXCEPT ![n] = rt]]
    BY <2>1, <2>2 DEF Logged
  <2> QED
    BY <1>6, <2>3 DEF rt
<1> HIDE DEF y, z
<1>8. ASSUME NEW w, w = y \/ w = z, Enforce(s, w, Len(x.log), x.work) \/ Undo(s, w, Len(x.log), x.work)
      PROVE  Moves(s)
  <2>1. OnlySession(s) /\ txn'[s] = w /\ pc'[s] \notin {"replaying", "altering"}
    BY <1>1, <1>8, DmlGoesOn
  <2>2. Follows(w, Current(s), {})
    BY <1>2, <1>6, <1>7, <1>8
  <2> QED
    BY <1>1, <2>1, <2>2, KeepsNumber, WorksOn
<1> QED
  BY <1>1, <1>8

(* One foreign key of a round. *)
LEMMA EnforceParentMoves ==
  ASSUME IInv, NEW s \in Session, pc[s] = "parents",
         NEW f \in foreign_keys(txn[s].work), EnforceParent(s, f),
         UNCHANGED <<shared, savepoint, draft>>
  PROVE  Moves(s)
<1> DEFINE x == txn[s]
           fr == frame[s]
           n == f.child
           child == x.work[n]
           hits == children(x.work, f, deleted_keys(x.work, f, RoundChanges(s)))
<1>1. GoodTxn(x) /\ Current(s) = x
  BY CurrentIs
<1>2. Numbers({}) /\ UNCHANGED <<tables, version, snapshot>>
  BY KeepsNumber DEF shared
<1>3. ASSUME NEW y, Follows(y, x, {}),
             \/ txn' = [txn EXCEPT ![s] = y]
             \/ txn' = txn /\ y = txn[s],
             NextForeignKey(s)
      PROVE  Moves(s)
  <2>1. /\ frame' = [frame EXCEPT ![s] = [frame[s] EXCEPT !.fk = @ + 1]]
        /\ pc' = pc
    BY <1>3 DEF NextForeignKey, IInv, Domains
  <2>2. OnlySession(s) /\ txn'[s] = y /\ pc'[s] = "parents"
    BY <1>3, <2>1 DEF IInv, Domains, OnlySession
  <2> QED
    BY <1>1, <1>2, <1>3, <2>2, WorksOn
<1>4. ASSUME NEW y, Follows(y, x, {}), Undo(s, y, fr.saved, fr.origin)
      PROVE  Moves(s)
  <2>1. OnlySession(s) /\ txn'[s] = y /\ pc'[s] \notin {"replaying", "altering"}
    BY <1>4, DmlGoesOn
  <2> QED
    BY <1>1, <1>2, <1>4, <2>1, WorksOn
<1>5. Follows(x, x, {})
  BY FollowsSelf
<1>6. CASE Undo(s, x, fr.saved, fr.origin)
  BY <1>4, <1>5, <1>6
<1>7. CASE NextForeignKey(s) /\ UNCHANGED txn
  BY <1>3, <1>5, <1>7
<1>8. ASSUME NEW ids \in [1..Cardinality(hits) -> hits],
             \A i, j \in DOMAIN ids : i < j => ids[i] < ids[j]
      PROVE  LET old(i) == child.rows[ids[i]]
                 batch == [i \in DOMAIN ids |->
                             [id |-> ids[i], values |-> nulled(f, old(i))]]
                 r == Table_update(child, batch)
                 cascaded == [i \in DOMAIN ids |-> Deleted(n, ids[i], old(i))]
                 cleared == [i \in DOMAIN ids |->
                               Updated(n, ids[i], batch[i].values, old(i))]
             IN  /\ Follows(Logged(x, n, Table_delete(child, hits), cascaded), x, {})
                 /\ Follows(Logged(x, n, r.table, cleared), x, {})
                 /\ Follows(Logged(x, n, r.table, << >>), x, {})
  <2> DEFINE k == Cardinality(hits)
             new == [i \in DOMAIN ids |-> nulled(f, child.rows[ids[i]])]
             batch == [i \in DOMAIN ids |-> [id |-> ids[i], values |-> new[i]]]
             r == Table_update(child, batch)
             cascaded == [i \in DOMAIN ids |->
                            Deleted(n, ids[i], child.rows[ids[i]])]
             cleared == [i \in DOMAIN ids |->
                           Updated(n, ids[i], new[i], child.rows[ids[i]])]
  <2>1. n \in DOMAIN x.work /\ hits \subseteq DOMAIN child.rows /\ k \in Nat
    BY <1>1, ChildrenAre
  <2> HIDE DEF hits, x, n
  <2>2. /\ ids \in [1..k -> DOMAIN child.rows] /\ \A i \in 1..k : ids[i] \in hits
        /\ \A i, j \in 1..k : i < j => ids[i] < ids[j]
    BY <1>8, <2>1
  <2>3. \A i \in 1..k : Fits(child, new[i])
    BY <1>1, <2>1, <2>2, WorkTableGood, NulledFits
  <2>4. Follows(Logged(x, n, Table_delete(child, hits), cascaded), x, {})
    BY <1>1, <2>1, <2>2, DeleteFollows
  <2> HIDE DEF new
  <2>5. /\ Follows(Logged(x, n, r.table, cleared), x, {})
        /\ Follows(Logged(x, n, r.table, << >>), x, {})
    BY <1>1, <2>1, <2>2, <2>3, UpdateFollows
  <2> HIDE DEF r
  <2>6. /\ batch = [i \in DOMAIN ids |->
                      [id |-> ids[i], values |-> nulled(f, child.rows[ids[i]])]]
        /\ \A i \in DOMAIN ids : batch[i].values = new[i]
    BY DEF new
  <2>7. cleared = [i \in DOMAIN ids |->
                     Updated(n, ids[i], batch[i].values, child.rows[ids[i]])]
    BY <2>6
  <2> QED
    BY <2>4, <2>5, <2>6, <2>7 DEF r
<1> HIDE DEF x, fr, n, child, hits
<1>9. CASE \E ids \in [1..Cardinality(hits) -> hits] :
             LET old(i) == child.rows[ids[i]]
                 batch == [i \in DOMAIN ids |->
                             [id |-> ids[i], values |-> nulled(f, old(i))]]
                 r == Table_update(child, batch)
                 cascaded == [i \in DOMAIN ids |-> Deleted(n, ids[i], old(i))]
                 cleared == [i \in DOMAIN ids |->
                               Updated(n, ids[i], batch[i].values, old(i))]
             IN  /\ \A i, j \in DOMAIN ids : i < j => ids[i] < ids[j]
                 /\ \/ /\ txn' = [txn EXCEPT ![s] =
                            Logged(x, n, Table_delete(child, hits), cascaded)]
                       /\ NextForeignKey(s)
                    \/ /\ txn' = [txn EXCEPT ![s] = Logged(x, n, r.table, cleared)]
                       /\ NextForeignKey(s)
                    \/ Undo(s, Logged(x, n, r.table, << >>), fr.saved, fr.origin)
  BY <1>3, <1>4, <1>8, <1>9
<1> QED
  BY <1>6, <1>7, <1>9 DEF EnforceParent, x, fr, n, child, hits

(* The parent side of enforce_foreign_keys. *)
LEMMA ParentsMoves ==
  ASSUME IInv, NEW s \in Session, Parents(s)
  PROVE  Moves(s)
<1> DEFINE x == txn[s]
           visited == {f \in foreign_keys(x.work) : f.enabled /\ f.name = FkOrder[frame[s].fk]}
<1>1. pc[s] = "parents" /\ UNCHANGED <<shared, savepoint, draft>>
  BY DEF Parents
<1>2. Current(s) = x /\ Numbers({}) /\ UNCHANGED <<tables, version, snapshot>>
  BY <1>1, CurrentIs, KeepsNumber DEF shared
<1>3. ASSUME NEW f \in visited, EnforceParent(s, f)
      PROVE  Moves(s)
  BY <1>1, <1>3, EnforceParentMoves
<1>4. ASSUME UNCHANGED txn,
             frame' = frame \/ \E g : frame' = [frame EXCEPT ![s] = g],
             pc' = pc \/ pc' = [pc EXCEPT ![s] = "children"]
      PROVE  Moves(s)
  <2>1. OnlySession(s) /\ txn'[s] = x /\ pc'[s] \in {"parents", "children"}
    BY <1>1, <1>4 DEF IInv, Domains, OnlySession
  <2>2. Follows(x, x, {})
    BY FollowsSelf
  <2> QED
    BY <1>2, <2>1, <2>2, WorksOn
<1>5. ASSUME NextForeignKey(s), UNCHANGED txn
      PROVE  Moves(s)
  BY <1>4, <1>5 DEF NextForeignKey
<1>6. ASSUME frame' = [frame EXCEPT ![s].start = frame[s].end,
                                    ![s].end = Len(x.log), ![s].fk = 1],
             UNCHANGED <<txn, pc>>
      PROVE  Moves(s)
  <2>1. frame' = [frame EXCEPT ![s] = [frame[s] EXCEPT !.start = frame[s].end,
                                              !.end = Len(x.log), !.fk = 1]]
    BY <1>6
  <2> QED
    BY <1>4, <1>6, <2>1
<1>7. ASSUME Goto(s, "children"), UNCHANGED <<txn, frame>>
      PROVE  Moves(s)
  BY <1>4, <1>7 DEF Goto
<1> QED
  BY <1>3, <1>5, <1>6, <1>7 DEF Parents

(* Savepoints, blocks and ROLLBACK. *)
LEMMA BlockMoves ==
  ASSUME IInv, NEW s \in Session, BeginBlock(s) \/ EndBlock(s) \/ FailBlock(s) \/ Rollback(s)
  PROVE  Moves(s)
<1>1. ASSUME BeginBlock(s) \/ EndBlock(s) PROVE Moves(s)
  <2>1. /\ pc[s] = "ready" /\ UNCHANGED <<shared, txn, pc, frame, draft>>
        /\ \E sp : savepoint' = [savepoint EXCEPT ![s] = sp]
    BY <1>1 DEF BeginBlock, EndBlock
  <2>2. OnlySession(s) /\ UNCHANGED <<tables, version, next_row_id, snapshot>>
    BY <2>1 DEF IInv, Domains, OnlySession, shared
  <2> QED
    BY <2>1, <2>2, KeepsTxn
<1>2. ASSUME FailBlock(s) PROVE Moves(s)
  <2> DEFINE sp == savepoint[s]
             keep == IF Kept(sp) <= Len(txn[s].log) THEN Kept(sp) ELSE Len(txn[s].log)
  <2>1. /\ pc[s] = "ready" /\ UNCHANGED <<shared, draft>>
        /\ savepoint' = [savepoint EXCEPT ![s] = None]
        /\ \/ txn[s] = None /\ UNCHANGED <<txn, frame, pc>>
           \/ txn[s] # None /\ Undo(s, txn[s], keep, sp.origin)
    BY <1>2 DEF FailBlock
  <2>2. \/ txn' = txn /\ frame' = frame /\ pc' = pc
        \/ /\ txn[s] # None /\ txn' = [txn EXCEPT ![s] = txn[s]]
           /\ \E f : frame' = [frame EXCEPT ![s] = f]
           /\ pc' = [pc EXCEPT ![s] = "undoing"]
    BY <2>1 DEF Undo, Goto
  <2>3. OnlySession(s) /\ UNCHANGED <<tables, version, next_row_id, snapshot>>
    BY <2>1, <2>2 DEF IInv, Domains, OnlySession, shared
  <2>4. /\ txn'[s] = txn[s] /\ pc'[s] \in {"ready", "undoing"}
        /\ pc'[s] = "undoing" => txn[s] # None
    BY <2>1, <2>2 DEF IInv, Domains
  <2> QED
    BY <2>1, <2>3, <2>4, KeepsTxn
<1>3. ASSUME Rollback(s) PROVE Moves(s)
  <2>1. /\ pc[s] = "ready" /\ txn' = [txn EXCEPT ![s] = None] /\ CountCommit(s)
        /\ UNCHANGED <<shared, pc, frame, draft>>
    BY <1>3 DEF Rollback
  <2>2. \A r \in Session \ {s} : savepoint'[r] = savepoint[r]
    BY <2>1, CountCommitGood
  <2>3. /\ OnlySession(s) /\ UNCHANGED <<tables, version, next_row_id, snapshot>>
        /\ pc'[s] = "ready" /\ txn'[s] = None
    BY <2>1, <2>2 DEF IInv, Domains, OnlySession, shared
  <2> QED
    BY <2>3, DropsTxn
<1> QED
  BY <1>1, <1>2, <1>3

(* COMMIT. *)
LEMMA CommitMoves ==
  ASSUME IInv, NEW s \in Session, NEW after \in {"ready", "ddl"}, Commit(s, after)
  PROVE  Moves(s)
<1> DEFINE x == txn[s]
           f == [Idle EXCEPT !.next = tables, !.after = after]
<1>1. pc[s] = "ready" /\ CountCommit(s) /\ UNCHANGED draft
  BY DEF Commit
<1>2. \A r \in Session \ {s} : savepoint'[r] = savepoint[r]
  BY <1>1, CountCommitGood
<1>3. CASE /\ Goto(s, after)
           /\ UNCHANGED <<shared, txn, frame>>
  <2>1. /\ OnlySession(s) /\ UNCHANGED <<tables, version, next_row_id, snapshot>>
        /\ pc'[s] = after /\ txn'[s] = txn[s]
    BY <1>1, <1>2, <1>3 DEF IInv, Domains, OnlySession, shared, Goto
  <2> QED
    BY <1>1, <2>1, KeepsTxn
<1>4. CASE /\ x # None /\ Publish(x.work) /\ txn' = [txn EXCEPT ![s] = None]
           /\ Goto(s, after)
           /\ UNCHANGED <<lock, next_row_id, snapshot, frame>>
  <2>1. /\ OnlySession(s) /\ UNCHANGED <<next_row_id, snapshot>>
        /\ pc'[s] = after /\ txn'[s] = None /\ tables' = x.work /\ version' = version + 1
    BY <1>1, <1>2, <1>4 DEF IInv, Domains, OnlySession, Goto, Publish
  <2>2. InTxn(s)
    BY <1>4 DEF InTxn
  <2> QED
    BY <1>1, <2>1, <2>2 DEF Moves, Publishes
<1>5. CASE /\ x # None /\ frame' = [frame EXCEPT ![s] = f] /\ Goto(s, "replaying")
           /\ UNCHANGED <<tables, version, next_row_id, snapshot, txn>>
  <2>1. f.next = tables
    BY DEF Idle
  <2> HIDE DEF f
  <2>2. /\ OnlySession(s) /\ pc'[s] = "replaying" /\ txn'[s] = txn[s] /\ frame'[s] = f
    BY <1>1, <1>2, <1>5 DEF IInv, Domains, OnlySession, Goto
  <2>3. InTxn(s)
    BY <1>5 DEF InTxn
  <2> QED
    BY <1>1, <1>5, <2>1, <2>2, <2>3 DEF Moves, Replays
<1> QED
  BY <1>3, <1>4, <1>5 DEF Commit

(* Every step of a session is one of the moves. *)
LEMMA SessionMoves ==
  ASSUME IInv, NEW s \in Session, Start(s) \/ Continue(s) \/ DdlStep(s)
  PROVE  Moves(s)
<1>1. ASSUME Start(s) PROVE Moves(s)
  <2>1. ASSUME NEW n \in TableName, NEW rows \in RowSeqs(n), Insert(s, n, rows)
        PROVE  Moves(s)
    BY <2>1, InsertMoves
  <2>2. ASSUME NEW n \in TableName, NEW ids, NEW new \in [DOMAIN ids -> Rows[n]],
               Update(s, n, ids, new)
        PROVE  Moves(s)
    BY <2>2, UpdateMoves
  <2>3. ASSUME NEW n \in TableName, NEW ids, Delete(s, n, ids)
        PROVE  Moves(s)
    BY <2>3, DeleteMoves
  <2>4. ASSUME BeginBlock(s) \/ EndBlock(s) \/ FailBlock(s) \/ Rollback(s)
        PROVE  Moves(s)
    BY <2>4, BlockMoves
  <2>5. ASSUME Commit(s, "ready") \/ Commit(s, "ddl") PROVE Moves(s)
    BY <2>5, CommitMoves
  <2> QED
    BY <1>1, <2>1, <2>2, <2>3, <2>4, <2>5 DEF Start
<1>2. ASSUME Continue(s) PROVE Moves(s)
  BY <1>2, InsertRowMoves, ParentsMoves, ChildrenMoves, UndoMoves, ReplayMoves,
     ReplayDoneMoves DEF Continue
<1> QED
  BY <1>1, <1>2, DdlStepMoves

(* A seed script ends in a catalog whose foreign keys reference keys, and   *)
(* whose rows were numbered by the same counter.                            *)
LEMMA InitStrong == Init => Strong
<1> SUFFICES ASSUME Init PROVE Strong
  OBVIOUS
<1>1. /\ tables = Seed /\ snapshot = None /\ next_row_id = FirstRowId
      /\ \A s \in Session : txn[s] = None /\ pc[s] = "ready"
  BY DEF Init
<1>2. \A s \in Session : ~InTxn(s)
  BY <1>1 DEF InTxn
<1>3. \A s \in Session : pc[s] # "replaying" /\ pc[s] # "altering"
  BY <1>1
<1>4. KeysExist(Seed)
  BY SeedAssumption, KeysExistIs
<1>5. KeysHeld
  BY <1>1, <1>2, <1>3, <1>4 DEF KeysHeld
<1>6. DraftsFit
  BY <1>3 DEF DraftsFit
<1>7. IInv
  BY InitGood
<1>8. Public \subseteq Given
  <2> SUFFICES ASSUME NEW i \in Public PROVE i \in Given
    OBVIOUS
  <2>1. i \in Ids(Seed)
    BY <1>1, <1>3 DEF Public
  <2>2. PICK n \in DOMAIN Seed : i \in DOMAIN Seed[n].rows
    BY <2>1 DEF Ids
  <2>3. i \in Nat
    <3>1. GoodCatalog(Seed)
      BY <1>1, <1>7 DEF IInv, SharedOK
    <3> QED
      BY <2>2, <3>1 DEF GoodCatalog, GoodTable, IsTable
  <2>4. i < FirstRowId /\ FirstRowId \in Nat
    BY <2>2, SeedAssumption
  <2> QED
    BY <1>1, <2>3, <2>4, SMT DEF Given
<1>9. \A s \in Session : Private(s) = {} \cup {}
  BY <1>2, <1>3 DEF Private
<1>10. Fresh
  BY <1>2, <1>3, <1>8, <1>9 DEF Fresh
<1> QED
  BY <1>5, <1>6, <1>7, <1>10 DEF Strong

(* Every step preserves the invariant. *)
LEMMA NextStrong ==
  ASSUME Strong, [Next]_vars
  PROVE  Strong'
<1>1. IInv'
  BY NextPreserves DEF Strong
<1>2. ASSUME NEW s \in Session, Start(s) \/ Continue(s) \/ DdlStep(s)
      PROVE  KeysHeld' /\ DraftsFit' /\ Fresh'
  <2>1. Moves(s)
    BY <1>2, SessionMoves DEF Strong
  <2> QED
    BY <2>1, MovesKeepKeys, MovesKeepDrafts, MovesKeepFresh DEF Strong
<1>3. ASSUME Snapshot \/ RestoreSnapshot \/ Reset
      PROVE  KeysHeld' /\ DraftsFit' /\ Fresh'
  BY <1>3, HelperKeeps
<1>4. ASSUME UNCHANGED vars
      PROVE  KeysHeld' /\ DraftsFit' /\ Fresh'
  <2>1. /\ tables' = tables /\ version' = version /\ next_row_id' = next_row_id
        /\ snapshot' = snapshot /\ txn' = txn /\ pc' = pc /\ frame' = frame /\ draft' = draft
    BY <1>4 DEF vars
  <2>2. \A r \in Session : InTxn(r)' <=> InTxn(r)
    BY <2>1 DEF InTxn
  <2>3. KeysHeld' /\ DraftsFit'
    BY <2>1, <2>2 DEF Strong, KeysHeld, DraftsFit
  <2>4. /\ Public' = Public /\ Given' = Given
        /\ \A r \in Session : Private(r)' = Private(r)
    BY <2>1, <2>2 DEF Public, Given, Private
  <2>5. Fresh'
    BY <2>1, <2>2, <2>4 DEF Strong, Fresh
  <2> QED
    BY <2>3, <2>5
<1> QED
  BY <1>1, <1>2, <1>3, <1>4 DEF Next, Strong

(* Foreign keys have keys, drafts have the rows of what they replace, and   *)
(* row ids are fresh, after any steps of any sessions and of the snapshot   *)
(* helper (lib.rs next_row_id, session.rs commit and the DDL statements).   *)
THEOREM StrongInvariance == Spec => []Strong
  BY InitStrong, NextStrong, PTL DEF Spec

(* Each foreign key of each catalog references a key that exists, so that   *)
(* enforce_foreign_keys finds the parent and its unique constraint whatever *)
(* tables, keys and indexes other sessions drop meanwhile (session.rs).     *)
THEOREM ForeignKeys == Spec => []ForeignKeysHaveKeys
<1>1. Strong => ForeignKeysHaveKeys
  <2> SUFFICES ASSUME Strong, NEW cat \in Catalogs
               PROVE  KeysExist(cat)
    BY KeysExistIs DEF ForeignKeysHaveKeys
  <2>1. CASE cat = tables
    BY <2>1 DEF Strong, KeysHeld
  <2>2. CASE \E s \in Session : txn[s] # None /\ cat = txn[s].work
    BY <2>2 DEF Strong, KeysHeld, InTxn
  <2>3. CASE \E s \in Session : pc[s] = "replaying" /\ cat = frame[s].next
    BY <2>3 DEF Strong, KeysHeld
  <2>4. CASE \E s \in Session : pc[s] = "altering" /\ cat = draft[s].cat
    BY <2>4 DEF Strong, KeysHeld
  <2>5. CASE cat = snapshot /\ snapshot # None
    BY <2>5 DEF Strong, KeysHeld
  <2> QED
    BY <2>1, <2>2, <2>3, <2>4, <2>5 DEF Catalogs
<1> QED
  BY <1>1, StrongInvariance, PTL

(* A row is never stored over another one: the ids that replay and undo     *)
(* insert under are free, however transactions interleave (session.rs       *)
(* commit, undo).                                                           *)
THEOREM FreshInserts == Spec => []InsertsAreFresh
<1>1. Strong => InsertsAreFresh
  <2> SUFFICES ASSUME Strong, NEW s \in Session
               PROVE  /\ pc[s] = "replaying" /\ frame[s].k <= Len(txn[s].log) =>
                           (txn[s].log[frame[s].k].op = "insert" =>
                              \A n \in DOMAIN frame[s].next :
                                txn[s].log[frame[s].k].id \notin DOMAIN frame[s].next[n].rows)
                      /\ pc[s] = "undoing" /\ Len(txn[s].log) > frame[s].saved =>
                           (LET c == txn[s].log[Len(txn[s].log)]
                            IN  c.op = "delete" /\ c.table \in DOMAIN txn[s].work =>
                                  c.id \notin DOMAIN txn[s].work[c.table].rows)
    BY DEF InsertsAreFresh
  <2> DEFINE x == txn[s]
             f == frame[s]
             log == x.log
             k == f.k
             saved == f.saved
  <2>1. pc[s] \in {"replaying", "undoing"} =>
          log \in Seq(Change) /\ k \in Nat \ {0} /\ saved \in Nat
    BY DEF Strong, IInv, Locals, LocalOK, GoodTxn, IsTxn, IsFrame
  <2>2. ASSUME pc[s] = "replaying", k <= Len(log), log[k].op = "insert"
        PROVE  \A n \in DOMAIN f.next : log[k].id \notin DOMAIN f.next[n].rows
    <3>1. log \in Seq(Change) /\ k \in Nat \ {0}
      BY <2>1, <2>2
    <3> HIDE DEF log, k
    <3>2. k \in DOMAIN log /\ k >= k
      BY <2>2, <3>1, SMT
    <3>3. log[k].id \notin Ids(f.next)
      BY <2>2, <3>2 DEF Strong, Fresh, log, k
    <3> QED
      BY <3>3 DEF Ids
  <2>3. ASSUME pc[s] = "undoing", Len(log) > saved, log[Len(log)].op = "delete"
        PROVE  log[Len(log)].id \notin DOMAIN x.work[log[Len(log)].table].rows
    <3>1. log \in Seq(Change) /\ saved \in Nat
      BY <2>1, <2>3
    <3> HIDE DEF log, saved
    <3>2. Len(log) \in DOMAIN log
      BY <2>3, <3>1, SMT
    <3>3. Sound(x)
      BY <2>3 DEF Strong, Fresh, InTxn
    <3> QED
      BY <2>3, <3>2, <3>3 DEF Sound, log
  <2> QED
    BY <2>2, <2>3
<1> QED
  BY <1>1, StrongInvariance, PTL

(* ALTER TABLE changes no row, whatever was committed while it drafted: it  *)
(* installs its copy only on the version it copied (session.rs).            *)
THEOREM AlterKeeps == Spec => AlterKeepsRows
<1>1. ASSUME NEW old, NEW new, SameRows(new, old)
      PROVE  DOMAIN new = DOMAIN old /\ Touched(old, new) = {}
  <2>1. DOMAIN new = DOMAIN old /\ \A n \in DOMAIN old : new[n].rows = old[n].rows
    BY <1>1 DEF SameRows
  <2>2. Touched(old, new) = {}
    <3> SUFFICES ASSUME NEW p \in Touched(old, new) PROVE FALSE
      OBVIOUS
    <3>1. PICK n \in DOMAIN old :
            \E j \in DOMAIN old[n].rows \cup DOMAIN new[n].rows :
              ~ /\ j \in DOMAIN old[n].rows
                /\ j \in DOMAIN new[n].rows
                /\ old[n].rows[j] = new[n].rows[j]
      BY DEF Touched
    <3> QED
      BY <2>1, <3>1
  <2> QED
    BY <2>1, <2>2
<1>2. ASSUME Strong, [Next]_vars
      PROVE  [\A s \in Session :
                pc[s] = "altering" /\ pc'[s] # "altering" /\ tables' # tables =>
                  DOMAIN tables' = DOMAIN tables /\ Touched(tables, tables') = {}]_vars
  <2> SUFFICES ASSUME NEW s \in Session, pc[s] = "altering", pc'[s] # "altering",
                      tables' # tables
               PROVE  SameRows(tables', tables)
    BY <1>1
  <2>1. ASSUME NEW r \in Session, Start(r) \/ Continue(r) \/ DdlStep(r)
        PROVE  SameRows(tables', tables)
    <3>1. Moves(r)
      BY <1>2, <2>1, SessionMoves DEF Strong
    <3>2. r = s
      BY <3>1 DEF Moves, OnlySession
    <3>3. Publishes(s)
      BY <3>1, <3>2 DEF Moves, Works, Replays, Drafts
    <3>4. draft[s].version = version /\ tables' = draft[s].cat
      BY <3>3 DEF Publishes
    <3> QED
      BY <1>2, <3>4 DEF Strong, DraftsFit
  <2>2. ASSUME Snapshot \/ RestoreSnapshot \/ Reset
        PROVE  FALSE
    BY <2>2 DEF Snapshot, RestoreSnapshot, Reset, Restore
  <2>3. ASSUME UNCHANGED vars PROVE FALSE
    BY <2>3 DEF vars
  <2> QED
    BY <1>2, <2>1, <2>2, <2>3 DEF Next
<1> QED
  BY <1>2, StrongInvariance, PTL DEF Spec, AlterKeepsRows

=============================================================================
