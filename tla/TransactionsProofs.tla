------------------------ MODULE TransactionsProofs -------------------------
(***************************************************************************)
(* TypeOK and UniqueKeysHold are invariants of Transactions, for any       *)
(* number of sessions, any seed, and statements of any size: INSERT,       *)
(* UPDATE and DELETE preserve IInv, and so do the steps that end a DML     *)
(* statement (the rounds of enforce_foreign_keys, its child side, and      *)
(* undo), blocks, COMMIT, DDL and the test helpers.                        *)
(***************************************************************************)
EXTENDS Invariants, CatalogProofs

(* A step is proved by Zenon unless it names another prover. *)
USE Zenon

(* Sessions run on their own copies: it is enough to look at the session    *)
(* that takes the step.                                                     *)
LEMMA LocalStep ==
  ASSUME IInv, NEW s \in Session, OnlySession(s),
         LocalOK(txn'[s], pc'[s], frame'[s], savepoint'[s], draft'[s])
  PROVE  Locals'
<1>1. \A r \in Session \ {s} :
        LocalOK(txn'[r], pc'[r], frame'[r], savepoint'[r], draft'[r])
  BY DEF IInv, Locals, OnlySession
<1> QED
  BY <1>1 DEF Locals

(* Neither the lock nor who replays changes. *)
LEMMA LockKept ==
  ASSUME IInv, NEW s \in Session, OnlySession(s), lock' = lock,
         pc[s] = "replaying" <=> pc'[s] = "replaying"
  PROVE  LockOK'
  BY DEF IInv, LockOK, OnlySession

(* The transaction a DML statement runs in, also when it is new. *)
LEMMA GetTxnGood ==
  ASSUME IInv, NEW s \in Session
  PROVE  GoodTxn(get_or_insert_txn(s))
<1>1. CASE txn[s] # None
  BY <1>1 DEF IInv, Locals, LocalOK, get_or_insert_txn
<1>2. CASE txn[s] = None
  <2> DEFINE x == [base_version |-> version, work |-> tables, log |-> << >>]
  <2>1. get_or_insert_txn(s) = x
    BY <1>2 DEF get_or_insert_txn
  <2>2. GoodCatalog(tables) /\ version \in Nat
    BY DEF IInv, SharedOK
  <2>3. IsCatalog(x.work)
    BY <2>2 DEF GoodCatalog, IsCatalog, GoodTable
  <2>4. IsTxn(x) /\ LogFits(x)
    BY <2>2, <2>3, SMT DEF IsTxn, LogFits
  <2> QED
    BY <2>1, <2>2, <2>4, SMT DEF GoodTxn
<1> QED
  BY <1>1, <1>2

(* A transaction stays good when a table of its copy is replaced by a good  *)
(* one of the same width and changes of that table are logged.              *)
LEMMA LoggedGood ==
  ASSUME NEW x, GoodTxn(x), NEW n \in DOMAIN x.work,
         NEW t, GoodTable(t), t.columns = x.work[n].columns,
         NEW changes \in Seq(Change),
         \A i \in DOMAIN changes :
           /\ changes[i].table = n
           /\ changes[i].op # "insert" => Len(changes[i].old) = t.columns
  PROVE  LET y == Logged(x, n, t, changes)
         IN  /\ GoodTxn(y)
             /\ Len(y.log) = Len(x.log) + Len(changes)
             /\ DOMAIN y.work = DOMAIN x.work
             /\ \A m \in DOMAIN x.work : y.work[m].columns = x.work[m].columns
<1> DEFINE y == Logged(x, n, t, changes)
           work == [x.work EXCEPT ![n] = t]
           log == x.log \o changes
<1>1. /\ DOMAIN y = {"base_version", "work", "log"}
      /\ y.base_version = x.base_version /\ y.work = work /\ y.log = log
  BY DEF GoodTxn, IsTxn, Logged
<1>2. x.log \in Seq(Change)
  BY DEF GoodTxn, IsTxn
<1>3. log \in Seq(Change) /\ Len(log) = Len(x.log) + Len(changes)
  BY <1>2, SMT
<1>4. /\ DOMAIN work = DOMAIN x.work
      /\ \A m \in DOMAIN x.work : work[m].columns = x.work[m].columns
  OBVIOUS
<1>5. GoodCatalog(work)
  BY DEF GoodTxn, GoodCatalog
<1>6. IsCatalog(work)
  BY <1>5 DEF GoodCatalog, IsCatalog, GoodTable
<1>7. \A i \in DOMAIN log :
        /\ log[i].table \in DOMAIN work
        /\ log[i].op # "insert" => Len(log[i].old) = work[log[i].table].columns
  <2> SUFFICES ASSUME NEW i \in DOMAIN log
               PROVE  /\ log[i].table \in DOMAIN work
                      /\ log[i].op # "insert" =>
                           Len(log[i].old) = work[log[i].table].columns
    OBVIOUS
  <2>1. CASE i \in 1..Len(x.log)
    <3>1. log[i] = x.log[i] /\ i \in DOMAIN x.log
      BY <1>2, <2>1, SMT
    <3>2. LogFits(x)
      BY DEF GoodTxn
    <3> HIDE DEF work, log
    <3> QED
      BY <1>4, <3>1, <3>2 DEF LogFits
  <2>2. CASE i \notin 1..Len(x.log)
    <3>1. i - Len(x.log) \in DOMAIN changes /\ log[i] = changes[i - Len(x.log)]
      BY <1>2, <2>2, SMT
    <3>2. work[n].columns = t.columns /\ n \in DOMAIN work
      OBVIOUS
    <3> HIDE DEF work, log
    <3> QED
      BY <3>1, <3>2
  <2> QED
    BY <2>1, <2>2
<1> HIDE DEF work, log, y
<1>8. IsTxn(y) /\ LogFits(y)
  BY <1>1, <1>3, <1>6, <1>7 DEF IsTxn, LogFits, GoodTxn
<1>9. GoodTxn(y)
  BY <1>1, <1>5, <1>8 DEF GoodTxn
<1> QED
  BY <1>1, <1>3, <1>4, <1>9 DEF y

-----------------------------------------------------------------------------
(* The locals of a session between statements. *)
LEMMA IdleGood == IsFrame(Idle) /\ Idle.saved = 0
  BY SMT DEF IsFrame, Idle

(* Where a statement whose own changes are made goes on. *)
LEMMA EnforceGood ==
  ASSUME IInv, NEW s \in Session, NEW x, GoodTxn(x), NEW saved \in Nat,
         saved <= Len(x.log), NEW origin, Enforce(s, x, saved, origin),
         UNCHANGED <<lock, savepoint, draft>>, pc[s] # "replaying"
  PROVE  LockOK' /\ Domains' /\ Locals'
<1> DEFINE fks == {f \in foreign_keys(x.work) : f.enabled}
           round == [Idle EXCEPT !.saved = saved, !.start = saved,
                                 !.end = Len(x.log), !.origin = origin]
<1>1. Len(x.log) \in Nat
  BY SMT DEF GoodTxn, IsTxn
<1>2. IsFrame(round) /\ round.saved = saved
  BY <1>1, SMT DEF IsFrame, Idle
<1>3. /\ txn' = [txn EXCEPT ![s] = x]
      /\ \/ frame' = [frame EXCEPT ![s] = Idle] /\ pc' = [pc EXCEPT ![s] = "ready"]
         \/ frame' = [frame EXCEPT ![s] = round] /\ pc' = [pc EXCEPT ![s] = "parents"]
  BY DEF Enforce, Goto
<1> HIDE DEF round
<1>4. Domains' /\ OnlySession(s)
  BY <1>3 DEF IInv, Domains, OnlySession, Steps
<1>5. /\ txn'[s] = x
      /\ \/ frame'[s] = Idle /\ pc'[s] = "ready"
         \/ frame'[s] = round /\ pc'[s] = "parents"
      /\ savepoint'[s] = savepoint[s] /\ draft'[s] = draft[s]
  BY <1>3 DEF IInv, Domains
<1>6. savepoint[s] = None \/ IsSavepoint(savepoint[s])
  BY DEF IInv, Locals, LocalOK
<1>7. LocalOK(txn'[s], pc'[s], frame'[s], savepoint'[s], draft'[s])
  BY <1>2, <1>5, <1>6, IdleGood DEF LocalOK
<1>8. LockOK'
  BY <1>4, <1>5, LockKept
<1> QED
  BY <1>4, <1>7, <1>8, LocalStep

(* Where a statement that failed goes on. *)
LEMMA UndoStarts ==
  ASSUME IInv, NEW s \in Session, NEW x, GoodTxn(x), NEW saved \in Nat,
         saved <= Len(x.log), NEW origin, Undo(s, x, saved, origin),
         UNCHANGED <<lock, draft>>, pc[s] # "replaying",
         DOMAIN savepoint' = Session,
         savepoint'[s] = None \/ IsSavepoint(savepoint'[s]),
         \A r \in Session \ {s} : savepoint'[r] = savepoint[r]
  PROVE  LockOK' /\ Domains' /\ Locals'
<1> DEFINE f == [Idle EXCEPT !.saved = saved, !.origin = origin]
<1>1. IsFrame(f) /\ f.saved = saved
  BY SMT DEF IsFrame, Idle
<1>2. /\ txn' = [txn EXCEPT ![s] = x] /\ frame' = [frame EXCEPT ![s] = f]
      /\ pc' = [pc EXCEPT ![s] = "undoing"]
  BY DEF Undo, Goto
<1> HIDE DEF f
<1>3. Domains' /\ OnlySession(s)
  BY <1>2 DEF IInv, Domains, OnlySession, Steps
<1>4. /\ txn'[s] = x /\ frame'[s] = f /\ pc'[s] = "undoing"
      /\ draft'[s] = draft[s]
  BY <1>2 DEF IInv, Domains
<1>5. LocalOK(txn'[s], pc'[s], frame'[s], savepoint'[s], draft'[s])
  BY <1>1, <1>4 DEF LocalOK
<1>6. LockOK'
  BY <1>3, <1>4, LockKept
<1> QED
  BY <1>3, <1>5, <1>6, LocalStep

-----------------------------------------------------------------------------
(* INSERT starts. *)
LEMMA InsertPreserves ==
  ASSUME IInv, NEW s \in Session, NEW n \in TableName, NEW rows \in RowSeqs(n),
         Insert(s, n, rows)
  PROVE  IInv'
<1> DEFINE x == get_or_insert_txn(s)
           f == [Idle EXCEPT !.saved = Len(x.log), !.table = n,
                             !.rows = rows, !.origin = x.work]
<1>1. GoodTxn(x) /\ Len(x.log) \in Nat
  BY GetTxnGood, SMT DEF GoodTxn, IsTxn
<1>2. rows \in Seq(Row) /\ rows # << >>
  <2>1. PICK k \in 1..MaxRows : rows \in [1..k -> Rows[n]]
    BY DEF RowSeqs
  <2>2. k \in Nat /\ k # 0 /\ rows \in [1..k -> Row]
    BY <2>1, InputAssumption, SMT
  <2>3. rows \in Seq(Row)
    BY <2>2, SMT
  <2>4. Len(rows) = k
    BY <2>2, <2>3, SMT
  <2> QED
    BY <2>2, <2>3, <2>4, SMT
<1> HIDE DEF x
<1>3. IsFrame(f) /\ f.saved = Len(x.log) /\ f.table = n /\ f.rows = rows
  BY <1>1, <1>2, SMT DEF IsFrame, Idle
<1>4. /\ pc[s] = "ready"
      /\ n \in DOMAIN x.work
      /\ \A i \in DOMAIN rows : Len(rows[i]) = x.work[n].columns
      /\ txn' = [txn EXCEPT ![s] = x]
      /\ frame' = [frame EXCEPT ![s] = f]
      /\ pc' = [pc EXCEPT ![s] = "inserting"]
      /\ UNCHANGED <<tables, version, lock, next_row_id, snapshot, savepoint, draft>>
  BY DEF Insert, StartDml, Goto, shared, x
<1> HIDE DEF f
<1>5. Domains' /\ OnlySession(s)
  BY <1>4 DEF IInv, Domains, OnlySession, Steps
<1>6. /\ txn'[s] = x /\ frame'[s] = f /\ pc'[s] = "inserting"
      /\ savepoint'[s] = savepoint[s] /\ draft'[s] = draft[s]
  BY <1>4 DEF IInv, Domains
<1>7. savepoint[s] = None \/ IsSavepoint(savepoint[s])
  BY DEF IInv, Locals, LocalOK
<1>8. LocalOK(txn'[s], pc'[s], frame'[s], savepoint'[s], draft'[s])
  <2>1. /\ f.table \in DOMAIN x.work /\ f.rows # << >> /\ f.saved <= Len(x.log)
        /\ \A i \in DOMAIN f.rows : Len(f.rows[i]) = x.work[f.table].columns
    BY <1>1, <1>2, <1>3, <1>4, SMT
  <2>2. LocalOK(x, "inserting", f, savepoint[s], draft[s])
    BY <1>1, <1>3, <1>7, <2>1 DEF LocalOK
  <2> QED
    BY <1>6, <2>2
<1>9. SharedOK' /\ LockOK'
  BY <1>4, <1>5, <1>6, LockKept DEF IInv, SharedOK
<1> QED
  BY <1>5, <1>8, <1>9, LocalStep DEF IInv

(* The table a change replaces stays as wide as it was. *)
LEMMA WorkTableGood ==
  ASSUME NEW x, GoodTxn(x), NEW n \in DOMAIN x.work
  PROVE  /\ n \in TableName /\ GoodTable(x.work[n])
         /\ \A i \in DOMAIN x.work[n].rows :
              i \in Nat /\ Fits(x.work[n], x.work[n].rows[i])
<1>1. n \in TableName /\ GoodTable(x.work[n])
  BY DEF GoodTxn, GoodCatalog
<1> QED
  BY <1>1 DEF GoodTable, IsTable, Fits

(* INSERT stores one row. *)
LEMMA InsertRowPreserves ==
  ASSUME IInv, NEW s \in Session, InsertRow(s)
  PROVE  IInv'
<1> DEFINE x == txn[s]
           f == frame[s]
           n == f.table
           values == Head(f.rows)
           r == Table_insert(x.work[n], next_row_id, values)
           c == Inserted(n, next_row_id, values)
           y == Logged(x, n, r.table, <<c>>)
<1>1. pc[s] = "inserting"
  BY DEF InsertRow
<1>2. /\ GoodTxn(x) /\ IsFrame(f) /\ f.saved <= Len(x.log)
      /\ n \in DOMAIN x.work /\ f.rows # << >>
      /\ \A i \in DOMAIN f.rows : Len(f.rows[i]) = x.work[n].columns
      /\ savepoint[s] = None \/ IsSavepoint(savepoint[s])
  <2>1. LocalOK(x, pc[s], f, savepoint[s], draft[s])
    BY DEF IInv, Locals
  <2> HIDE DEF x, f
  <2> QED
    BY <1>1, <2>1 DEF LocalOK
<1>3. f.rows \in Seq(Row) /\ f.saved \in Nat /\ Len(x.log) \in Nat
  BY <1>2, SMT DEF IsFrame, GoodTxn, IsTxn
<1>4. Fits(x.work[n], values)
  <2>1. 1 \in DOMAIN f.rows /\ values = f.rows[1] /\ f.rows[1] \in Row
    BY <1>2, <1>3, SMT
  <2> QED
    BY <1>2, <2>1 DEF Fits
<1>5. next_row_id \in Nat
  BY DEF IInv, SharedOK
<1>6. GoodTable(r.table) /\ r.table.columns = x.work[n].columns
  BY <1>2, <1>4, <1>5, WorkTableGood, InsertGood
<1>7. c \in Change /\ c.table = n /\ c.op = "insert"
  <2>1. n \in TableName /\ values \in Row
    BY <1>2, <1>4, WorkTableGood DEF Fits
  <2>2. << >> \in Row
    BY SMT DEF Row
  <2> QED
    BY <1>5, <2>1, <2>2 DEF Change, Inserted
<1> HIDE DEF c, r
<1>8. <<c>> \in Seq(Change) /\ Len(<<c>>) = 1 /\ DOMAIN <<c>> = {1} /\ <<c>>[1] = c
  BY <1>7, SMT
<1>9. /\ GoodTxn(y) /\ Len(y.log) = Len(x.log) + 1
      /\ DOMAIN y.work = DOMAIN x.work
      /\ \A m \in DOMAIN x.work : y.work[m].columns = x.work[m].columns
  <2> DEFINE cs == <<c>>
  <2>1. /\ cs \in Seq(Change) /\ Len(cs) = 1
        /\ \A i \in DOMAIN cs :
             /\ cs[i].table = n
             /\ cs[i].op # "insert" => Len(cs[i].old) = r.table.columns
    BY <1>7, <1>8
  <2> DEFINE t == r.table
  <2>2. GoodTxn(x) /\ n \in DOMAIN x.work
    BY <1>2
  <2>3. GoodTable(t) /\ t.columns = x.work[n].columns
    BY <1>6
  <2>4. \A i \in DOMAIN cs :
          cs[i].table = n /\ (cs[i].op # "insert" => Len(cs[i].old) = t.columns)
    BY <2>1
  <2>5. cs \in Seq(Change)
    BY <2>1
  <2> HIDE DEF cs, x, f, n, t
  <2>6. LET z == Logged(x, n, t, cs)
        IN  /\ GoodTxn(z) /\ Len(z.log) = Len(x.log) + Len(cs)
            /\ DOMAIN z.work = DOMAIN x.work
            /\ \A m \in DOMAIN x.work : z.work[m].columns = x.work[m].columns
    BY <2>2, <2>3, <2>4, <2>5, LoggedGood, SMT
  <2> QED
    BY <2>1, <2>6 DEF cs, t
<1>10. SharedOK'
  <2>1. next_row_id' = next_row_id + 1 /\ UNCHANGED <<tables, version, snapshot>>
    BY DEF InsertRow, next_row_id_fetch_add
  <2>2. SharedOK
    BY DEF IInv
  <2> QED
    BY ONLY <2>1, <2>2 DEF SharedOK
<1>11. /\ DOMAIN savepoint = Session /\ DOMAIN draft = Session
       /\ UNCHANGED <<lock, savepoint, draft>>
  BY DEF InsertRow, IInv, Domains
<1>12. CASE Undo(s, x, f.saved, f.origin)
  BY <1>1, <1>2, <1>3, <1>10, <1>11, <1>12, UndoStarts DEF IInv
<1>13. CASE Enforce(s, y, f.saved, f.origin)
  <2> HIDE DEF y
  <2>1. f.saved <= Len(y.log)
    BY ONLY <1>2, <1>3, <1>9
  <2> QED
    BY <1>1, <1>3, <1>9, <1>10, <1>11, <1>13, <2>1, EnforceGood DEF IInv
<1>14. CASE /\ Tail(f.rows) # << >>
            /\ txn' = [txn EXCEPT ![s] = y]
            /\ frame' = [frame EXCEPT ![s].rows = Tail(@)]
            /\ UNCHANGED pc
  <2> DEFINE g == [f EXCEPT !.rows = Tail(f.rows)]
  <2>1. Domains' /\ OnlySession(s)
    BY <1>11, <1>14 DEF IInv, Domains, OnlySession
  <2>2. /\ txn'[s] = y /\ frame'[s] = g /\ pc'[s] = "inserting"
        /\ savepoint'[s] = savepoint[s] /\ draft'[s] = draft[s]
    BY <1>1, <1>11, <1>14 DEF IInv, Domains
  <2>3. /\ Tail(f.rows) \in Seq(Row)
        /\ \A i \in DOMAIN Tail(f.rows) : Len(Tail(f.rows)[i]) = x.work[n].columns
    <3> DEFINE rows == f.rows
               width == x.work[n].columns
    <3>1. /\ rows \in Seq(Row) /\ rows # << >>
          /\ \A i \in DOMAIN rows : Len(rows[i]) = width
      BY <1>2, <1>3
    <3> HIDE DEF rows, width
    <3>2. /\ Tail(rows) \in Seq(Row)
          /\ \A i \in DOMAIN Tail(rows) : i + 1 \in DOMAIN rows /\ Tail(rows)[i] = rows[i + 1]
      BY ONLY <3>1
    <3>3. \A i \in DOMAIN Tail(rows) : Len(Tail(rows)[i]) = width
      BY ONLY <3>1, <3>2
    <3> QED
      BY <3>2, <3>3 DEF rows, width
  <2>4. IsFrame(g) /\ g.table = n /\ g.rows = Tail(f.rows) /\ g.saved = f.saved
    <3>1. DOMAIN f = DOMAIN Idle /\ f.fk \in Nat \ {0} /\ f.k \in Nat \ {0}
      BY <1>2 DEF IsFrame
    <3>2. /\ DOMAIN g = DOMAIN Idle /\ g.rows = Tail(f.rows)
          /\ g.saved = f.saved /\ g.start = f.start /\ g.end = f.end
          /\ g.fk = f.fk /\ g.k = f.k /\ g.after = f.after /\ g.table = n
      BY <3>1 DEF Idle
    <3> QED
      BY <1>2, <2>3, <3>2 DEF IsFrame
  <2> HIDE DEF g, y, x, f, n
  <2>5. /\ g.table \in DOMAIN y.work /\ g.rows # << >> /\ g.saved <= Len(y.log)
        /\ \A i \in DOMAIN g.rows : Len(g.rows[i]) = y.work[g.table].columns
    BY <1>2, <1>3, <1>9, <1>14, <2>3, <2>4, SMT
  <2>6. LocalOK(y, "inserting", g, savepoint[s], draft[s])
    BY <1>2, <1>9, <2>4, <2>5 DEF LocalOK
  <2>7. Locals'
    BY <2>1, <2>2, <2>6, LocalStep
  <2>8. LockOK'
    BY <1>1, <1>11, <2>1, <2>2, LockKept
  <2> QED
    BY <1>10, <2>1, <2>7, <2>8 DEF IInv
<1> QED
  BY <1>12, <1>13, <1>14 DEF InsertRow, r, c

(* Updates and deletions of a set of rows, logged in the order of `ids`. *)
LEMMA IdSeqsAre ==
  ASSUME NEW S, NEW ids \in IdSeqs(S)
  PROVE  \E k \in Nat : k # 0 /\ ids \in [1..k -> S]
  BY InputAssumption, SMT DEF IdSeqs

(* DELETE, and ON DELETE CASCADE: the rows go, and each is logged. *)
LEMMA DeleteLogged ==
  ASSUME NEW x, GoodTxn(x), NEW n \in DOMAIN x.work, NEW k \in Nat,
         NEW ids \in [1..k -> DOMAIN x.work[n].rows], NEW gone
  PROVE  LET t == x.work[n]
             changes == [i \in DOMAIN ids |-> Deleted(n, ids[i], t.rows[ids[i]])]
             y == Logged(x, n, Table_delete(t, gone), changes)
         IN  GoodTxn(y) /\ Len(x.log) <= Len(y.log)
<1> DEFINE t == x.work[n]
           changes == [i \in DOMAIN ids |-> Deleted(n, ids[i], t.rows[ids[i]])]
           rt == Table_delete(t, gone)
           y == Logged(x, n, rt, changes)
<1>1. /\ n \in TableName /\ GoodTable(t)
      /\ \A i \in DOMAIN t.rows : i \in Nat /\ Fits(t, t.rows[i])
  BY WorkTableGood
<1>2. ids \in [1..k -> DOMAIN t.rows]
  OBVIOUS
<1>3. GoodTable(rt) /\ rt.columns = x.work[n].columns
  BY <1>1, DeleteGood
<1> HIDE DEF t
<1>4. \A i \in 1..k : /\ changes[i] \in Change /\ changes[i].table = n
                      /\ Len(changes[i].old) = t.columns
  <2>1. << >> \in Row
    BY SMT DEF Row
  <2> QED
    BY <1>1, <1>2, <2>1 DEF Change, Deleted, Fits
<1>5. DOMAIN changes = 1..k /\ changes \in [1..k -> Change]
  BY <1>2, <1>4
<1> HIDE DEF changes, rt
<1>6. changes \in Seq(Change) /\ Len(changes) \in Nat
  BY <1>5, SMT
<1>7. \A i \in DOMAIN changes :
        changes[i].table = n /\ Len(changes[i].old) = rt.columns
  BY <1>3, <1>4, <1>5 DEF t
<1>8. GoodTxn(y) /\ Len(y.log) = Len(x.log) + Len(changes)
  BY <1>3, <1>6, <1>7, LoggedGood
<1>9. Len(x.log) \in Nat
  BY SMT DEF GoodTxn, IsTxn
<1>10. Len(x.log) <= Len(y.log)
  BY <1>6, <1>8, <1>9, SMT
<1> QED
  BY <1>8, <1>10 DEF t, changes, rt

(* DELETE. *)
LEMMA DeletePreserves ==
  ASSUME IInv, NEW s \in Session, NEW n, NEW ids, Delete(s, n, ids)
  PROVE  IInv'
<1> DEFINE x == get_or_insert_txn(s)
           t == x.work[n]
           changes == [i \in DOMAIN ids |-> Deleted(n, ids[i], t.rows[ids[i]])]
           gone == {ids[i] : i \in DOMAIN ids}
           y == Logged(x, n, Table_delete(t, gone), changes)
<1>1. /\ GoodTxn(x) /\ Len(x.log) \in Nat
  BY GetTxnGood, SMT DEF GoodTxn, IsTxn
<1>2. /\ pc[s] = "ready" /\ n \in DOMAIN x.work
      /\ ids \in IdSeqs(DOMAIN t.rows)
      /\ Enforce(s, y, Len(x.log), x.work)
      /\ UNCHANGED <<tables, version, lock, next_row_id, snapshot, savepoint, draft>>
  BY DEF Delete, StartDml, shared
<1>3. PICK k \in Nat : ids \in [1..k -> DOMAIN t.rows]
  BY <1>2, IdSeqsAre
<1> HIDE DEF x, gone
<1>4. GoodTxn(y) /\ Len(x.log) <= Len(y.log)
  BY <1>1, <1>2, <1>3, DeleteLogged
<1> HIDE DEF y
<1>5. LockOK' /\ Domains' /\ Locals'
  BY <1>1, <1>2, <1>4, EnforceGood
<1> QED
  BY <1>2, <1>5 DEF IInv, SharedOK

(* The batch of an UPDATE, its entries logged, and the rows it replaces. *)
LEMMA UpdateLogged ==
  ASSUME NEW x, GoodTxn(x), NEW n \in DOMAIN x.work, NEW k \in Nat,
         NEW ids \in [1..k -> DOMAIN x.work[n].rows], NEW new,
         \A i \in 1..k : Fits(x.work[n], new[i])
  PROVE  LET t == x.work[n]
             batch == [i \in DOMAIN ids |-> [id |-> ids[i], values |-> new[i]]]
             changes == [i \in DOMAIN ids |->
                           Updated(n, ids[i], new[i], t.rows[ids[i]])]
             r == Table_update(t, batch)
             y == Logged(x, n, r.table, changes)
         IN  /\ GoodTable(r.table) /\ r.table.columns = t.columns
             /\ GoodTxn(y) /\ Len(x.log) <= Len(y.log)
<1> DEFINE t == x.work[n]
           batch == [i \in DOMAIN ids |-> [id |-> ids[i], values |-> new[i]]]
           changes == [i \in DOMAIN ids |-> Updated(n, ids[i], new[i], t.rows[ids[i]])]
           rt == Table_update(t, batch).table
           y == Logged(x, n, rt, changes)
<1>1. /\ n \in TableName /\ GoodTable(t)
      /\ \A i \in DOMAIN t.rows : i \in Nat /\ Fits(t, t.rows[i])
  BY WorkTableGood
<1>2. \A i \in 1..k : Fits(t, new[i])
  OBVIOUS
<1>3. ids \in [1..k -> DOMAIN t.rows]
  OBVIOUS
<1> HIDE DEF t
<1>4. \A i \in 1..k : batch[i] \in Entry /\ batch[i].values = new[i]
  BY <1>1, <1>2, <1>3 DEF Entry, Fits
<1>5. DOMAIN batch = 1..k /\ batch \in [1..k -> Entry]
  BY <1>3, <1>4
<1>6. \A i \in 1..k : /\ changes[i] \in Change /\ changes[i].table = n
                      /\ Len(changes[i].old) = t.columns
  BY <1>1, <1>2, <1>3 DEF Change, Updated, Fits
<1>7. DOMAIN changes = 1..k /\ changes \in [1..k -> Change]
  BY <1>3, <1>6
<1> HIDE DEF batch, changes
<1>8. batch \in Seq(Entry) /\ changes \in Seq(Change) /\ Len(changes) \in Nat
  BY <1>5, <1>7, SMT
<1>9. GoodTable(rt) /\ rt.columns = t.columns
  <2>1. \A i \in DOMAIN batch : Fits(t, batch[i].values)
    BY <1>2, <1>4, <1>5
  <2> QED
    BY <1>1, <1>8, <2>1, UpdateGood
<1> HIDE DEF rt
<1>10. GoodTxn(y) /\ Len(y.log) = Len(x.log) + Len(changes)
  <2>1. rt.columns = x.work[n].columns
    BY <1>9 DEF t
  <2>2. \A i \in DOMAIN changes :
          changes[i].table = n /\ Len(changes[i].old) = rt.columns
    BY <1>6, <1>7, <1>9
  <2> QED
    BY <1>8, <1>9, <2>1, <2>2, LoggedGood
<1>11. Len(x.log) \in Nat
  BY SMT DEF GoodTxn, IsTxn
<1>12. Len(x.log) <= Len(y.log)
  BY <1>8, <1>10, <1>11, SMT
<1> QED
  BY <1>9, <1>10, <1>12 DEF t, batch, changes, rt

(* A copy in which only table n was replaced, nothing logged: what a failed *)
(* Table::update leaves behind.                                             *)
LEMMA ReplacedGood ==
  ASSUME NEW x, GoodTxn(x), NEW n \in DOMAIN x.work,
         NEW t, GoodTable(t), t.columns = x.work[n].columns
  PROVE  LET y == [x EXCEPT !.work = [x.work EXCEPT ![n] = t]]
         IN  GoodTxn(y) /\ y.log = x.log /\ Logged(x, n, t, << >>) = y
<1> DEFINE y == [x EXCEPT !.work = [x.work EXCEPT ![n] = t]]
           e == << >>
<1>1. DOMAIN x = {"base_version", "work", "log"} /\ x.log \in Seq(Change)
  BY DEF GoodTxn, IsTxn
<1>2. x.log \o << >> = x.log
  BY <1>1, SMT
<1>3. Logged(x, n, t, << >>) = y /\ y.log = x.log
  BY <1>1, <1>2 DEF Logged
<1>4. e \in Seq(Change) /\ DOMAIN e = {}
  BY SMT
<1> HIDE DEF e
<1>5. GoodTxn(Logged(x, n, t, e))
  BY <1>4, LoggedGood
<1> QED
  BY <1>3, <1>5 DEF e

(* The same, said of Logged. *)
LEMMA NothingLogged ==
  ASSUME NEW x, GoodTxn(x), NEW n \in DOMAIN x.work,
         NEW t, GoodTable(t), t.columns = x.work[n].columns
  PROVE  GoodTxn(Logged(x, n, t, << >>)) /\ Logged(x, n, t, << >>).log = x.log
<1> DEFINE y == [x EXCEPT !.work = [x.work EXCEPT ![n] = t]]
<1>1. GoodTxn(y) /\ y.log = x.log /\ Logged(x, n, t, << >>) = y
  BY ReplacedGood, SMT
<1> HIDE DEF y
<1> QED
  BY <1>1

LEMMA NotMore == \A l \in Nat : l <= l
BY SMT

(* UPDATE. *)
LEMMA UpdatePreserves ==
  ASSUME IInv, NEW s \in Session, NEW n \in TableName, NEW ids,
         NEW new \in [DOMAIN ids -> Rows[n]], Update(s, n, ids, new)
  PROVE  IInv'
<1> DEFINE x == get_or_insert_txn(s)
           t == x.work[n]
           batch == [i \in DOMAIN ids |-> [id |-> ids[i], values |-> new[i]]]
           changes == [i \in DOMAIN ids |-> Updated(n, ids[i], new[i], t.rows[ids[i]])]
           r == Table_update(t, batch)
           y == Logged(x, n, r.table, changes)
           z == [x EXCEPT !.work = [x.work EXCEPT ![n] = r.table]]
<1>1. GoodTxn(x) /\ Len(x.log) \in Nat
  <2>1. GoodTxn(x)
    BY GetTxnGood
  <2> HIDE DEF x
  <2>2. x.log \in Seq(Change)
    BY <2>1 DEF GoodTxn, IsTxn
  <2> QED
    BY <2>1, <2>2, SMT
<1>2. /\ pc[s] = "ready" /\ n \in DOMAIN x.work
      /\ ids \in IdSeqs(DOMAIN t.rows)
      /\ \A i \in DOMAIN new : Len(new[i]) = t.columns
      /\ \/ Enforce(s, y, Len(x.log), x.work)
         \/ Undo(s, z, Len(x.log), x.work)
      /\ UNCHANGED <<tables, version, lock, next_row_id, snapshot, savepoint, draft>>
  BY DEF Update, StartDml, shared
<1>3. PICK k \in Nat : ids \in [1..k -> DOMAIN t.rows]
  BY <1>2, IdSeqsAre
<1>4. \A i \in 1..k : Fits(t, new[i])
  <2>1. Rows[n] \subseteq Row
    BY InputAssumption
  <2> HIDE DEF t
  <2> QED
    BY <1>2, <1>3, <2>1 DEF Fits
<1> HIDE DEF x
<1>5. /\ GoodTable(r.table) /\ r.table.columns = t.columns
      /\ GoodTxn(y) /\ Len(x.log) <= Len(y.log)
  BY <1>1, <1>2, <1>3, <1>4, UpdateLogged
<1> HIDE DEF r, y
<1>6. GoodTxn(z) /\ z.log = x.log
  BY <1>1, <1>2, <1>5, ReplacedGood
<1> HIDE DEF z
<1>7. /\ DOMAIN savepoint = Session
      /\ savepoint[s] = None \/ IsSavepoint(savepoint[s])
  BY DEF IInv, Locals, LocalOK, Domains
<1>8. ASSUME Enforce(s, y, Len(x.log), x.work)
      PROVE  LockOK' /\ Domains' /\ Locals'
  BY <1>1, <1>2, <1>5, <1>8, EnforceGood
<1>9. ASSUME Undo(s, z, Len(x.log), x.work)
      PROVE  LockOK' /\ Domains' /\ Locals'
  <2>1. Len(x.log) <= Len(z.log)
    <3>1. Len(x.log) \in Nat /\ Len(z.log) = Len(x.log)
      BY <1>1, <1>6
    <3> QED
      BY ONLY <3>1, NotMore
  <2> QED
    BY <1>1, <1>2, <1>6, <1>7, <1>9, <2>1, UndoStarts
<1>10. SharedOK'
  BY <1>2 DEF IInv, SharedOK
<1> QED
  BY <1>2, <1>8, <1>9, <1>10 DEF IInv

-----------------------------------------------------------------------------
(* Where a DML statement is after a step. *)
DmlLocals(x, p, f) ==
  /\ p \in {"ready", "parents", "children", "undoing"}
  /\ x # None \/ p # "ready" => GoodTxn(x)
  /\ IsFrame(f)
  /\ p # "ready" => f.saved <= Len(x.log)

(* A step of a DML statement keeps its savepoint and its draft, and does    *)
(* not touch the lock.                                                      *)
LEMMA DmlStep ==
  ASSUME IInv, NEW s \in Session, UNCHANGED <<lock, savepoint, draft>>,
         OnlySession(s), pc[s] # "replaying",
         DmlLocals(txn'[s], pc'[s], frame'[s])
  PROVE  LockOK' /\ Locals'
<1>1. savepoint[s] = None \/ IsSavepoint(savepoint[s])
  BY DEF IInv, Locals, LocalOK
<1>2. LocalOK(txn'[s], pc'[s], frame'[s], savepoint'[s], draft'[s])
  BY <1>1 DEF LocalOK, DmlLocals
<1>3. Locals'
  BY <1>2, LocalStep
<1>4. LockOK'
  BY LockKept DEF DmlLocals
<1> QED
  BY <1>3, <1>4

(* The locals a round of enforce_foreign_keys changes. *)
LEMMA RoundFrame ==
  ASSUME NEW f, IsFrame(f), NEW last \in Nat
  PROVE  /\ LET g == [f EXCEPT !.fk = @ + 1]
            IN  IsFrame(g) /\ g.saved = f.saved
         /\ LET g == [f EXCEPT !.start = f.end, !.end = last, !.fk = 1]
            IN  IsFrame(g) /\ g.saved = f.saved
<1> DEFINE g == [f EXCEPT !.fk = @ + 1]
           h == [f EXCEPT !.start = f.end, !.end = last, !.fk = 1]
<1>1. DOMAIN f = DOMAIN Idle /\ f.fk + 1 \in Nat \ {0} /\ f.end \in Nat
  BY SMT DEF IsFrame
<1>2. /\ DOMAIN g = DOMAIN Idle /\ g.rows = f.rows /\ g.saved = f.saved
      /\ g.start = f.start /\ g.end = f.end /\ g.fk = f.fk + 1
      /\ g.k = f.k /\ g.after = f.after
  BY <1>1 DEF Idle
<1>3. /\ DOMAIN h = DOMAIN Idle /\ h.rows = f.rows /\ h.saved = f.saved
      /\ h.start = f.end /\ h.end = last /\ h.fk = 1
      /\ h.k = f.k /\ h.after = f.after
  BY <1>1 DEF Idle
<1> HIDE DEF g, h
<1>4. IsFrame(g) /\ IsFrame(h)
  BY <1>1, <1>2, <1>3, SMT DEF IsFrame
<1> QED
  BY <1>2, <1>3, <1>4 DEF g, h

(* ON DELETE SET NULL writes rows that fit the child table. *)
LEMMA NulledFits ==
  ASSUME NEW t, NEW values, Fits(t, values), NEW f
  PROVE  Fits(t, nulled(f, values))
<1> DEFINE v == nulled(f, values)
<1>1. values \in Seq(Cell) /\ Len(values) = t.columns
  BY DEF Fits, Row
<1>2. DOMAIN values = 1..Len(values) /\ Len(values) \in Nat
  BY <1>1, SMT
<1>3. v \in [1..Len(values) -> Cell]
  BY <1>1, <1>2, SMT DEF nulled, Cell
<1>4. v \in Seq(Cell) /\ Len(v) = Len(values)
  BY <1>2, <1>3, SMT
<1> QED
  BY <1>1, <1>4 DEF Fits, Row

(* The child rows of a foreign key that reference some keys, in any order. *)
LEMMA ChildrenAre ==
  ASSUME NEW x, GoodTxn(x), NEW f \in foreign_keys(x.work), NEW keys
  PROVE  LET hits == children(x.work, f, keys)
         IN  /\ f.child \in DOMAIN x.work
             /\ hits \subseteq DOMAIN x.work[f.child].rows
             /\ Cardinality(hits) \in Nat
<1>1. f.child \in DOMAIN x.work
  BY SMT DEF foreign_keys
<1>2. children(x.work, f, keys) \subseteq DOMAIN x.work[f.child].rows
  BY DEF children
<1>3. IsFiniteSet(DOMAIN x.work[f.child].rows)
  BY <1>1, WorkTableGood DEF GoodTable, IsTable
<1>4. IsFiniteSet(children(x.work, f, keys))
  BY <1>2, <1>3, FS_Subset
<1> QED
  BY <1>1, <1>2, <1>4, FS_CardinalityType

(* One foreign key of a round. *)
LEMMA EnforceParentPreserves ==
  ASSUME IInv, NEW s \in Session, pc[s] = "parents",
         NEW f \in foreign_keys(txn[s].work), EnforceParent(s, f),
         UNCHANGED <<lock, savepoint, draft>>
  PROVE  LockOK' /\ Domains' /\ Locals'
<1> DEFINE x == txn[s]
           fr == frame[s]
           g == [fr EXCEPT !.fk = @ + 1]
           n == f.child
           child == x.work[n]
           hits == children(x.work, f, deleted_keys(x.work, f, RoundChanges(s)))
<1>1. /\ GoodTxn(x) /\ IsFrame(fr) /\ fr.saved <= Len(x.log) /\ fr.saved \in Nat
      /\ savepoint[s] = None \/ IsSavepoint(savepoint[s])
      /\ DOMAIN savepoint = Session /\ DOMAIN frame = Session
  BY DEF IInv, Locals, LocalOK, Domains, IsFrame
<1>2. IsFrame(g) /\ g.saved = fr.saved
  BY <1>1, RoundFrame
<1>3. Len(x.log) \in Nat
  BY <1>1, SMT DEF GoodTxn, IsTxn
<1>4. ASSUME NEW y, GoodTxn(y), Len(x.log) <= Len(y.log),
             \/ txn' = [txn EXCEPT ![s] = y]
             \/ txn' = txn /\ y = txn[s],
             NextForeignKey(s)
      PROVE  LockOK' /\ Domains' /\ Locals'
  <2>1. frame' = [frame EXCEPT ![s] = g] /\ pc' = pc
    BY <1>1, <1>4 DEF NextForeignKey
  <2>2. Len(y.log) \in Nat
    BY <1>4, SMT DEF GoodTxn, IsTxn
  <2>3. g.saved <= Len(y.log)
    BY <1>1, <1>2, <1>3, <1>4, <2>2, SMT
  <2>4. Domains' /\ OnlySession(s)
    BY <1>4, <2>1 DEF IInv, Domains, OnlySession, Steps
  <2>5. txn'[s] = y /\ pc'[s] = "parents" /\ frame'[s] = g
    BY <1>4, <2>1 DEF IInv, Domains
  <2> HIDE DEF g
  <2>6. DmlLocals(y, "parents", g)
    BY <1>2, <1>4, <2>3 DEF DmlLocals
  <2> QED
    BY <2>4, <2>5, <2>6, DmlStep
<1>5. ASSUME NEW y, GoodTxn(y), Len(x.log) <= Len(y.log),
             Undo(s, y, fr.saved, fr.origin)
      PROVE  LockOK' /\ Domains' /\ Locals'
  <2>1. Len(y.log) \in Nat
    BY <1>5, SMT DEF GoodTxn, IsTxn
  <2>2. fr.saved <= Len(y.log)
    BY <1>1, <1>3, <1>5, <2>1, SMT
  <2> QED
    BY <1>1, <1>5, <2>2, UndoStarts
<1>6. CASE Undo(s, x, fr.saved, fr.origin)
  BY <1>1, <1>3, <1>5, <1>6, SMT
<1>7. CASE NextForeignKey(s) /\ UNCHANGED txn
  BY <1>1, <1>3, <1>4, <1>7, SMT
<1>8. ASSUME NEW ids \in [1..Cardinality(hits) -> hits]
      PROVE  LET old(i) == child.rows[ids[i]]
                 batch == [i \in DOMAIN ids |->
                             [id |-> ids[i], values |-> nulled(f, old(i))]]
                 r == Table_update(child, batch)
                 cascaded == [i \in DOMAIN ids |-> Deleted(n, ids[i], old(i))]
                 cleared == [i \in DOMAIN ids |->
                               Updated(n, ids[i], batch[i].values, old(i))]
                 gone == Logged(x, n, Table_delete(child, hits), cascaded)
                 set == Logged(x, n, r.table, cleared)
                 failed == Logged(x, n, r.table, << >>)
             IN  /\ GoodTxn(gone) /\ Len(x.log) <= Len(gone.log)
                 /\ GoodTxn(set) /\ Len(x.log) <= Len(set.log)
                 /\ GoodTxn(failed) /\ Len(x.log) <= Len(failed.log)
  <2> DEFINE k == Cardinality(hits)
             new == [i \in DOMAIN ids |-> nulled(f, child.rows[ids[i]])]
             batch == [i \in DOMAIN ids |-> [id |-> ids[i], values |-> new[i]]]
             r == Table_update(child, batch)
             cascaded == [i \in DOMAIN ids |->
                            Deleted(n, ids[i], child.rows[ids[i]])]
             cleared == [i \in DOMAIN ids |->
                           Updated(n, ids[i], new[i], child.rows[ids[i]])]
             gone == Logged(x, n, Table_delete(child, hits), cascaded)
             set == Logged(x, n, r.table, cleared)
             failed == Logged(x, n, r.table, << >>)
  <2>1. n \in DOMAIN x.work /\ hits \subseteq DOMAIN child.rows /\ k \in Nat
    BY <1>1, ChildrenAre
  <2> HIDE DEF hits, x, n
  <2>2. ids \in [1..k -> DOMAIN child.rows]
    BY <1>8, <2>1
  <2>3. \A i \in 1..k : Fits(child, new[i])
    BY <1>1, <2>1, <2>2, WorkTableGood, NulledFits
  <2>4. GoodTxn(gone) /\ Len(x.log) <= Len(gone.log)
    BY <1>1, <2>1, <2>2, DeleteLogged
  <2> HIDE DEF new
  <2>5. /\ GoodTable(r.table) /\ r.table.columns = child.columns
        /\ GoodTxn(set) /\ Len(x.log) <= Len(set.log)
    BY <1>1, <2>1, <2>2, <2>3, UpdateLogged
  <2> HIDE DEF r
  <2>6. GoodTxn(failed) /\ failed.log = x.log
    <3> DEFINE rt == r.table
    <3>1. GoodTable(rt) /\ rt.columns = x.work[n].columns
      BY <2>5
    <3> HIDE DEF rt
    <3>2. GoodTxn(Logged(x, n, rt, << >>)) /\ Logged(x, n, rt, << >>).log = x.log
      BY <1>1, <2>1, <3>1, NothingLogged
    <3> QED
      BY <3>2 DEF rt
  <2>7. Len(x.log) <= Len(failed.log)
    BY <1>3, <2>6, SMT
  <2>8. /\ batch = [i \in DOMAIN ids |->
                      [id |-> ids[i], values |-> nulled(f, child.rows[ids[i]])]]
        /\ \A i \in DOMAIN ids : batch[i].values = new[i]
    BY DEF new
  <2>9. cleared = [i \in DOMAIN ids |->
                     Updated(n, ids[i], batch[i].values, child.rows[ids[i]])]
    BY <2>8
  <2> QED
    BY <2>4, <2>5, <2>6, <2>7, <2>8, <2>9 DEF r
<1> HIDE DEF x, fr, g, n, child, hits
<1>9. CASE \E ids \in [1..Cardinality(hits) -> hits] :
             LET old(i) == child.rows[ids[i]]
                 batch == [i \in DOMAIN ids |->
                             [id |-> ids[i], values |-> nulled(f, old(i))]]
                 r == Table_update(child, batch)
                 cascaded == [i \in DOMAIN ids |-> Deleted(n, ids[i], old(i))]
                 cleared == [i \in DOMAIN ids |->
                               Updated(n, ids[i], batch[i].values, old(i))]
             IN  \/ /\ txn' = [txn EXCEPT ![s] =
                          Logged(x, n, Table_delete(child, hits), cascaded)]
                    /\ NextForeignKey(s)
                 \/ /\ txn' = [txn EXCEPT ![s] = Logged(x, n, r.table, cleared)]
                    /\ NextForeignKey(s)
                 \/ Undo(s, Logged(x, n, r.table, << >>), fr.saved, fr.origin)
  BY <1>4, <1>5, <1>8, <1>9
<1> QED
  BY <1>6, <1>7, <1>9 DEF EnforceParent, x, fr, n, child, hits

(* The parent side of enforce_foreign_keys. *)
LEMMA ParentsPreserves ==
  ASSUME IInv, NEW s \in Session, Parents(s)
  PROVE  IInv'
<1> DEFINE x == txn[s]
           fr == frame[s]
           visited == {f \in foreign_keys(x.work) : f.enabled /\ f.name = FkOrder[fr.fk]}
           g == [fr EXCEPT !.fk = @ + 1]
           h == [fr EXCEPT !.start = fr.end, !.end = Len(x.log), !.fk = 1]
<1>1. pc[s] = "parents" /\ UNCHANGED <<shared, savepoint, draft>>
  BY DEF Parents
<1>2. /\ GoodTxn(x) /\ IsFrame(fr) /\ fr.saved <= Len(x.log)
      /\ DOMAIN frame = Session
  BY <1>1 DEF IInv, Locals, LocalOK, Domains
<1>3. Len(x.log) \in Nat
  BY <1>2, SMT DEF GoodTxn, IsTxn
<1>4. IsFrame(g) /\ g.saved = fr.saved /\ IsFrame(h) /\ h.saved = fr.saved
  <2> DEFINE last == Len(x.log)
  <2>1. last \in Nat
    BY <1>3
  <2> HIDE DEF last, fr
  <2>2. /\ IsFrame([fr EXCEPT !.fk = @ + 1])
        /\ [fr EXCEPT !.fk = @ + 1].saved = fr.saved
        /\ IsFrame([fr EXCEPT !.start = fr.end, !.end = last, !.fk = 1])
        /\ [fr EXCEPT !.start = fr.end, !.end = last, !.fk = 1].saved = fr.saved
    BY <1>2, <2>1, RoundFrame
  <2> QED
    BY <2>2 DEF last
<1>5. SharedOK' /\ UNCHANGED <<lock, savepoint, draft>>
  BY <1>1 DEF shared, IInv, SharedOK
<1>6. ASSUME NextForeignKey(s), UNCHANGED txn
      PROVE  LockOK' /\ Domains' /\ Locals'
  <2>1. frame' = [frame EXCEPT ![s] = g] /\ pc' = pc /\ g.saved <= Len(x.log)
    BY <1>2, <1>4, <1>6 DEF NextForeignKey
  <2>2. Domains' /\ OnlySession(s)
    BY <1>1, <1>5, <1>6, <2>1 DEF IInv, Domains, OnlySession, Steps
  <2>3. txn'[s] = x /\ pc'[s] = "parents" /\ frame'[s] = g
    BY <1>1, <1>5, <1>6, <2>1 DEF IInv, Domains
  <2> HIDE DEF g, x, fr
  <2>4. DmlLocals(x, "parents", g)
    BY <1>2, <1>4, <2>1 DEF DmlLocals
  <2> QED
    BY <1>1, <1>5, <2>2, <2>3, <2>4, DmlStep
<1>7. ASSUME NEW f \in visited, EnforceParent(s, f)
      PROVE  LockOK' /\ Domains' /\ Locals'
  BY <1>1, <1>5, <1>7, EnforceParentPreserves
<1>8. ASSUME frame' = [frame EXCEPT ![s].start = frame[s].end,
                                    ![s].end = Len(x.log), ![s].fk = 1],
             UNCHANGED <<txn, pc>>
      PROVE  LockOK' /\ Domains' /\ Locals'
  <2>1. frame' = [frame EXCEPT ![s] = [frame[s] EXCEPT !.start = frame[s].end,
                                              !.end = Len(x.log), !.fk = 1]]
    BY <1>8
  <2>2. frame' = [frame EXCEPT ![s] = h] /\ h.saved <= Len(x.log)
    BY <1>2, <1>4, <2>1
  <2>3. Domains' /\ OnlySession(s)
    BY <1>1, <1>5, <1>8, <2>2 DEF IInv, Domains, OnlySession, Steps
  <2>4. txn'[s] = x /\ pc'[s] = "parents" /\ frame'[s] = h
    BY <1>1, <1>5, <1>8, <2>2 DEF IInv, Domains
  <2> HIDE DEF h, x, fr
  <2>5. DmlLocals(x, "parents", h)
    BY <1>2, <1>4, <2>2 DEF DmlLocals
  <2> QED
    BY <1>1, <1>5, <2>3, <2>4, <2>5, DmlStep
<1>9. ASSUME Goto(s, "children"), UNCHANGED <<txn, frame>>
      PROVE  LockOK' /\ Domains' /\ Locals'
  <2>1. pc' = [pc EXCEPT ![s] = "children"]
    BY <1>9 DEF Goto
  <2>2. Domains' /\ OnlySession(s)
    BY <1>1, <1>5, <1>9, <2>1 DEF IInv, Domains, OnlySession, Steps
  <2>3. txn'[s] = x /\ pc'[s] = "children" /\ frame'[s] = fr
    BY <1>1, <1>5, <1>9, <2>1 DEF IInv, Domains
  <2> HIDE DEF x, fr
  <2>4. DmlLocals(x, "children", fr)
    BY <1>2 DEF DmlLocals
  <2> QED
    BY <1>1, <1>5, <2>2, <2>3, <2>4, DmlStep
<1> QED
  BY <1>5, <1>6, <1>7, <1>8, <1>9 DEF Parents, IInv

(* A statement that ends without a change leaves no transaction. *)
LEMMA SettleGood ==
  ASSUME NEW x, GoodTxn(x), Settle(x) # None
  PROVE  GoodTxn(Settle(x))
  BY DEF Settle

(* The child side of enforce_foreign_keys. *)
LEMMA ChildrenPreserves ==
  ASSUME IInv, NEW s \in Session, Children(s)
  PROVE  IInv'
<1> DEFINE x == txn[s]
           fr == frame[s]
<1>1. pc[s] = "children" /\ UNCHANGED <<shared, savepoint, draft>>
  BY DEF Children
<1>2. /\ GoodTxn(x) /\ fr.saved <= Len(x.log) /\ fr.saved \in Nat
      /\ savepoint[s] = None \/ IsSavepoint(savepoint[s])
      /\ DOMAIN savepoint = Session
  BY <1>1 DEF IInv, Locals, LocalOK, Domains, IsFrame
<1>3. SharedOK' /\ UNCHANGED <<lock, savepoint, draft>>
  BY <1>1 DEF shared, IInv, SharedOK
<1>4. ASSUME txn' = [txn EXCEPT ![s] = Settle(x)],
             frame' = [frame EXCEPT ![s] = Idle], Goto(s, "ready")
      PROVE  LockOK' /\ Domains' /\ Locals'
  <2> DEFINE y == Settle(x)
  <2>1. y # None => GoodTxn(y)
    BY <1>2, SettleGood
  <2>2. txn' = [txn EXCEPT ![s] = y] /\ pc' = [pc EXCEPT ![s] = "ready"]
    BY <1>4 DEF Goto
  <2>3. Domains' /\ OnlySession(s)
    BY <1>1, <1>3, <1>4, <2>2 DEF IInv, Domains, OnlySession, Steps
  <2>4. txn'[s] = y /\ pc'[s] = "ready" /\ frame'[s] = Idle
    BY <1>1, <1>3, <1>4, <2>2 DEF IInv, Domains
  <2> HIDE DEF y
  <2>5. DmlLocals(y, "ready", Idle)
    BY <2>1, IdleGood DEF DmlLocals
  <2> QED
    BY <1>1, <1>3, <2>3, <2>4, <2>5, DmlStep
<1>5. ASSUME Undo(s, x, fr.saved, fr.origin)
      PROVE  LockOK' /\ Domains' /\ Locals'
  BY <1>1, <1>2, <1>3, <1>5, UndoStarts
<1> QED
  BY <1>3, <1>4, <1>5 DEF Children, IInv

-----------------------------------------------------------------------------
(* undo reverts log entries: the ones that stay still fit the copy. *)
LEMMA UndoStepPreserves ==
  ASSUME IInv, NEW s \in Session, UndoStep(s)
  PROVE  IInv'
<1> DEFINE x == txn[s]
           fr == frame[s]
           last == Len(x.log)
<1>1. /\ pc[s] = "undoing" /\ last > fr.saved
      /\ UNCHANGED <<shared, pc, frame, savepoint, draft>>
  BY DEF UndoStep
<1>2. PICK m \in 1..(last - fr.saved) :
        /\ undo_run(x.log, fr.saved, m)
        /\ txn' = [txn EXCEPT ![s] = [x EXCEPT !.work = undo_change(x.work, x.log, m),
                                               !.log = SubSeq(x.log, 1, last - m)]]
  BY DEF UndoStep
<1> DEFINE work == undo_change(x.work, x.log, m)
           log == SubSeq(x.log, 1, last - m)
           y == [x EXCEPT !.work = work, !.log = log]
<1>3. GoodTxn(x) /\ IsFrame(fr) /\ fr.saved \in Nat
  BY <1>1 DEF IInv, Locals, LocalOK, IsFrame
<1> HIDE DEF x
<1>4. /\ x.log \in Seq(Change) /\ last \in Nat /\ GoodCatalog(x.work)
      /\ DOMAIN x = {"base_version", "work", "log"} /\ x.base_version \in Nat
      /\ \A i \in DOMAIN x.log :
           /\ x.log[i].table \in DOMAIN x.work
           /\ x.log[i].op # "insert" =>
                Len(x.log[i].old) = x.work[x.log[i].table].columns
  <2>1. IsTxn(x) /\ LogFits(x) /\ GoodCatalog(x.work)
    BY <1>3 DEF GoodTxn
  <2>2. /\ DOMAIN x = {"base_version", "work", "log"} /\ x.base_version \in Nat
        /\ x.log \in Seq(Change) /\ last \in Nat
    BY ONLY <2>1 DEF IsTxn
  <2>3. \A i \in DOMAIN x.log :
          /\ x.log[i].table \in DOMAIN x.work
          /\ x.log[i].op # "insert" =>
               Len(x.log[i].old) = x.work[x.log[i].table].columns
    BY ONLY <2>1 DEF LogFits
  <2> QED
    BY ONLY <2>1, <2>2, <2>3
<1>5. m \in 1..last /\ last - m \in 0..last /\ fr.saved <= last - m
  BY <1>2, <1>3, <1>4, SMT
<1>6. /\ GoodCatalog(work) /\ DOMAIN work = DOMAIN x.work
      /\ \A n \in DOMAIN x.work : work[n].columns = x.work[n].columns
  BY <1>2, <1>3, <1>4, <1>5, UndoGood
<1>7. /\ log \in Seq(Change) /\ Len(log) = last - m
      /\ \A i \in DOMAIN log : i \in DOMAIN x.log /\ log[i] = x.log[i]
  BY <1>4, <1>5, SMT
<1>8. /\ DOMAIN y = {"base_version", "work", "log"}
      /\ y.base_version = x.base_version /\ y.work = work /\ y.log = log
  BY <1>4
<1> HIDE DEF work, log, y
<1>9. IsCatalog(work)
  BY <1>6 DEF GoodCatalog, IsCatalog, GoodTable
<1>10. LogFits(y)
  BY <1>4, <1>6, <1>7, <1>8, SMT DEF LogFits
<1>11. GoodTxn(y)
  BY <1>4, <1>6, <1>7, <1>8, <1>9, <1>10 DEF GoodTxn, IsTxn
<1>12. fr.saved <= Len(y.log)
  BY <1>5, <1>7, <1>8
<1>13. txn' = [txn EXCEPT ![s] = y]
  BY <1>2 DEF y, work, log
<1>14. SharedOK' /\ UNCHANGED <<lock, savepoint, draft>>
  BY <1>1 DEF shared, IInv, SharedOK
<1>15. LockOK' /\ Domains' /\ Locals'
  <2>1. pc' = pc /\ frame' = frame /\ fr = frame[s]
    BY <1>1
  <2>2. Domains' /\ OnlySession(s)
    BY <1>1, <1>13, <1>14, <2>1 DEF IInv, Domains, OnlySession, Steps
  <2>3. txn'[s] = y /\ pc'[s] = "undoing" /\ frame'[s] = fr
    BY <1>1, <1>13, <1>14, <2>1 DEF IInv, Domains
  <2> HIDE DEF fr
  <2>4. DmlLocals(y, "undoing", fr)
    BY <1>3, <1>11, <1>12 DEF DmlLocals
  <2> QED
    BY <1>1, <1>14, <2>2, <2>3, <2>4, DmlStep
<1> QED
  BY <1>14, <1>15 DEF IInv

(* undo is done. *)
LEMMA UndoDonePreserves ==
  ASSUME IInv, NEW s \in Session, UndoDone(s)
  PROVE  IInv'
<1> DEFINE x == txn[s]
<1>1. /\ pc[s] = "undoing" /\ UNCHANGED <<shared, savepoint, draft>>
      /\ txn' = [txn EXCEPT ![s] = Settle(x)] /\ frame' = [frame EXCEPT ![s] = Idle]
      /\ pc' = [pc EXCEPT ![s] = "ready"]
  BY DEF UndoDone, Goto
<1>2. GoodTxn(x)
  BY <1>1 DEF IInv, Locals, LocalOK
<1>3. SharedOK' /\ UNCHANGED <<lock, savepoint, draft>>
  BY <1>1 DEF shared, IInv, SharedOK
<1>4. LockOK' /\ Domains' /\ Locals'
  <2> DEFINE y == Settle(x)
  <2>1. y # None => GoodTxn(y)
    BY <1>2, SettleGood
  <2>2. txn' = [txn EXCEPT ![s] = y]
    BY <1>1
  <2>3. Domains' /\ OnlySession(s)
    BY <1>1, <1>3, <2>2 DEF IInv, Domains, OnlySession, Steps
  <2>4. txn'[s] = y /\ pc'[s] = "ready" /\ frame'[s] = Idle
    BY <1>1, <1>3, <2>2 DEF IInv, Domains
  <2> HIDE DEF y
  <2>5. DmlLocals(y, "ready", Idle)
    BY <2>1, IdleGood DEF DmlLocals
  <2> QED
    BY <1>1, <1>3, <2>3, <2>4, <2>5, DmlStep
<1> QED
  BY <1>3, <1>4 DEF IInv

(* The start and the end of a block. *)
LEMMA BeginBlockPreserves ==
  ASSUME IInv, NEW s \in Session, BeginBlock(s) \/ EndBlock(s)
  PROVE  IInv'
<1>1. /\ pc[s] = "ready" /\ UNCHANGED <<shared, txn, pc, frame, draft>>
      /\ \E sp : /\ savepoint' = [savepoint EXCEPT ![s] = sp]
                 /\ \/ sp = None
                    \/ sp = [changes |-> Len(get_or_insert_txn(s).log),
                             committed |-> FALSE,
                             origin |-> get_or_insert_txn(s).work]
  BY DEF BeginBlock, EndBlock
<1>2. Len(get_or_insert_txn(s).log) \in Nat
  BY GetTxnGood, SMT DEF GoodTxn, IsTxn
<1>3. savepoint'[s] = None \/ IsSavepoint(savepoint'[s])
  <2> DEFINE sp == [changes |-> Len(get_or_insert_txn(s).log), committed |-> FALSE,
                    origin |-> get_or_insert_txn(s).work]
  <2>1. IsSavepoint(sp)
    BY <1>2 DEF IsSavepoint
  <2>2. savepoint'[s] = None \/ savepoint'[s] = sp
    BY <1>1 DEF IInv, Domains
  <2> QED
    BY <2>1, <2>2
<1>4. Domains' /\ OnlySession(s)
  BY <1>1 DEF IInv, Domains, OnlySession
<1>5. LocalOK(txn'[s], pc'[s], frame'[s], savepoint'[s], draft'[s])
  <2>1. LocalOK(txn[s], pc[s], frame[s], savepoint[s], draft[s])
    BY DEF IInv, Locals
  <2> QED
    BY <1>1, <1>3, <2>1 DEF LocalOK
<1>6. SharedOK' /\ LockOK'
  BY <1>1, <1>4, LockKept DEF IInv, SharedOK, shared
<1> QED
  BY <1>4, <1>5, <1>6, LocalStep DEF IInv

(* An exception leaves a block: rollback_to its savepoint. *)
LEMMA FailBlockPreserves ==
  ASSUME IInv, NEW s \in Session, FailBlock(s)
  PROVE  IInv'
<1> DEFINE sp == savepoint[s]
           x == txn[s]
           keep == IF Kept(sp) <= Len(x.log) THEN Kept(sp) ELSE Len(x.log)
<1>1. /\ pc[s] = "ready" /\ sp # None
      /\ savepoint' = [savepoint EXCEPT ![s] = None]
      /\ UNCHANGED <<shared, draft>>
      /\ \/ txn[s] = None /\ UNCHANGED <<txn, frame, pc>>
         \/ txn[s] # None /\ Undo(s, x, keep, sp.origin)
  BY DEF FailBlock
<1>2. LocalOK(txn[s], pc[s], frame[s], savepoint[s], draft[s])
  BY DEF IInv, Locals
<1>3. SharedOK' /\ lock' = lock /\ draft' = draft
  BY <1>1 DEF IInv, SharedOK, shared
<1>4. /\ DOMAIN savepoint' = Session /\ savepoint'[s] = None
      /\ \A r \in Session \ {s} : savepoint'[r] = savepoint[r]
  BY <1>1 DEF IInv, Domains
<1>5. CASE txn[s] = None /\ UNCHANGED <<txn, frame, pc>>
  <2>1. Domains' /\ OnlySession(s)
    BY <1>3, <1>4, <1>5 DEF IInv, Domains, OnlySession
  <2>2. LocalOK(txn'[s], pc'[s], frame'[s], savepoint'[s], draft'[s])
    BY <1>1, <1>2, <1>3, <1>4, <1>5 DEF LocalOK
  <2>3. LockOK'
    BY <1>3, <1>5, <2>1, LockKept
  <2> QED
    BY <1>3, <2>1, <2>2, <2>3, LocalStep DEF IInv
<1>6. CASE txn[s] # None /\ Undo(s, x, keep, sp.origin)
  <2>1. GoodTxn(x) /\ sp.changes \in Nat
    BY <1>1, <1>2, <1>6 DEF LocalOK, IsSavepoint
  <2>2. Len(x.log) \in Nat /\ Kept(sp) \in Nat
    BY <2>1, SMT DEF GoodTxn, IsTxn, Kept
  <2>3. keep \in Nat /\ keep <= Len(x.log)
    BY <2>2, SMT
  <2> HIDE DEF keep, x
  <2>4. LockOK' /\ Domains' /\ Locals'
    BY <1>1, <1>3, <1>4, <1>6, <2>1, <2>3, UndoStarts
  <2> QED
    BY <1>3, <2>4 DEF IInv
<1> QED
  BY <1>1, <1>5, <1>6

(* Counting a commit keeps a savepoint's length. *)
LEMMA CountCommitGood ==
  ASSUME IInv, NEW s \in Session, CountCommit(s)
  PROVE  /\ DOMAIN savepoint' = Session
         /\ savepoint'[s] = None \/ IsSavepoint(savepoint'[s])
         /\ \A r \in Session \ {s} : savepoint'[r] = savepoint[r]
<1>1. savepoint[s] = None \/ IsSavepoint(savepoint[s])
  BY DEF IInv, Locals, LocalOK
<1>2. DOMAIN savepoint = Session
  BY DEF IInv, Domains
<1>3. /\ DOMAIN savepoint' = Session
      /\ \A r \in Session \ {s} : savepoint'[r] = savepoint[r]
      /\ savepoint'[s] = IF savepoint[s] = None THEN None
                         ELSE [savepoint[s] EXCEPT !.committed = TRUE]
  BY <1>2 DEF CountCommit
<1>4. IsSavepoint(savepoint[s]) =>
        IsSavepoint([savepoint[s] EXCEPT !.committed = TRUE])
  BY DEF IsSavepoint
<1> QED
  BY <1>1, <1>3, <1>4

(* ROLLBACK. *)
LEMMA RollbackPreserves ==
  ASSUME IInv, NEW s \in Session, Rollback(s)
  PROVE  IInv'
<1>1. /\ pc[s] = "ready" /\ txn' = [txn EXCEPT ![s] = None] /\ CountCommit(s)
      /\ UNCHANGED <<shared, pc, frame, draft>>
  BY DEF Rollback
<1>2. /\ DOMAIN savepoint' = Session
      /\ savepoint'[s] = None \/ IsSavepoint(savepoint'[s])
      /\ \A r \in Session \ {s} : savepoint'[r] = savepoint[r]
  BY <1>1, CountCommitGood
<1>3. Domains' /\ OnlySession(s)
  BY <1>1, <1>2 DEF IInv, Domains, OnlySession
<1>4. txn'[s] = None /\ pc'[s] = "ready" /\ frame'[s] = frame[s]
  BY <1>1 DEF IInv, Domains
<1>5. IsFrame(frame[s])
  BY DEF IInv, Locals, LocalOK
<1>6. LocalOK(txn'[s], pc'[s], frame'[s], savepoint'[s], draft'[s])
  BY <1>2, <1>4, <1>5 DEF LocalOK
<1>7. SharedOK' /\ LockOK'
  BY <1>1, <1>3, LockKept DEF IInv, SharedOK, shared
<1> QED
  BY <1>3, <1>6, <1>7, LocalStep DEF IInv

(* A session between statements, without a transaction. *)
LEMMA NoTxnLocal ==
  ASSUME NEW p \in {"ready", "ddl"}, NEW f, IsFrame(f), NEW sp,
         sp = None \/ IsSavepoint(sp), NEW d
  PROVE  LocalOK(None, p, f, sp, d)
  BY DEF LocalOK

(* COMMIT, up to where it publishes its copy or starts to replay its log. *)
LEMMA CommitPreserves ==
  ASSUME IInv, NEW s \in Session, NEW after \in {"ready", "ddl"}, Commit(s, after)
  PROVE  IInv'
<1> DEFINE x == txn[s]
           f == [Idle EXCEPT !.next = tables, !.after = after]
<1>1. pc[s] = "ready" /\ CountCommit(s) /\ UNCHANGED draft
  BY DEF Commit
<1>2. /\ DOMAIN savepoint' = Session
      /\ savepoint'[s] = None \/ IsSavepoint(savepoint'[s])
      /\ \A r \in Session \ {s} : savepoint'[r] = savepoint[r]
  BY <1>1, CountCommitGood
<1>3. IsFrame(frame[s])
  BY DEF IInv, Locals, LocalOK
<1>4. CASE /\ x = None /\ Goto(s, after) /\ UNCHANGED <<shared, txn, frame>>
  <2>1. Domains' /\ OnlySession(s)
    BY <1>1, <1>2, <1>4 DEF IInv, Domains, OnlySession, Goto, Steps
  <2>2. txn'[s] = None /\ pc'[s] = after /\ frame'[s] = frame[s]
    BY <1>4 DEF IInv, Domains, Goto
  <2>3. LocalOK(txn'[s], pc'[s], frame'[s], savepoint'[s], draft'[s])
    BY <1>2, <1>3, <2>2, NoTxnLocal
  <2>4. SharedOK' /\ LockOK'
    BY <1>1, <1>4, <2>1, <2>2, LockKept DEF IInv, SharedOK, shared
  <2> QED
    BY <2>1, <2>3, <2>4, LocalStep DEF IInv
<1>5. CASE /\ x # None /\ Publish(x.work) /\ txn' = [txn EXCEPT ![s] = None]
           /\ Goto(s, after) /\ UNCHANGED <<lock, next_row_id, snapshot, frame>>
  <2>1. Domains' /\ OnlySession(s)
    BY <1>1, <1>2, <1>5 DEF IInv, Domains, OnlySession, Goto, Steps
  <2>2. txn'[s] = None /\ pc'[s] = after /\ frame'[s] = frame[s]
    BY <1>5 DEF IInv, Domains, Goto
  <2>3. LocalOK(txn'[s], pc'[s], frame'[s], savepoint'[s], draft'[s])
    BY <1>2, <1>3, <2>2, NoTxnLocal
  <2>4. GoodCatalog(x.work)
    BY <1>5 DEF IInv, Locals, LocalOK, GoodTxn
  <2>5. SharedOK' /\ LockOK'
    BY <1>1, <1>5, <2>1, <2>2, <2>4, LockKept, SMT DEF IInv, SharedOK, Publish
  <2> QED
    BY <2>1, <2>3, <2>5, LocalStep DEF IInv
<1>6. CASE /\ x # None /\ lock = None /\ lock' = s
           /\ frame' = [frame EXCEPT ![s] = f] /\ Goto(s, "replaying")
           /\ UNCHANGED <<tables, version, next_row_id, snapshot, txn>>
  <2>1. Domains' /\ OnlySession(s)
    BY <1>1, <1>2, <1>6 DEF IInv, Domains, OnlySession, Goto, Steps
  <2>2. txn'[s] = x /\ pc'[s] = "replaying" /\ frame'[s] = f
    BY <1>6 DEF IInv, Domains, Goto
  <2>3. IsFrame(f) /\ f.next = tables /\ f.saved = 0
    BY SMT DEF IsFrame, Idle
  <2>4. GoodTxn(x) /\ GoodCatalog(tables)
    BY <1>6 DEF IInv, SharedOK, Locals, LocalOK
  <2> HIDE DEF f, x
  <2>5. LocalOK(txn'[s], pc'[s], frame'[s], savepoint'[s], draft'[s])
    BY <1>2, <2>2, <2>3, <2>4 DEF LocalOK
  <2>6. SharedOK'
    BY <1>6 DEF IInv, SharedOK
  <2>7. LockOK'
    <3>1. \A r \in Session : pc[r] # "replaying"
      BY <1>6, SessionAssumption DEF IInv, LockOK
    <3> QED
      BY <1>6, <2>1, <2>2, <3>1 DEF LockOK, OnlySession
  <2> QED
    BY <2>1, <2>5, <2>6, <2>7, LocalStep DEF IInv
<1> QED
  BY <1>4, <1>5, <1>6 DEF Commit

(* COMMIT replays one change of its log. *)
LEMMA ReplayPreserves ==
  ASSUME IInv, NEW s \in Session, Replay(s)
  PROVE  IInv'
<1> DEFINE x == txn[s]
           f == frame[s]
           r == replay_change(f.next, x.log[f.k])
           g == [f EXCEPT !.next = r.cat, !.k = @ + 1]
<1>1. /\ pc[s] = "replaying" /\ f.k <= Len(x.log)
      /\ UNCHANGED <<tables, version, next_row_id, snapshot, savepoint, draft>>
  BY DEF Replay
<1>2. /\ GoodTxn(x) /\ IsFrame(f) /\ GoodCatalog(f.next)
      /\ savepoint[s] = None \/ IsSavepoint(savepoint[s])
  BY <1>1 DEF IInv, Locals, LocalOK
<1>3. x.log[f.k] \in Change
  <2>1. x.log \in Seq(Change) /\ f.k \in Nat \ {0}
    BY <1>2 DEF GoodTxn, IsTxn, IsFrame
  <2> QED
    BY <1>1, <2>1, SMT
<1>4. GoodCatalog(r.cat)
  BY <1>2, <1>3, ReplayGood
<1> HIDE DEF r
<1>5. IsFrame(g) /\ g.next = r.cat
  <2>1. DOMAIN f = DOMAIN Idle /\ f.k + 1 \in Nat \ {0}
    BY <1>2, SMT DEF IsFrame
  <2>2. /\ DOMAIN g = DOMAIN Idle /\ g.rows = f.rows /\ g.saved = f.saved
        /\ g.start = f.start /\ g.end = f.end /\ g.fk = f.fk
        /\ g.k = f.k + 1 /\ g.after = f.after /\ g.next = r.cat
    BY <2>1 DEF Idle
  <2> HIDE DEF g
  <2> QED
    BY <1>2, <2>1, <2>2 DEF IsFrame
<1>6. SharedOK'
  BY <1>1 DEF IInv, SharedOK
<1>7. CASE /\ frame' = [frame EXCEPT ![s].next = r.cat, ![s].k = @ + 1]
           /\ UNCHANGED <<lock, txn, pc>>
  <2>1. frame' = [frame EXCEPT ![s] = g]
    BY <1>7
  <2>2. Domains' /\ OnlySession(s)
    BY <1>1, <1>7, <2>1 DEF IInv, Domains, OnlySession
  <2>3. /\ txn'[s] = x /\ pc'[s] = "replaying" /\ frame'[s] = g
        /\ savepoint'[s] = savepoint[s]
    BY <1>1, <1>7, <2>1 DEF IInv, Domains
  <2> HIDE DEF g, x
  <2>4. LocalOK(txn'[s], pc'[s], frame'[s], savepoint'[s], draft'[s])
    BY <1>2, <1>4, <1>5, <2>3 DEF LocalOK
  <2>5. LockOK'
    BY <1>1, <1>7, <2>2, <2>3, LockKept
  <2> QED
    BY <1>6, <2>2, <2>4, <2>5, LocalStep DEF IInv
<1>8. CASE /\ frame' = [frame EXCEPT ![s] = Idle] /\ Unlock
           /\ txn' = [txn EXCEPT ![s] = None] /\ Goto(s, "ready")
  <2>1. Domains' /\ OnlySession(s)
    BY <1>1, <1>8 DEF IInv, Domains, OnlySession, Goto, Steps
  <2>2. /\ txn'[s] = None /\ pc'[s] = "ready" /\ frame'[s] = Idle
        /\ savepoint'[s] = savepoint[s]
    BY <1>1, <1>8 DEF IInv, Domains, Goto
  <2>3. LocalOK(txn'[s], pc'[s], frame'[s], savepoint'[s], draft'[s])
    BY <1>2, <2>2, IdleGood, NoTxnLocal
  <2>4. LockOK'
    BY <1>1, <1>8, <2>1, <2>2, SessionAssumption DEF IInv, LockOK, OnlySession, Unlock
  <2> QED
    BY <1>6, <2>1, <2>3, <2>4, LocalStep DEF IInv
<1> QED
  BY <1>7, <1>8 DEF Replay, r

(* COMMIT publishes what it replayed. *)
LEMMA ReplayDonePreserves ==
  ASSUME IInv, NEW s \in Session, ReplayDone(s)
  PROVE  IInv'
<1>1. /\ pc[s] = "replaying" /\ Publish(frame[s].next) /\ lock' = None
      /\ txn' = [txn EXCEPT ![s] = None] /\ frame' = [frame EXCEPT ![s] = Idle]
      /\ pc' = [pc EXCEPT ![s] = frame[s].after]
      /\ UNCHANGED <<next_row_id, snapshot, savepoint, draft>>
  BY DEF ReplayDone, Goto, Unlock
<1>2. /\ IsFrame(frame[s]) /\ GoodCatalog(frame[s].next)
      /\ savepoint[s] = None \/ IsSavepoint(savepoint[s])
  BY <1>1 DEF IInv, Locals, LocalOK
<1>3. frame[s].after \in {"ready", "ddl"}
  BY <1>2 DEF IsFrame
<1>4. Domains' /\ OnlySession(s)
  BY <1>1, <1>3 DEF IInv, Domains, OnlySession, Steps
<1>5. /\ txn'[s] = None /\ pc'[s] \in {"ready", "ddl"} /\ frame'[s] = Idle
      /\ savepoint'[s] = savepoint[s]
  BY <1>1, <1>3 DEF IInv, Domains
<1>6. LocalOK(txn'[s], pc'[s], frame'[s], savepoint'[s], draft'[s])
  BY <1>2, <1>5, IdleGood, NoTxnLocal
<1>7. LockOK'
  BY <1>1, <1>4, <1>5, SessionAssumption DEF IInv, LockOK, OnlySession
<1>8. SharedOK'
  BY <1>1, <1>2, SMT DEF IInv, SharedOK, Publish
<1> QED
  BY <1>4, <1>6, <1>7, <1>8, LocalStep DEF IInv

-----------------------------------------------------------------------------
(* A DDL statement that leaves a good catalog. *)
LEMMA RunDdlPreserves ==
  ASSUME IInv, NEW s \in Session, NEW r, GoodCatalog(r.cat), RunDdl(s, r)
  PROVE  IInv'
<1>1. /\ pc[s] = "ddl" /\ pc' = [pc EXCEPT ![s] = "ready"]
      /\ Publish(r.cat) \/ UNCHANGED <<tables, version>>
      /\ UNCHANGED <<lock, next_row_id, snapshot, txn, frame, savepoint, draft>>
  BY DEF RunDdl, Goto
<1>2. Domains' /\ OnlySession(s)
  BY <1>1 DEF IInv, Domains, OnlySession, Steps
<1>3. pc'[s] = "ready"
  BY <1>1 DEF IInv, Domains
<1>4. LocalOK(txn'[s], pc'[s], frame'[s], savepoint'[s], draft'[s])
  <2>1. LocalOK(txn[s], pc[s], frame[s], savepoint[s], draft[s])
    BY DEF IInv, Locals
  <2> QED
    BY <1>1, <1>3, <2>1 DEF LocalOK
<1>5. SharedOK'
  <2>1. SharedOK
    BY DEF IInv
  <2>2. CASE Publish(r.cat)
    BY <1>1, <2>1, <2>2, SMT DEF SharedOK, Publish
  <2>3. CASE UNCHANGED <<tables, version>>
    BY <1>1, <2>1, <2>3 DEF SharedOK
  <2> QED
    BY <1>1, <2>2, <2>3
<1>6. LockOK'
  BY <1>1, <1>2, <1>3, LockKept
<1> QED
  BY <1>2, <1>4, <1>5, <1>6, LocalStep DEF IInv

(* ALTER TABLE's attempt on a copy. *)
LEMMA AlterCopyPreserves ==
  ASSUME IInv, NEW s \in Session, pc[s] \in {"ddl", "altering"},
         NEW a \in Alter, AlterCopy(s, a)
  PROVE  IInv'
<1> DEFINE r == alter_table(tables, a)
           d == [action |-> a, cat |-> r.cat, version |-> version]
<1>1. GoodCatalog(r.cat)
  BY AlterTableGood, DefinitionAssumption DEF IInv, SharedOK
<1>2. /\ UNCHANGED <<tables, version, lock, next_row_id, snapshot,
                     txn, frame, savepoint>>
      /\ \/ /\ draft' = [draft EXCEPT ![s] = d]
            /\ pc' = [pc EXCEPT ![s] = "altering"]
         \/ /\ draft' = [draft EXCEPT ![s] = None]
            /\ pc' = [pc EXCEPT ![s] = "ready"]
  BY DEF AlterCopy, Goto, shared
<1> HIDE DEF r
<1>3. d.action = a /\ d.cat = r.cat
  OBVIOUS
<1> HIDE DEF d
<1>4. Domains' /\ OnlySession(s)
  BY <1>2 DEF IInv, Domains, OnlySession, Steps
<1>5. \/ draft'[s] = d /\ pc'[s] = "altering"
      \/ pc'[s] = "ready"
  BY <1>2 DEF IInv, Domains
<1>6. LocalOK(txn'[s], pc'[s], frame'[s], savepoint'[s], draft'[s])
  <2>1. LocalOK(txn[s], pc[s], frame[s], savepoint[s], draft[s])
    BY DEF IInv, Locals
  <2> QED
    BY <1>1, <1>2, <1>3, <1>5, <2>1 DEF LocalOK
<1>7. SharedOK' /\ LockOK'
  BY <1>2, <1>4, <1>5, LockKept DEF IInv, SharedOK
<1> QED
  BY <1>4, <1>6, <1>7, LocalStep DEF IInv

(* ALTER TABLE installs its copy. *)
LEMMA AlterInstallPreserves ==
  ASSUME IInv, NEW s \in Session, AlterInstall(s)
  PROVE  IInv'
<1>1. /\ pc[s] = "altering" /\ Publish(draft[s].cat)
      /\ draft' = [draft EXCEPT ![s] = None] /\ pc' = [pc EXCEPT ![s] = "ready"]
      /\ UNCHANGED <<lock, next_row_id, snapshot, txn, frame, savepoint>>
  BY DEF AlterInstall, Goto
<1>2. LocalOK(txn[s], pc[s], frame[s], savepoint[s], draft[s])
  BY DEF IInv, Locals
<1>3. GoodCatalog(draft[s].cat)
  BY <1>1, <1>2 DEF LocalOK
<1>4. Domains' /\ OnlySession(s)
  BY <1>1 DEF IInv, Domains, OnlySession, Steps
<1>5. pc'[s] = "ready"
  BY <1>1 DEF IInv, Domains
<1>6. LocalOK(txn'[s], pc'[s], frame'[s], savepoint'[s], draft'[s])
  BY <1>1, <1>2, <1>5 DEF LocalOK
<1>7. SharedOK'
  BY <1>1, <1>3, SMT DEF IInv, SharedOK, Publish
<1>8. LockOK'
  BY <1>1, <1>4, <1>5, LockKept
<1> QED
  BY <1>4, <1>6, <1>7, <1>8, LocalStep DEF IInv

(* Every DDL step. *)
LEMMA DdlStepPreserves ==
  ASSUME IInv, NEW s \in Session, DdlStep(s)
  PROVE  IInv'
<1>1. GoodCatalog(tables)
  BY DEF IInv, SharedOK
<1>2. ASSUME CreateTable(s) PROVE IInv'
  BY <1>1, <1>2, CreateTableGood, RunDdlPreserves, DefinitionAssumption DEF CreateTable
<1>3. ASSUME DropTable(s) PROVE IInv'
  BY <1>1, <1>3, DropTableGood, RunDdlPreserves DEF DropTable
<1>4. ASSUME Truncate(s) PROVE IInv'
  BY <1>1, <1>4, TruncateTableGood, RunDdlPreserves DEF Truncate
<1>5. ASSUME CreateIndex(s) PROVE IInv'
  BY <1>1, <1>5, AddUniqueGood, RunDdlPreserves, DefinitionAssumption DEF CreateIndex
<1>6. ASSUME DropIndex(s) PROVE IInv'
  BY <1>1, <1>6, DropIndexGood, RunDdlPreserves DEF DropIndex
<1>7. ASSUME OtherDdl(s) PROVE IInv'
  BY <1>1, <1>7, RunDdlPreserves DEF OtherDdl, Done
<1>8. ASSUME AlterTable(s) PROVE IInv'
  BY <1>8, AlterCopyPreserves DEF AlterTable
<1>9. ASSUME AlterInstall(s) PROVE IInv'
  BY <1>9, AlterInstallPreserves
<1>10. ASSUME AlterRetry(s) PROVE IInv'
  <2>1. pc[s] = "altering" /\ AlterCopy(s, draft[s].action)
    BY <1>10 DEF AlterRetry
  <2>2. draft[s].action \in Alter
    BY <2>1 DEF IInv, Locals, LocalOK
  <2> QED
    BY <2>1, <2>2, AlterCopyPreserves
<1> QED
  BY <1>2, <1>3, <1>4, <1>5, <1>6, <1>7, <1>8, <1>9, <1>10 DEF DdlStep

-----------------------------------------------------------------------------
(* Database::snapshot, restore and reset: no session is touched. *)
LEMMA HelperPreserves ==
  ASSUME IInv, Snapshot \/ RestoreSnapshot \/ Reset
  PROVE  IInv'
<1>1. UNCHANGED <<lock, next_row_id, txn, pc, frame, savepoint, draft>>
  BY DEF Snapshot, RestoreSnapshot, Reset, Restore
<1>2. LockOK' /\ Domains' /\ Locals'
  BY <1>1 DEF IInv, LockOK, Domains, Locals
<1>3. GoodCatalog(<< >>)
  BY SMT DEF GoodCatalog
<1>4. SharedOK'
  BY <1>1, <1>3, SMT DEF IInv, SharedOK, Snapshot, RestoreSnapshot, Reset, Restore, Publish
<1> QED
  BY <1>2, <1>4 DEF IInv

(* The catalog of the seed script, and sessions that have done nothing. *)
LEMMA InitGood == Init => IInv
<1> SUFFICES ASSUME Init PROVE IInv
  OBVIOUS
<1>1. SharedOK
  BY SeedAssumption DEF Init, SharedOK, GoodCatalog, GoodTable, IsCatalog
<1>2. LockOK /\ Domains
  BY SessionAssumption DEF Init, LockOK, Domains, Steps
<1>3. Locals
  BY IdleGood, NoTxnLocal DEF Init, Locals
<1> QED
  BY <1>1, <1>2, <1>3 DEF IInv

(* Every step of every session preserves IInv. *)
LEMMA NextPreserves ==
  ASSUME IInv, [Next]_vars
  PROVE  IInv'
<1>1. ASSUME NEW s \in Session, Start(s)
      PROVE  IInv'
  <2>1. ASSUME NEW n \in TableName, NEW rows \in RowSeqs(n), Insert(s, n, rows)
        PROVE  IInv'
    BY <2>1, InsertPreserves
  <2>2. ASSUME NEW n \in TableName, NEW ids, NEW new \in [DOMAIN ids -> Rows[n]],
               Update(s, n, ids, new)
        PROVE  IInv'
    BY <2>2, UpdatePreserves
  <2>3. ASSUME NEW n \in TableName, NEW ids, Delete(s, n, ids)
        PROVE  IInv'
    BY <2>3, DeletePreserves
  <2>4. ASSUME BeginBlock(s) \/ EndBlock(s) PROVE IInv'
    BY <2>4, BeginBlockPreserves
  <2>5. ASSUME FailBlock(s) PROVE IInv'
    BY <2>5, FailBlockPreserves
  <2>6. ASSUME Rollback(s) PROVE IInv'
    BY <2>6, RollbackPreserves
  <2>7. ASSUME Commit(s, "ready") \/ Commit(s, "ddl") PROVE IInv'
    BY <2>7, CommitPreserves
  <2> QED
    BY <1>1, <2>1, <2>2, <2>3, <2>4, <2>5, <2>6, <2>7 DEF Start
<1>2. ASSUME NEW s \in Session, Continue(s)
      PROVE  IInv'
  BY <1>2, InsertRowPreserves, ParentsPreserves, ChildrenPreserves,
     UndoStepPreserves, UndoDonePreserves, ReplayPreserves, ReplayDonePreserves
     DEF Continue
<1>3. ASSUME NEW s \in Session, DdlStep(s)
      PROVE  IInv'
  BY <1>3, DdlStepPreserves
<1>4. ASSUME Snapshot \/ RestoreSnapshot \/ Reset PROVE IInv'
  BY <1>4, HelperPreserves
<1>5. ASSUME UNCHANGED vars PROVE IInv'
  BY <1>5 DEF vars, IInv, SharedOK, LockOK, Domains, Locals
<1> QED
  BY <1>1, <1>2, <1>3, <1>4, <1>5 DEF Next

(* The inductive invariant. *)
THEOREM Invariance == Spec => []IInv
  BY InitGood, NextPreserves, PTL DEF Spec

(* Every reachable state is well typed: the lock is held by exactly the     *)
(* session that replays, a session in the middle of a statement has a       *)
(* transaction, and its log can be undone in its copy.                      *)
THEOREM TypeCorrect == Spec => []TypeOK
<1>1. \A cat : GoodCatalog(cat) => IsCatalog(cat)
  BY DEF GoodCatalog, IsCatalog, GoodTable
<1>2. IInv => TypeOK
  <2> SUFFICES ASSUME IInv PROVE TypeOK
    OBVIOUS
  <2>1. ASSUME NEW s \in Session
        PROVE  /\ txn[s] # None => IsTxn(txn[s]) /\ LogFits(txn[s])
               /\ IsFrame(frame[s])
               /\ savepoint[s] = None \/ IsSavepoint(savepoint[s])
               /\ lock = s <=> pc[s] = "replaying"
               /\ pc[s] \in {"inserting", "parents", "children", "undoing", "replaying"}
                    => IsTxn(txn[s]) /\ LogFits(txn[s])
               /\ pc[s] \in {"inserting", "parents", "children", "undoing"}
                    => frame[s].saved <= Len(txn[s].log)
               /\ pc[s] = "replaying" => IsCatalog(frame[s].next)
               /\ pc[s] = "altering" =>
                    IsCatalog(draft[s].cat) /\ draft[s].action \in Alter
               /\ pc[s] = "inserting" =>
                    /\ frame[s].table \in DOMAIN txn[s].work
                    /\ frame[s].rows # << >>
                    /\ \A i \in DOMAIN frame[s].rows :
                         Len(frame[s].rows[i]) = txn[s].work[frame[s].table].columns
    <3>1. LocalOK(txn[s], pc[s], frame[s], savepoint[s], draft[s])
      BY <2>1 DEF IInv, Locals
    <3>2. lock = s <=> pc[s] = "replaying"
      BY <2>1 DEF IInv, LockOK
    <3> QED
      BY <1>1, <3>1, <3>2 DEF LocalOK, GoodTxn
  <2> QED
    BY <1>1, <2>1 DEF IInv, SharedOK, LockOK, Domains, TypeOK
<1> QED
  BY <1>2, Invariance, PTL

(* No two rows of a table share the key of an enforced unique constraint,   *)
(* in the committed catalog, in any session's copy, in what a COMMIT has    *)
(* replayed, in an ALTER TABLE's draft, or in the snapshot.                 *)
THEOREM UniqueKeys == Spec => []UniqueKeysHold
<1>1. IInv => UniqueKeysHold
  <2> SUFFICES ASSUME IInv, NEW cat \in Catalogs
               PROVE  GoodCatalog(cat)
    BY DEF UniqueKeysHold, GoodCatalog, GoodTable
  <2>1. \A s \in Session : LocalOK(txn[s], pc[s], frame[s], savepoint[s], draft[s])
    BY DEF IInv, Locals
  <2>2. CASE cat = tables
    BY <2>2 DEF IInv, SharedOK
  <2>3. CASE \E s \in Session : txn[s] # None /\ cat = txn[s].work
    BY <2>1, <2>3 DEF LocalOK, GoodTxn
  <2>4. CASE \E s \in Session : pc[s] = "replaying" /\ cat = frame[s].next
    BY <2>1, <2>4 DEF LocalOK
  <2>5. CASE \E s \in Session : pc[s] = "altering" /\ cat = draft[s].cat
    BY <2>1, <2>5 DEF LocalOK
  <2>6. CASE cat = snapshot /\ snapshot # None
    BY <2>6 DEF IInv, SharedOK
  <2> QED
    BY <2>2, <2>3, <2>4, <2>5, <2>6 DEF Catalogs
<1> QED
  BY <1>1, Invariance, PTL

=============================================================================
