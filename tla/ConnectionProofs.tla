--------------------------- MODULE ConnectionProofs ---------------------------
(***************************************************************************)
(* The safety of connections and of stop(), for any number of connections, *)
(* callers, requests and executions; what is on the wire and in the buffer *)
(* of a connection while its client counts requests and replies; and that  *)
(* connections implement RequestReply: every step of a connection is, for  *)
(* such a client, a step of that specification or none.                    *)
(***************************************************************************)
EXTENDS Connection, TLAPS, SequenceTheorems

(* A step is proved by Zenon unless it names another prover. *)
USE Zenon

Fields == {"phase", "buffer", "request", "login", "db", "cursors", "next", "call",
           "reply", "old", "handled", "kept", "executed"}
CallFields == {"cursor", "sql", "left", "fetch", "commit", "mark", "moved",
               "affected", "before"}

(* A session: what its fields hold in every phase.                          *)
Shaped(s) ==
  /\ s = [f \in Fields |-> s[f]]
  /\ s.db \in [log : Nat] \cup {None}
  /\ s.kept \in Nat
  /\ s.login = "LoggedIn" => s.db # None

(* While a call runs, the changes of the connection, committed or not, are  *)
(* those before the call and the rows its DML has reported; and they are    *)
(* where the savepoint of the call has them.                                *)
Running(s) ==
  /\ s.login = "LoggedIn"
  /\ s.call = [f \in CallFields |-> s.call[f]]
  /\ s.call.moved \in BOOLEAN
  /\ s.call.mark \in Nat /\ s.call.affected \in Nat /\ s.call.before \in Nat
  /\ s.call.sql = "dml" =>
       /\ ~s.call.moved
       /\ s.call.mark + s.kept = s.call.before
       /\ s.db.log + s.kept = s.call.before + s.call.affected

(* What the reply says.                                                     *)
StatusTrue(s) ==
  s.login = "LoggedIn" /\ s.reply.status # None =>
    /\ s.reply.status => s.db.log > 0
    /\ s.db.log > 0 /\ ~CarriesStatement(s.request) => s.reply.status
CountTrue(s) ==
  s.call # None /\ s.call.sql = "dml" =>
    IF s.reply.error = "commit" THEN s.db.log = 0
    ELSE s.db.log + s.kept = s.call.before + s.reply.count

Good(s) ==
  /\ Shaped(s)
  /\ s.phase = "executing" => Running(s)
  /\ s.phase = "reply" => StatusTrue(s) /\ CountTrue(s)
  /\ s.phase \notin {"executing", "reply"} => s.call = None

(* The Mutex of MockOracle.server: who finds the Option empty and the Mutex *)
(* free comes after the accept loop.                                        *)
Stopping ==
  /\ caller = [p \in Caller |-> caller[p]]
  /\ taken /\ owner = None => server = "stopped"
  /\ \A p \in Caller : caller[p] = "returned" => server = "stopped"

IInv ==
  /\ Stopping
  /\ conn = [c \in Conn |-> conn[c]]
  /\ \A c \in Conn : Good(conn[c])

-----------------------------------------------------------------------------
(* call_status is whether a session that is there has changes.              *)
LEMMA CallStatus ==
  ASSUME NEW s, Shaped(s), s.login = "LoggedIn"
  PROVE  call_status(s) = (s.db.log > 0)
BY DEF Shaped, call_status

(* A reply that reports no DML.                                             *)
LEMMA ReplyGood ==
  ASSUME NEW s, Shaped(s), s.call = None \/ s.call.sql # "dml", NEW message,
         s.login = "LoggedIn" /\ message.status # None => message.status = (s.db.log > 0)
  PROVE  Good(Reply(s, message))
BY DEF Shaped, Reply, Good, StatusTrue, CountTrue, Fields

LEMMA FailGood ==
  ASSUME NEW s, Shaped(s), s.call = None \/ s.call.sql # "dml", NEW error
  PROVE  Good(Fail(s, error))
BY CallStatus, ReplyGood DEF Fail, Message

(* The rows of a cursor leave the database session alone.                   *)
LEMMA RowsGood ==
  ASSUME NEW s, Shaped(s), s.call = None \/ s.call.sql # "dml", NEW id, NEW max
  PROVE  Good(send_rows(s, id, max))
<1> DEFINE k == s.cursors[id]
           n == IF max < k.pending THEN max ELSE k.pending
           left == [k EXCEPT !.pending = @ - n, !.fetched = @ + n]
           cs == Put(s.cursors, id, left)
           t == [s EXCEPT !.cursors = cs]
           m == [Message(call_status(s), id, k.fetched + n,
                         IF k.pending = n THEN "1403" ELSE None) EXCEPT
                   !.rows = [tag |-> k.tag, from |-> k.fetched, n |-> n]]
<1>1. Shaped(t) /\ t.call = s.call /\ t.login = s.login /\ t.db = s.db
  <2> HIDE DEF cs
  <2> QED BY DEF Shaped, Fields
<1>2. m.status = call_status(s)
  BY DEF Message
<1>3. Good(Reply(t, m))
  BY <1>1, <1>2, CallStatus, ReplyGood
<1> QED
  BY <1>3, FailGood DEF send_rows

-----------------------------------------------------------------------------
(* A database session.                                                      *)
Db == [log : Nat, kept : Nat, moved : BOOLEAN]

(* COMMIT keeps all changes or loses the uncommitted ones.                  *)
LEMMA CommitsDb ==
  ASSUME NEW d \in Db, NEW k \in Commits(d)
  PROVE  /\ k.db \in Db
         /\ k.db.log = 0
         /\ k.ok => k.db.kept = d.kept + d.log
<1> DEFINE kept == [log |-> 0, kept |-> d.kept + d.log, moved |-> TRUE]
           lost == [log |-> 0, kept |-> d.kept, moved |-> TRUE]
<1>1. k = [ok |-> TRUE, db |-> kept] \/ k = [ok |-> FALSE, db |-> lost]
  BY DEF Commits
<1>2. kept \in Db /\ lost \in Db
  BY SMT DEF Db
<1>3. CASE k = [ok |-> TRUE, db |-> kept]
  BY <1>2, <1>3
<1>4. CASE k = [ok |-> FALSE, db |-> lost]
  <2>1. k.db = lost /\ ~k.ok
    BY <1>4
  <2> QED BY <1>2, <2>1, SMT
<1> QED
  BY <1>1, <1>3, <1>4

(* An execution of DML changes as many rows as it reports.                  *)
LEMMA ExecutionsDb ==
  ASSUME NEW d \in Db, NEW sql, NEW x \in Executions(sql, d)
  PROVE  /\ x.db \in Db
         /\ x.rows \in Nat
         /\ sql = "dml" => /\ x.db.kept = d.kept /\ x.db.moved = d.moved
                           /\ x.db.log = d.log + x.rows
<1>1. \A e \in Db : More(e) \in Db /\ More(e).log = e.log + 1
                   /\ More(e).kept = e.kept /\ More(e).moved = e.moved
  BY SMT DEF More, Db
<1>2. \A k \in Commits(d) : k.db \in Db
  BY CommitsDb
<1>3. CASE sql = "query"
  BY <1>3, SMT DEF Executions, Outcome, Db
<1>4. CASE sql = "dml"
  BY <1>1, <1>4, SMT DEF Executions, Outcome, Db
<1>5. CASE sql = "block"
  BY <1>1, <1>2, <1>5, SMT DEF Executions, Outcome
<1>6. CASE sql \notin {"query", "dml", "block"}
  BY <1>2, <1>6, SMT DEF Executions, Outcome
<1> QED
  BY <1>3, <1>4, <1>5, <1>6

(* rollback_to gives back what the savepoint marks, unless the session      *)
(* committed since.                                                         *)
LEMMA RollbackDb ==
  ASSUME NEW d \in Db, NEW mark \in Nat
  PROVE  /\ rollback_to(d, mark) \in Db
         /\ ~d.moved /\ mark <= d.log => rollback_to(d, mark).log = mark
         /\ rollback_to(d, mark).kept = d.kept
BY SMT DEF rollback_to, Db
-----------------------------------------------------------------------------
(* The steps of a call.                                                     *)
LEMMA SettleGood ==
  ASSUME NEW s, Shaped(s), Running(s), NEW d \in Db
  PROVE  LET t == Settle(s, d) IN
         /\ Shaped(t)
         /\ t.login = "LoggedIn" /\ t.phase = s.phase
         /\ t.db.log = d.log /\ t.kept = d.kept
         /\ t.call = [s.call EXCEPT !.moved = d.moved]
BY NoneAssumption DEF Shaped, Running, Settle, Fields, Db

LEMMA SessionDb ==
  ASSUME NEW s, Shaped(s), Running(s)
  PROVE  /\ Session(s) \in Db
         /\ Session(s).log = s.db.log /\ Session(s).kept = s.kept
         /\ Session(s).moved = s.call.moved
BY DEF Shaped, Running, Session, Db

(* run_statement starts with the savepoint at the changes there are.        *)
LEMMA RunGood ==
  ASSUME NEW s, Shaped(s), s.login = "LoggedIn",
         NEW id, NEW sql, NEW runs, NEW fetch, NEW commit
  PROVE  Good(Run(s, id, sql, runs, fetch, commit))
<1> DEFINE call == [cursor |-> id, sql |-> sql, left |-> runs, fetch |-> fetch,
                    commit |-> commit, mark |-> s.db.log, moved |-> FALSE,
                    affected |-> 0, before |-> s.db.log + s.kept]
           t == [s EXCEPT !.phase = "executing", !.call = call]
<1>1. /\ call = [f \in CallFields |-> call[f]]
      /\ call.mark = s.db.log /\ call.affected = 0 /\ call.before = s.db.log + s.kept
      /\ call.moved \in BOOLEAN /\ ~call.moved
  BY DEF CallFields
<1>2. s.db.log \in Nat /\ s.kept \in Nat
  BY DEF Shaped
<1> HIDE DEF call
<1>3. /\ Shaped(t) /\ t.phase = "executing" /\ t.call = call /\ t.db = s.db
      /\ t.kept = s.kept /\ t.login = "LoggedIn"
  BY DEF Shaped, Fields
<1>4. Running(t)
  BY <1>1, <1>2, <1>3, SMT DEF Running
<1> HIDE DEF t
<1>5. Good(t)
  BY <1>3, <1>4 DEF Good
<1> QED
  BY <1>5 DEF Run, t, call

(* An execution that ends well.                                             *)
LEMMA ExecuteOk ==
  ASSUME NEW s, Shaped(s), Running(s), s.phase = "executing",
         NEW x \in Executions(s.call.sql, Session(s)),
         NEW t, t = Settle(s, x.db)
  PROVE  Good(Ran(t, x.rows))
<1> DEFINE call == [t.call EXCEPT !.left = @ - 1, !.affected = @ + x.rows]
           u == [t EXCEPT !.call = call]
<1>1. /\ x.db \in Db /\ x.rows \in Nat
      /\ s.call.sql = "dml" => /\ x.db.kept = s.kept /\ x.db.moved = s.call.moved
                               /\ x.db.log = s.db.log + x.rows
  BY SessionDb, ExecutionsDb, SMT
<1>2. /\ Shaped(t) /\ t.login = "LoggedIn" /\ t.phase = "executing"
      /\ t.db.log = x.db.log /\ t.kept = x.db.kept
      /\ t.call = [s.call EXCEPT !.moved = x.db.moved]
  BY <1>1, SettleGood
<1>3. /\ call = [f \in CallFields |-> call[f]]
      /\ call.moved = x.db.moved /\ call.sql = s.call.sql /\ call.mark = s.call.mark
      /\ call.before = s.call.before /\ call.affected = s.call.affected + x.rows
  BY <1>2 DEF Running, CallFields
<1> HIDE DEF call
<1>4. /\ Shaped(u) /\ u.phase = "executing" /\ u.call = call /\ u.db = t.db
      /\ u.kept = t.kept /\ u.login = "LoggedIn"
  BY <1>2 DEF Shaped, Fields
<1> HIDE DEF u
<1>5. Running(u)
  <2>1. u.call.moved \in BOOLEAN
    BY <1>1, <1>3, <1>4 DEF Db
  <2>2. s.call.sql = "dml" => ~u.call.moved
    <3>1. s.call.sql = "dml" => ~s.call.moved
      BY DEF Running
    <3> QED BY <1>1, <1>3, <1>4, <3>1
  <2>3. s.db.log \in Nat /\ s.kept \in Nat
    BY DEF Shaped, Running
  <2>4. u.call.mark \in Nat /\ u.call.affected \in Nat /\ u.call.before \in Nat
    BY <1>1, <1>3, <1>4, SMT DEF Running
  <2>5. s.call.sql = "dml" => /\ u.call.mark + u.kept = u.call.before
                             /\ u.db.log + u.kept = u.call.before + u.call.affected
    BY <1>1, <1>2, <1>3, <1>4, <2>3, SMT DEF Running
  <2> QED
    BY <1>3, <1>4, <2>1, <2>2, <2>4, <2>5 DEF Running
<1>6. Good(u)
  BY <1>4, <1>5 DEF Good
<1> QED
  BY <1>6 DEF Ran, u, call

(* An OUT value that does not fit: nothing of the call is kept.             *)
LEMMA ExecuteUnfit ==
  ASSUME NEW s, Shaped(s), Running(s),
         NEW x \in Executions(s.call.sql, Session(s)),
         NEW t, t = Settle(s, rollback_to(x.db, s.call.mark))
  PROVE  Good(Reply(t, Message(call_status(t), s.call.cursor, 0, "6502")))
<1> DEFINE d == rollback_to(x.db, s.call.mark)
           m == Message(call_status(t), s.call.cursor, 0, "6502")
           u == Reply(t, m)
<1>1. /\ x.db \in Db /\ x.rows \in Nat
      /\ s.call.sql = "dml" => /\ x.db.kept = s.kept /\ x.db.moved = s.call.moved
                               /\ x.db.log = s.db.log + x.rows
  BY SessionDb, ExecutionsDb, SMT
<1>2. s.call.mark \in Nat
  BY DEF Running
<1>3. /\ d \in Db /\ d.kept = x.db.kept
      /\ ~x.db.moved /\ s.call.mark <= x.db.log => d.log = s.call.mark
  BY <1>1, <1>2, RollbackDb
<1> HIDE DEF d
<1>4. /\ Shaped(t) /\ t.login = "LoggedIn" /\ t.db.log = d.log /\ t.kept = d.kept
      /\ t.call = [s.call EXCEPT !.moved = d.moved]
  BY <1>3, SettleGood, SMT DEF d
<1>5. t.call.sql = s.call.sql /\ t.call.before = s.call.before
  BY <1>4 DEF Running, CallFields
<1>6. m.status = (t.db.log > 0) /\ m.count = 0 /\ m.error = "6502"
  BY <1>4, CallStatus DEF Message
<1> HIDE DEF m
<1>7. /\ Shaped(u) /\ u.phase = "reply" /\ u.reply = m /\ u.login = t.login
      /\ u.db = t.db /\ u.call = t.call /\ u.kept = t.kept
  BY <1>4 DEF Shaped, Fields, Reply
<1> HIDE DEF u
<1>8. StatusTrue(u)
  BY <1>6, <1>7 DEF StatusTrue
<1>9. s.call.sql = "dml" => s.call.mark <= x.db.log
  BY <1>1, SMT DEF Running, Shaped
<1>10. CountTrue(u)
  <2>1. u.call.sql = s.call.sql /\ u.reply.error # "commit"
    BY <1>5, <1>6, <1>7
  <2>2. ASSUME s.call.sql = "dml"
        PROVE  u.db.log + u.kept = u.call.before + u.reply.count
    <3>1. /\ ~s.call.moved /\ s.call.mark + s.kept = s.call.before
          /\ s.call.before \in Nat
      BY <2>2 DEF Running
    <3>2. ~x.db.moved /\ x.db.kept = s.kept /\ s.call.mark <= x.db.log
      BY <1>1, <1>9, <2>2, <3>1
    <3>3. d.log = s.call.mark /\ d.kept = s.kept
      BY <1>3, <3>2
    <3>4. /\ u.db.log = s.call.mark /\ u.kept = s.kept
          /\ u.call.before = s.call.before /\ u.reply.count = 0
      BY <1>4, <1>5, <1>6, <1>7, <3>3
    <3> QED BY <3>1, <3>4, SMT
  <2> QED BY <2>1, <2>2 DEF CountTrue
<1>11. Good(u)
  BY <1>7, <1>8, <1>10 DEF Good
<1> QED
  BY <1>11 DEF u, m

(* An execution that fails: the ones before it are kept, and counted.       *)
LEMMA ExecuteFailed ==
  ASSUME NEW s, Shaped(s), Running(s),
         NEW x \in Executions(s.call.sql, Session(s)), x.end \notin {"ok", "unfit"},
         NEW t, t = Settle(s, x.db)
  PROVE  Good(Reply(t, Message(call_status(t), s.call.cursor, s.call.affected, "error")))
<1> DEFINE m == Message(call_status(t), s.call.cursor, s.call.affected, "error")
           u == Reply(t, m)
<1>1. /\ x.db \in Db
      /\ s.call.sql = "dml" => x.db.kept = s.kept /\ x.db.log = s.db.log + x.rows
  BY SessionDb, ExecutionsDb, SMT
<1>2. s.call.sql = "dml" => x.rows = 0
  BY SMT DEF Executions, Outcome
<1>3. s.call.sql = "dml" => x.db.log = s.db.log
  BY <1>1, <1>2, SMT DEF Shaped, Running
<1>4. /\ Shaped(t) /\ t.login = "LoggedIn" /\ t.db.log = x.db.log /\ t.kept = x.db.kept
      /\ t.call = [s.call EXCEPT !.moved = x.db.moved]
  BY <1>1, SettleGood, SMT
<1>5. t.call.sql = s.call.sql /\ t.call.before = s.call.before
  BY <1>4 DEF Running, CallFields
<1>6. m.status = (t.db.log > 0) /\ m.count = s.call.affected /\ m.error = "error"
  BY <1>4, CallStatus DEF Message
<1> HIDE DEF m
<1>7. /\ Shaped(u) /\ u.phase = "reply" /\ u.reply = m /\ u.login = t.login
      /\ u.db = t.db /\ u.call = t.call /\ u.kept = t.kept
  BY <1>4 DEF Shaped, Fields, Reply
<1> HIDE DEF u
<1>8. StatusTrue(u)
  BY <1>6, <1>7 DEF StatusTrue
<1>9. CountTrue(u)
  BY <1>1, <1>3, <1>4, <1>5, <1>6, <1>7, SMT DEF CountTrue, Running
<1>10. Good(u)
  BY <1>7, <1>8, <1>9 DEF Good
<1> QED
  BY <1>10 DEF u, m

(* The cursor a call describes is no business of the database session.      *)
LEMMA DescribedGood ==
  ASSUME NEW s, Shaped(s), NEW id, NEW size
  PROVE  LET t == Described(s, id, size) IN
         /\ Shaped(t)
         /\ t.login = s.login /\ t.db = s.db /\ t.call = s.call /\ t.kept = s.kept
<1> DEFINE next == IF id = s.next THEN s.next + 1 ELSE s.next
           executed == IF s.call.sql = "query" THEN s.executed + 1 ELSE s.executed
           cs == Put(s.cursors, id, [sql |-> s.call.sql, pending |-> size, fetched |-> 0,
                                     tag |-> s.executed + 1])
<1>1. Described(s, id, size) =
        [s EXCEPT !.next = next, !.executed = executed, !.cursors = cs]
  BY DEF Described, Shaped, Fields
<1> HIDE DEF next, executed, cs
<1> QED
  BY <1>1 DEF Shaped, Fields

(* The end of a call: `k` is its COMMIT, or what there is without one.      *)
LEMMA FinishGood ==
  ASSUME NEW s, Shaped(s), Running(s), NEW id, NEW size,
         NEW k \in IF s.call.commit THEN Commits(Session(s))
                  ELSE {[ok |-> TRUE, db |-> Session(s)]},
         NEW t, t = Settle(s, k.db),
         NEW u, u = Described(t, id, size)
  PROVE  /\ ~k.ok => Good(Reply(t, Message(FALSE, s.call.cursor, s.call.affected, "commit")))
         /\ k.ok /\ s.call.sql = "query" => Good(send_rows(u, id, s.call.fetch))
         /\ k.ok => Good(Reply(u, Message(call_status(u), id, s.call.affected, None)))
<1>1. /\ k.db \in Db
      /\ ~k.ok => k.db.log = 0
      /\ k.ok => k.db.log + k.db.kept = s.db.log + s.kept
  <2>1. Session(s) \in Db /\ Session(s).log = s.db.log /\ Session(s).kept = s.kept
    BY SessionDb
  <2>2. CASE k \in Commits(Session(s))
    <3>1. /\ k.db \in Db /\ k.db.log = 0
          /\ k.ok => k.db.kept = Session(s).kept + Session(s).log
      BY <2>1, <2>2, CommitsDb
    <3>2. s.db.log \in Nat /\ s.kept \in Nat
      BY DEF Shaped, Running
    <3> QED BY <2>1, <3>1, <3>2, SMT
  <2>3. CASE k = [ok |-> TRUE, db |-> Session(s)]
    <3>1. k.db = Session(s) /\ k.ok
      BY <2>3
    <3> QED BY <2>1, <3>1
  <2> QED BY <2>2, <2>3
<1>2. /\ Shaped(t) /\ t.login = "LoggedIn" /\ t.db.log = k.db.log /\ t.kept = k.db.kept
      /\ t.call = [s.call EXCEPT !.moved = k.db.moved]
  BY <1>1, SettleGood, SMT
<1>3. t.call.sql = s.call.sql /\ t.call.before = s.call.before
  BY <1>2 DEF Running, CallFields
<1>4. /\ Shaped(u) /\ u.login = "LoggedIn" /\ u.db = t.db /\ u.call = t.call
      /\ u.kept = t.kept
  BY <1>2, DescribedGood, SMT
<1>5. ASSUME ~k.ok
      PROVE  Good(Reply(t, Message(FALSE, s.call.cursor, s.call.affected, "commit")))
  <2> DEFINE m == Message(FALSE, s.call.cursor, s.call.affected, "commit")
             v == Reply(t, m)
  <2>1. m.status = FALSE /\ m.error = "commit"
    BY DEF Message
  <2>2. t.db.log = 0
    BY <1>1, <1>2, <1>5
  <2>3. FALSE = (t.db.log > 0)
    BY <2>2, SMT
  <2> HIDE DEF m
  <2>4. /\ Shaped(v) /\ v.phase = "reply" /\ v.reply = m /\ v.login = t.login
        /\ v.db = t.db /\ v.call = t.call
    BY <1>2 DEF Shaped, Fields, Reply
  <2> HIDE DEF v
  <2>5. StatusTrue(v)
    BY <2>1, <2>3, <2>4 DEF StatusTrue
  <2>6. CountTrue(v)
    BY <2>1, <2>2, <2>4 DEF CountTrue
  <2>7. Good(v)
    BY <2>4, <2>5, <2>6 DEF Good
  <2> QED BY <2>7 DEF v, m
<1>6. ASSUME s.call.sql = "query"
      PROVE  Good(send_rows(u, id, s.call.fetch))
  BY <1>3, <1>4, <1>6, RowsGood
<1>7. ASSUME k.ok
      PROVE  Good(Reply(u, Message(call_status(u), id, s.call.affected, None)))
  <2> DEFINE m == Message(call_status(u), id, s.call.affected, None)
             v == Reply(u, m)
  <2>1. m.status = (u.db.log > 0) /\ m.error # "commit" /\ m.count = s.call.affected
    BY <1>4, CallStatus, NoneAssumption DEF Message
  <2> HIDE DEF m
  <2>2. /\ Shaped(v) /\ v.phase = "reply" /\ v.reply = m /\ v.login = u.login
        /\ v.db = u.db /\ v.call = u.call /\ v.kept = u.kept
    BY <1>4 DEF Shaped, Fields, Reply
  <2> HIDE DEF v
  <2>3. StatusTrue(v)
    BY <2>1, <2>2 DEF StatusTrue
  <2>4. s.call.sql = "dml" => t.db.log + t.kept = s.call.before + s.call.affected
    BY <1>1, <1>2, <1>7 DEF Running
  <2>5. CountTrue(v)
    BY <1>3, <1>4, <2>1, <2>2, <2>4 DEF CountTrue
  <2>6. Good(v)
    BY <2>2, <2>3, <2>5 DEF Good
  <2> QED BY <2>6 DEF v, m
<1> QED
  BY <1>5, <1>6, <1>7

-----------------------------------------------------------------------------
(* The database session a login opens.                                      *)
LEMMA OpenedDb ==
  ASSUME NEW s, Shaped(s), NEW sql, NEW d \in Opened(s, sql)
  PROVE  d \in Db /\ (sql = None => d.log = 0)
<1> DEFINE new == [log |-> 0, kept |-> s.kept, moved |-> FALSE]
<1>1. new \in Db /\ new.log = 0
  BY SMT DEF Shaped, Db
<1>2. CASE sql = None
  BY <1>1, <1>2 DEF Opened
<1>3. CASE sql # None
  <2>1. PICK x \in Executions(sql, new) : d = x.db
    BY <1>3 DEF Opened
  <2> HIDE DEF new
  <2> QED BY <1>1, <1>3, <2>1, ExecutionsDb
<1> QED
  BY <1>2, <1>3

LEMMA LoggedInShaped ==
  ASSUME NEW s, Shaped(s), NEW d \in Db
  PROVE  LET t == LoggedIn(s, d)
         IN  /\ Shaped(t) /\ t.db.log = d.log
             /\ \A f \in Fields \ {"login", "db", "kept"} : t[f] = s[f]
<1>1. d.log \in Nat /\ d.kept \in Nat /\ [log |-> d.log] \in [log : Nat]
  BY DEF Db
<1> QED
  BY <1>1, NoneAssumption DEF Shaped, Fields, LoggedIn

LEMMA NoChanges == FALSE = (0 > 0)
  BY SMT

(* Logins: a session that is logged in got its database session with it.    *)
(* The reply says that no transaction is open, and so it is unless a        *)
(* statement came with the login.                                           *)
LEMMA AuthenticateGood ==
  ASSUME NEW s, Shaped(s), s.call = None, NEW q, s.request = q,
         q.op \in {"auth1", "auth2", "wrong password", "bad verifier"},
         NEW u \in Authenticate(s, q)
  PROVE  Good(u)
<1> DEFINE challenged == [s EXCEPT !.login = "Challenged"]
           out == [s EXCEPT !.login = "None"]
           m == Message(FALSE, 0, 0, None)
<1>1. /\ Shaped(challenged) /\ challenged.call = None /\ challenged.login # "LoggedIn"
      /\ Shaped(out) /\ out.call = None /\ out.login # "LoggedIn"
  BY DEF Shaped, Fields
<1> HIDE DEF challenged, out
<1>2. \A error : Message(FALSE, 0, 0, error).status = FALSE
  BY DEF Message
<1>3. \A error : /\ Good(Reply(challenged, Message(FALSE, 0, 0, error)))
                 /\ Good(Reply(out, Message(FALSE, 0, 0, error)))
  BY <1>1, <1>2, ReplyGood
<1>4. \A error : Good(Fail(out, error))
  BY <1>1, FailGood
<1>5. ASSUME NEW d \in Opened(s, q.sql), q.op = "auth2"
      PROVE  Good(Reply(LoggedIn(s, d), m))
  <2> DEFINE t == LoggedIn(s, d)
  <2>1. d \in Db /\ (q.sql = None => d.log = 0)
    BY OpenedDb
  <2>2. /\ Shaped(t) /\ t.db.log = d.log
        /\ t.call = None /\ t.request = q
    BY <2>1, LoggedInShaped DEF Fields
  <2> HIDE DEF t, m
  <2>3. m.status = FALSE
    BY <1>2 DEF m
  <2>4. CASE q.sql = None
    <3>1. t.db.log = 0
      BY <2>1, <2>2, <2>4
    <3>2. FALSE = (t.db.log > 0)
      BY <3>1, NoChanges
    <3>3. Good(Reply(t, m))
      BY <2>2, <2>3, <3>2, ReplyGood
    <3> QED BY <3>3 DEF t
  <2>5. CASE q.sql # None
    <3> DEFINE v == Reply(t, m)
    <3>1. /\ Shaped(v) /\ v.phase = "reply" /\ v.call = None
          /\ v.reply = m /\ v.request = q
      BY <2>2 DEF Shaped, Reply, Fields
    <3> HIDE DEF v
    <3>2. CarriesStatement(v.request)
      BY <1>5, <2>5, <3>1 DEF CarriesStatement
    <3>3. StatusTrue(v) /\ CountTrue(v)
      BY <2>3, <3>1, <3>2 DEF StatusTrue, CountTrue
    <3>4. Good(v)
      BY <3>1, <3>3 DEF Good
    <3> QED BY <3>4 DEF v, t
  <2> QED BY <2>4, <2>5
<1>6. CASE q.op = "auth1"
  BY <1>3, <1>6 DEF Authenticate, challenged
<1>7. CASE q.op # "auth1" /\ s.login # "Challenged"
  BY <1>3, <1>7 DEF Authenticate, Denied, out
<1>8. CASE q.op = "bad verifier" /\ s.login = "Challenged"
  BY <1>4, <1>8 DEF Authenticate, out
<1>9. CASE q.op = "wrong password" /\ s.login = "Challenged"
  BY <1>3, <1>9 DEF Authenticate, Denied, out
<1>10. CASE q.op = "auth2" /\ s.login = "Challenged"
  <2>1. PICK d \in Opened(s, q.sql) : u = Reply(LoggedIn(s, d), m)
    BY <1>10 DEF Authenticate
  <2> QED BY <1>5, <1>10, <2>1
<1> QED
  BY <1>6, <1>7, <1>8, <1>9, <1>10

(* COMMIT, as a call of its own.                                            *)
LEMMA CommitGood ==
  ASSUME NEW s, Shaped(s), s.call = None, s.login = "LoggedIn",
         NEW k \in Commits([log |-> s.db.log, kept |-> s.kept, moved |-> FALSE]),
         NEW t, t = [s EXCEPT !.db.log = k.db.log, !.kept = k.db.kept]
  PROVE  /\ Good(Reply(t, Message(call_status(t), 0, 0, None)))
         /\ Good(Fail(t, "commit"))
<1>1. [log |-> s.db.log, kept |-> s.kept, moved |-> FALSE] \in Db
  BY DEF Shaped, Db
<1>2. k.db.log \in Nat /\ k.db.kept \in Nat
  BY <1>1, CommitsDb DEF Db
<1>3. Shaped(t) /\ t.call = None
  BY <1>2, NoneAssumption DEF Shaped, Fields
<1>4. Message(call_status(t), 0, 0, None).status = call_status(t)
  BY DEF Message
<1> QED
  BY <1>3, <1>4, CallStatus, ReplyGood, FailGood

(* Whatever a client calls.                                                 *)
LEMMA CallsGood ==
  ASSUME NEW s, Shaped(s), s.call = None, NEW q, s.request = q, NEW u \in Calls(s, q)
  PROVE  Good(u)
<1> DEFINE auth == q.op \in {"auth1", "auth2", "wrong password", "bad verifier"}
<1>1. CASE auth
  BY <1>1, AuthenticateGood DEF Calls
<1>2. CASE ~auth /\ s.login # "LoggedIn"
  <2>1. u = Reply(s, Message(FALSE, 0, 0, "1012"))
    BY <1>2 DEF Calls
  <2> QED BY <1>2, <2>1, ReplyGood
<1>3. CASE ~auth /\ s.login = "LoggedIn"
  <2>1. CASE q.op = "execute"
    <3>1. u = execute(s, q)
      BY <1>3, <2>1 DEF Calls
    <3> QED BY <1>3, <3>1, RunGood, FailGood DEF execute
  <2>2. CASE q.op = "reexecute"
    <3>1. u = reexecute(s, q)
      BY <1>3, <2>2 DEF Calls
    <3> QED BY <1>3, <3>1, RunGood, FailGood DEF reexecute
  <2>3. CASE q.op = "fetch"
    <3>1. u = send_rows(s, q.cursor, q.fetch)
      BY <1>3, <2>3 DEF Calls
    <3> QED BY <3>1, RowsGood
  <2>4. CASE q.op = "commit"
    <3>1. PICK k \in Commits([log |-> s.db.log, kept |-> s.kept, moved |-> FALSE]) :
            u = Committed(s, k)
      BY <1>3, <2>4 DEF Calls
    <3> QED BY <1>3, <3>1, CommitGood DEF Committed
  <2>5. CASE q.op = "rollback"
    <3> DEFINE t == [s EXCEPT !.db.log = 0]
    <3>1. u = Reply(t, Message(FALSE, 0, 0, None))
      BY <1>3, <2>5 DEF Calls
    <3>2. Shaped(t) /\ t.call = None /\ t.db.log = 0
      <4> DEFINE db == [s.db EXCEPT !.log = 0]
      <4>1. db \in [log : Nat] /\ db.log = 0
        BY <1>3 DEF Shaped
      <4>2. t = [s EXCEPT !.db = db]
        BY DEF Shaped, Fields
      <4> HIDE DEF db, t
      <4> QED BY <4>1, <4>2, NoneAssumption DEF Shaped, Fields
    <3>3. Message(FALSE, 0, 0, None).status = FALSE /\ FALSE = (t.db.log > 0)
      BY <3>2, SMT DEF Message
    <3> QED BY <3>1, <3>2, <3>3, ReplyGood
  <2>6. CASE q.op = "ping"
    <3>1. u = Reply(s, Message(call_status(s), 0, 0, None))
      BY <1>3, <2>6 DEF Calls
    <3>2. Message(call_status(s), 0, 0, None).status = call_status(s)
      BY DEF Message
    <3> QED BY <1>3, <3>1, <3>2, CallStatus, ReplyGood
  <2>7. CASE q.op \notin {"execute", "reexecute", "fetch", "commit", "rollback", "ping"}
    <3>1. u = Fail(s, "3115")
      BY <1>3, <2>7 DEF Calls
    <3> QED BY <3>1, FailGood
  <2> QED BY <2>1, <2>2, <2>3, <2>4, <2>5, <2>6, <2>7
<1> QED
  BY <1>1, <1>2, <1>3

-----------------------------------------------------------------------------
(* The steps of a connection, on its own session.                           *)
LEMMA ClosedGood ==
  ASSUME NEW s, Shaped(s)
  PROVE  Good(Closed(s))
BY DEF Closed, Good, Shaped, Fields

(* A step between calls, which sets neither the login nor the session.      *)
LEMMA IdleGood ==
  ASSUME NEW s, Shaped(s), s.call = None, NEW phase, phase \notin {"executing", "reply"}
  PROVE  /\ Good([s EXCEPT !.phase = phase])
         /\ \A old : Good([s EXCEPT !.phase = phase, !.old = old])
         /\ \A request, handled :
              Good([s EXCEPT !.phase = phase, !.buffer = << >>, !.request = request,
                             !.handled = handled])
<1>1. Good([s EXCEPT !.phase = phase])
  BY DEF Good, Shaped, Fields
<1>2. ASSUME NEW old PROVE Good([s EXCEPT !.phase = phase, !.old = old])
  BY DEF Good, Shaped, Fields
<1>3. ASSUME NEW request, NEW handled, NEW buffer
      PROVE  Good([s EXCEPT !.phase = phase, !.buffer = buffer, !.request = request,
                            !.handled = handled])
  BY DEF Good, Shaped, Fields
<1> QED
  BY <1>1, <1>2, <1>3

LEMMA ReceivedGood ==
  ASSUME NEW s, Good(s), s.phase = "reading", NEW p, NEW asked
  PROVE  Good(Received(s, p, asked))
<1>1. Shaped(s) /\ s.call = None
  BY DEF Good
<1>2. \A parts : Good([s EXCEPT !.buffer = parts])
  BY <1>1 DEF Good, Shaped, Fields
<1>3. \A request, handled :
        Good([s EXCEPT !.phase = "dispatch", !.buffer = << >>, !.request = request,
                       !.handled = handled])
  BY <1>1, IdleGood
<1> QED
  BY <1>1, <1>2, <1>3, ClosedGood DEF Received

LEMMA InitIInv == Init => IInv
<1> SUFFICES ASSUME Init PROVE IInv
  OBVIOUS
<1>1. Good(NewSession)
  BY NoneAssumption DEF NewSession, Good, Shaped, Fields
<1>2. Stopping
  BY DEF Init, ServerInit, Stopping
<1> QED
  BY <1>1, <1>2 DEF Init, IInv

(* A step of one connection that leaves the server alone keeps IInv if it   *)
(* keeps its session good.                                                  *)
LEMMA BecomeIInv ==
  ASSUME IInv, NEW c \in Conn, NEW s, Good(s), Become(c, s), UNCHANGED serverVars
  PROVE  IInv'
<1>1. conn' = [conn EXCEPT ![c] = s]
  BY DEF Become
<1>2. conn' = [d \in Conn |-> conn'[d]] /\ \A d \in Conn : conn'[d] = IF d = c THEN s ELSE conn[d]
  BY <1>1 DEF IInv
<1>3. \A d \in Conn : Good(conn[d])
  BY DEF IInv
<1>4. \A d \in Conn : Good(conn'[d])
  BY <1>2, <1>3
<1>5. Stopping'
  BY DEF IInv, Stopping, serverVars
<1> QED
  BY <1>2, <1>4, <1>5 DEF IInv

(* The task of a connection.                                                *)
LEMMA ServeIInv ==
  ASSUME IInv, NEW c \in Conn, Serve(c)
  PROVE  IInv'
<1> DEFINE s == conn[c]
<1>1. Good(s) /\ Shaped(s)
  BY DEF IInv, Good
<1>2. CASE Handshake(c)
  <2>1. s.phase \in {"handshake", "connect data"}
    BY <1>2 DEF Handshake
  <2>2. s.call = None
    BY <1>1, <2>1 DEF Good
  <2>3. \A old : Good(Greeted(s, old))
    BY <1>1, <2>2, IdleGood, ClosedGood DEF Greeted
  <2>4. \A old : Good([s EXCEPT !.phase = "connect data", !.old = old])
    BY <1>1, <2>2, IdleGood
  <2>5. Good(Closed(s))
    BY <1>1, ClosedGood
  <2> DEFINE p == Head(wire[c])
             t == CASE p.kind = "end" -> Closed(s)
                    [] p.kind # "end" /\ s.phase = "connect data" -> Greeted(s, s.old)
                    [] OTHER ->
                         IF p.kind # "connect" THEN Closed(s)
                         ELSE IF p.part.long
                         THEN [s EXCEPT !.phase = "connect data", !.old = p.part.old]
                         ELSE Greeted(s, p.part.old)
  <2>6. Good(t)
    BY <2>3, <2>4, <2>5
  <2>7. Become(c, t) /\ UNCHANGED serverVars
    BY <1>2 DEF Handshake
  <2> HIDE DEF t
  <2> QED BY <2>6, <2>7, BecomeIInv
<1>3. CASE ReadPacket(c)
  <2>1. /\ s.phase = "reading" /\ UNCHANGED serverVars
        /\ Become(c, Received(s, Head(wire[c]), client[c].asked))
    BY <1>3 DEF ReadPacket
  <2> QED BY <1>1, <2>1, ReceivedGood, BecomeIInv
<1>4. CASE Dispatch(c)
  <2> DEFINE q == s.request
             t == [s EXCEPT !.cursors = Without(@, q.close)]
  <2>1. s.phase = "dispatch" /\ UNCHANGED serverVars
    BY <1>4 DEF Dispatch
  <2>2. s.call = None
    BY <1>1, <2>1 DEF Good
  <2>3. Shaped(t) /\ t.call = None /\ t.request = q
    <3> DEFINE cs == Without(s.cursors, q.close)
    <3>1. t = [s EXCEPT !.cursors = cs]
      BY <1>1 DEF Shaped, Fields
    <3> HIDE DEF cs, t
    <3> QED BY <1>1, <2>2, <3>1 DEF Shaped, Fields
  <2>4. Good(Reply(s, Message(None, 0, 0, None)))
    <3>1. Message(None, 0, 0, None).status = None
      BY DEF Message
    <3> QED BY <1>1, <2>2, <3>1, ReplyGood
  <2>5. PICK u \in CASE q.op = "protocol" -> {Reply(s, Message(None, 0, 0, None))}
                     [] q.op # "protocol" /\ q.malformed -> {Fail(t, "3115")}
                     [] OTHER -> Calls(t, q) : Become(c, u)
    BY <1>4 DEF Dispatch
  <2> HIDE DEF t
  <2>6. Good(u)
    BY <2>3, <2>4, <2>5, FailGood, CallsGood
  <2> QED BY <2>1, <2>5, <2>6, BecomeIInv
<1>5. CASE Execute(c)
  <2>1. s.phase = "executing" /\ UNCHANGED serverVars
    BY <1>5 DEF Execute
  <2>2. Running(s)
    BY <1>1, <2>1 DEF Good
  <2> DEFINE Left(x) ==
        CASE x.end = "ok" -> Ran(Settle(s, x.db), x.rows)
          [] x.end = "unfit" ->
               LET t == Settle(s, rollback_to(x.db, s.call.mark)) IN
               Reply(t, Message(call_status(t), s.call.cursor, 0, "6502"))
          [] OTHER ->
               LET t == Settle(s, x.db) IN
               Reply(t, Message(call_status(t), s.call.cursor, s.call.affected, "error"))
  <2>3. PICK x \in Executions(s.call.sql, Session(s)) : Become(c, Left(x))
    BY <1>5 DEF Execute
  <2>4. Good(Left(x))
    <3>1. CASE x.end = "ok"
      BY <1>1, <2>1, <2>2, <3>1, ExecuteOk
    <3>2. CASE x.end = "unfit"
      BY <1>1, <2>2, <3>2, ExecuteUnfit
    <3>3. CASE x.end \notin {"ok", "unfit"}
      BY <1>1, <2>2, <3>3, ExecuteFailed
    <3> QED BY <3>1, <3>2, <3>3
  <2> HIDE DEF Left
  <2> QED BY <2>1, <2>3, <2>4, BecomeIInv
<1>6. CASE Finish(c)
  <2>1. s.phase = "executing" /\ UNCHANGED serverVars
    BY <1>6 DEF Finish
  <2>2. Running(s)
    BY <1>1, <2>1 DEF Good
  <2> DEFINE id == IF s.call.cursor = 0 THEN s.next ELSE s.call.cursor
             K == IF s.call.commit THEN Commits(Session(s))
                  ELSE {[ok |-> TRUE, db |-> Session(s)]}
             T(k) == Settle(s, k.db)
             U(k, size) == Described(T(k), id, size)
             Left(k, size) ==
               CASE ~k.ok ->
                      Reply(T(k), Message(FALSE, s.call.cursor, s.call.affected, "commit"))
                 [] k.ok /\ s.call.sql = "query" -> send_rows(U(k, size), id, s.call.fetch)
                 [] OTHER -> Reply(U(k, size), Message(call_status(U(k, size)), id,
                                                       s.call.affected, None))
  <2>3. PICK k \in K, size \in (IF s.call.sql = "query" THEN ResultSizes ELSE {0}) :
          Become(c, Left(k, size))
    BY <1>6 DEF Finish
  <2>4. Good(Left(k, size))
    <3>1. /\ ~k.ok => Good(Reply(T(k), Message(FALSE, s.call.cursor, s.call.affected, "commit")))
          /\ k.ok /\ s.call.sql = "query" => Good(send_rows(U(k, size), id, s.call.fetch))
          /\ k.ok => Good(Reply(U(k, size), Message(call_status(U(k, size)), id,
                                                    s.call.affected, None)))
      BY <1>1, <2>2, <2>3, FinishGood
    <3> HIDE DEF T, U, id, K
    <3> QED BY <3>1
  <2> HIDE DEF Left
  <2> QED BY <2>1, <2>3, <2>4, BecomeIInv
<1>7. CASE WriteReply(c)
  <2> DEFINE t == [s EXCEPT !.phase = "reading", !.reply = None, !.call = None,
                            !.request = None]
  <2>1. Good(t)
    BY <1>1 DEF Good, Shaped, Fields
  <2>2. Good(Closed(s))
    BY <1>1, ClosedGood
  <2>3. (Become(c, t) \/ Become(c, Closed(s))) /\ UNCHANGED serverVars
    BY <1>7 DEF WriteReply
  <2> HIDE DEF t
  <2> QED BY <2>1, <2>2, <2>3, BecomeIInv
<1> QED
  BY <1>2, <1>3, <1>4, <1>5, <1>6, <1>7 DEF Serve

(* Seeds, the listener and the callers of stop().                           *)
LEMMA LifecycleStopping ==
  ASSUME Stopping, Lifecycle \/ BreakLoop
  PROVE  Stopping'
<1>1. CASE Seed
  BY <1>1 DEF Seed, Stopping
<1>2. CASE Listen
  BY <1>2 DEF Listen, Stopping
<1>3. ASSUME NEW p \in Caller, StopCall(p) PROVE Stopping'
  BY <1>3 DEF StopCall, Stopping
<1>4. ASSUME NEW p \in Caller, StopTake(p) PROVE Stopping'
  <2>1. p # None
    BY NoneAssumption
  <2>2. CASE taken
    BY <1>4, <2>2 DEF StopTake, Stopping
  <2>3. CASE ~taken
    BY <1>4, <2>1, <2>3 DEF StopTake, Stopping
  <2> QED BY <2>2, <2>3
<1>5. ASSUME NEW p \in Caller, StopJoin(p) PROVE Stopping'
  BY <1>5 DEF StopJoin, Stopping
<1>6. CASE BreakLoop
  BY <1>6 DEF BreakLoop, Stopping
<1> QED
  BY <1>1, <1>2, <1>3, <1>4, <1>5, <1>6 DEF Lifecycle

LEMMA NextIInv == IInv /\ [Next]_vars => IInv'
<1> SUFFICES ASSUME IInv, [Next]_vars PROVE IInv'
  OBVIOUS
<1>1. CASE Lifecycle /\ UNCHANGED <<wire, client, conn>>
  BY <1>1, LifecycleStopping DEF IInv
<1>2. CASE Break
  <2>1. Stopping'
    BY <1>2, LifecycleStopping DEF Break, IInv
  <2>2. conn' = [c \in Conn |-> IF conn[c].phase = "backlog" THEN Closed(conn[c]) ELSE conn[c]]
    BY <1>2 DEF Break
  <2>3. \A c \in Conn : Good(conn[c]) /\ Good(Closed(conn[c]))
    BY ClosedGood DEF IInv, Good
  <2>4. \A c \in Conn : conn'[c] = Closed(conn[c]) \/ conn'[c] = conn[c]
    BY <2>2
  <2>5. conn' = [c \in Conn |-> conn'[c]]
    BY <2>2
  <2>6. \A c \in Conn : Good(conn'[c])
    BY <2>3, <2>4
  <2> QED BY <2>1, <2>5, <2>6 DEF IInv
<1>3. ASSUME NEW c \in Conn, Connect(c) \/ Accept(c) PROVE IInv'
  <2>1. /\ conn[c].phase \in {"absent", "backlog"} /\ UNCHANGED serverVars
        /\ \/ Become(c, [conn[c] EXCEPT !.phase = "backlog"])
           \/ Become(c, [conn[c] EXCEPT !.phase = "handshake"])
    BY <1>3 DEF Connect, Accept
  <2>2. Shaped(conn[c]) /\ conn[c].call = None
    BY <2>1 DEF IInv, Good
  <2>3. /\ Good([conn[c] EXCEPT !.phase = "backlog"])
        /\ Good([conn[c] EXCEPT !.phase = "handshake"])
    BY <2>2, IdleGood
  <2> QED BY <2>1, <2>3, BecomeIInv
<1>4. ASSUME NEW c \in Conn, Ask(c) \/ HangUp(c) PROVE IInv'
  <2>1. UNCHANGED <<serverVars, conn>>
    BY <1>4 DEF Ask, HangUp
  <2> QED BY <2>1 DEF IInv, Stopping, serverVars
<1>5. ASSUME NEW c \in Conn, Serve(c) PROVE IInv'
  BY <1>5, ServeIInv
<1>6. CASE UNCHANGED vars
  BY <1>6 DEF IInv, Stopping, vars, serverVars
<1> QED
  BY <1>1, <1>2, <1>3, <1>4, <1>5, <1>6 DEF Next

(* The inductive invariant of connections and of stop() holds in every      *)
(* reachable state, for any number of connections, callers, requests,       *)
(* cursors and executions (server session.rs, lib.rs; Node lib.rs).         *)
THEOREM Invariance == Spec => []IInv
BY InitIInv, NextIInv, PTL DEF Spec

(* A connection that may run calls has a database session: db() cannot      *)
(* panic (session.rs db, call, auth_phase_two).                             *)
THEOREM LoggedInSession == Spec => []LoggedInHasSession
<1>1. IInv => LoggedInHasSession
  BY DEF IInv, Good, Shaped, LoggedInHasSession
<1> QED
  BY <1>1, Invariance, PTL

(* A reply tells truly whether a transaction is open, except that the reply *)
(* to a login that carries a statement never says so (session.rs            *)
(* call_status, auth_phase_two).                                            *)
THEOREM TrueStatus == Spec => []StatusTellsTransaction
<1>1. IInv => StatusTellsTransaction
  BY DEF IInv, Good, StatusTrue, StatusTellsTransaction
<1> QED
  BY <1>1, Invariance, PTL

(* The row count of a reply to DML is the number of its rows that are kept, *)
(* however many executions the call had and however it ended (session.rs    *)
(* run_statement).                                                          *)
THEOREM TrueCounts == Spec => []CountsKeptRows
<1>1. IInv => CountsKeptRows
  BY DEF IInv, Good, CountTrue, CountsKeptRows
<1> QED
  BY <1>1, Invariance, PTL

(* A call of stop() returns only after the accept loop ended, whichever     *)
(* call stopped it (Node lib.rs stop, server lib.rs stop).                  *)
THEOREM StoppedAtReturn == Spec => []StopReturnsStopped
<1>1. IInv => StopReturnsStopped
  BY DEF IInv, Stopping, StopReturnsStopped
<1> QED
  BY <1>1, Invariance, PTL

-----------------------------------------------------------------------------
(* The wire and the buffer: every packet sent or read keeps them in step  *)
(* with the requests the client has sent.                                  *)

(* Packets.                                                                 *)
Hello == [old : BOOLEAN, long : BOOLEAN]
Piece == [no : Nat, half : {0, 1, 2}]
Kind == {"connect", "data", "marker", "end", "other"}
PacketT == [kind : Kind, part : {None} \cup Hello \cup Piece, end : BOOLEAN, eof : BOOLEAN]
PieceOf(n, half) == [no |-> n, half |-> half]

(* Behind the first m packets none ends a request; there are more than m    *)
(* only if the client has hung up.                                          *)
Quiet(w, m) == \A i \in 1..Len(w) : i > m => ~w[i].end
Within(w, m, gone) == Quiet(w, m) /\ (Len(w) <= m \/ gone)

(* A request on its way, as it is on the wire and in the buffer; and none.  *)
InOne(w, b, n, gone) ==
  /\ Len(w) >= 1 /\ Within(w, 1, gone) /\ b = << >>
  /\ w[1] = Data(PieceOf(n, 0), TRUE)
InTwo(w, b, n, gone) ==
  /\ Len(w) >= 3 /\ Within(w, 3, gone) /\ b = << >>
  /\ w[1] = Data(PieceOf(n, 1), FALSE) /\ w[2] = Packet("marker") /\ w[3] = Data(PieceOf(n, 2), TRUE)
AtMarker(w, b, n, gone) ==
  /\ Len(w) >= 2 /\ Within(w, 2, gone) /\ b = <<PieceOf(n, 1)>>
  /\ w[1] = Packet("marker") /\ w[2] = Data(PieceOf(n, 2), TRUE)
AtHalf(w, b, n, gone) ==
  /\ Len(w) >= 1 /\ Within(w, 1, gone) /\ b = <<PieceOf(n, 1)>>
  /\ w[1] = Data(PieceOf(n, 2), TRUE)
Coming(w, b, n, gone) ==
  InOne(w, b, n, gone) \/ InTwo(w, b, n, gone) \/ AtMarker(w, b, n, gone) \/ AtHalf(w, b, n, gone)
Resting(w, b, gone) == Quiet(w, 0) /\ (gone \/ (w = << >> /\ b = << >>))

Early == {"absent", "backlog", "handshake", "connect data"}
Busy == {"dispatch", "executing", "reply"}

(* What a connection has received and what its client has counted.          *)
Input(w, k, s) ==
  /\ w \in Seq(PacketT)
  /\ k.sent \in Nat /\ k.answered \in Nat /\ s.handled \in Nat
  /\ s.phase \in Early \cup Busy \cup {"reading", "closed"}
  /\ s.phase \in Early => /\ k.sent = 0 /\ k.answered = 0 /\ s.handled = 0
                          /\ s.buffer = << >> /\ Quiet(w, 0)
  /\ s.phase = "absent" => w = << >>
  /\ s.phase \in {"backlog", "handshake"} =>
       /\ w # << >> /\ w[1].part \in Hello
       /\ Len(w) <= (IF w[1].part.long THEN 2 ELSE 1) \/ k.gone
  /\ s.phase = "connect data" => Len(w) <= 1 \/ k.gone
  /\ s.phase = "reading" =>
       /\ s.handled = k.answered
       /\ \/ k.sent = k.answered /\ Resting(w, s.buffer, k.gone)
          \/ k.sent = k.answered + 1 /\ Coming(w, s.buffer, k.sent, k.gone)
  /\ s.phase \in Busy =>
       /\ s.handled = k.sent /\ k.sent = k.answered + 1
       /\ s.buffer = << >> /\ Resting(w, << >>, k.gone)

-----------------------------------------------------------------------------
(* The packets clients send.                                                *)
LEMMA Packets ==
  /\ \A kind \in Kind : /\ Packet(kind) \in PacketT /\ Packet(kind).kind = kind
                          /\ ~Packet(kind).end /\ ~Packet(kind).eof
                          /\ Packet(kind).part = None
  /\ \A part \in {None} \cup Piece, end \in BOOLEAN :
       /\ Data(part, end) \in PacketT /\ Data(part, end).kind = "data"
       /\ Data(part, end).part = part /\ Data(part, end).end = end /\ ~Data(part, end).eof
<1>1. ASSUME NEW kind \in Kind
      PROVE  /\ Packet(kind) \in PacketT /\ Packet(kind).kind = kind
             /\ ~Packet(kind).end /\ ~Packet(kind).eof /\ Packet(kind).part = None
  BY DEF Packet, PacketT
<1>2. ASSUME NEW part \in {None} \cup Piece, NEW end \in BOOLEAN
      PROVE  /\ Data(part, end) \in PacketT /\ Data(part, end).kind = "data"
             /\ Data(part, end).part = part /\ Data(part, end).end = end
             /\ ~Data(part, end).eof
  <2> DEFINE p == Packet("data")
             d == [p EXCEPT !.part = part, !.end = end]
  <2>1. p \in PacketT /\ p.kind = "data" /\ ~p.eof
    BY DEF Packet, PacketT, Kind
  <2> HIDE DEF p
  <2>2. d \in PacketT
    BY <2>1 DEF PacketT
  <2>3. d.kind = "data" /\ ~d.eof
    BY <2>1 DEF PacketT
  <2>4. d.part = part
    BY <2>1 DEF PacketT
  <2>5. d.end = end
    BY <2>1 DEF PacketT
  <2> QED BY <2>2, <2>3, <2>4, <2>5 DEF Data, p
<1> QED
  BY <1>1, <1>2

(* A packet with the piece `x` of a request.                                *)
Carries(d, x, end) ==
  d \in PacketT /\ d.kind = "data" /\ d.part = x /\ d.end = end /\ ~d.eof

LEMMA Pieces ==
  ASSUME NEW n \in Nat
  PROVE  /\ PieceOf(n, 0).no = n /\ PieceOf(n, 0).half = 0
         /\ PieceOf(n, 1).no = n /\ PieceOf(n, 1).half = 1
         /\ PieceOf(n, 2).no = n /\ PieceOf(n, 2).half = 2
         /\ Carries(Data(PieceOf(n, 0), TRUE), PieceOf(n, 0), TRUE)
         /\ Carries(Data(PieceOf(n, 1), FALSE), PieceOf(n, 1), FALSE)
         /\ Carries(Data(PieceOf(n, 2), TRUE), PieceOf(n, 2), TRUE)
<1>1. \A h \in {0, 1, 2} : PieceOf(n, h) \in Piece /\ PieceOf(n, h).no = n /\ PieceOf(n, h).half = h
  BY DEF PieceOf, Piece
<1>2. \A part \in Piece, end \in BOOLEAN : Carries(Data(part, end), part, end)
  BY Packets DEF Carries
<1> QED
  BY <1>1, <1>2

LEMMA WholePieces ==
  ASSUME NEW n \in Nat
  PROVE  LET one == Append(<< >>, PieceOf(n, 0))
             two == Append(<<PieceOf(n, 1)>>, PieceOf(n, 2))
         IN  Whole(one) /\ one[1].no = n /\ Whole(two) /\ two[1].no = n
<1> DEFINE a == PieceOf(n, 0)
           b == PieceOf(n, 1)
           d == PieceOf(n, 2)
<1>1. /\ a.no = n /\ a.half = 0 /\ b.no = n /\ b.half = 1 /\ d.no = n /\ d.half = 2
  BY Pieces
<1> HIDE DEF a, b, d
<1> DEFINE one == Append(<< >>, a)
           two == Append(<<b>>, d)
<1>2. Len(one) = 1 /\ one[1] = a
  BY SMT
<1>3. Len(two) = 2 /\ two[1] = b /\ two[2] = d
  BY SMT
<1> HIDE DEF one, two
<1>4. Whole(one) /\ one[1].no = n /\ Whole(two) /\ two[1].no = n
  BY <1>1, <1>2, <1>3 DEF Whole
<1> QED
  BY <1>4 DEF a, b, d, one, two

(* A packet that was read leaves one fewer to come.                         *)
LEMMA TailWithin ==
  ASSUME NEW w \in Seq(PacketT), w # << >>, NEW m \in Nat, NEW gone
  PROVE  /\ Tail(w) \in Seq(PacketT) /\ Head(w) = w[1] /\ Len(Tail(w)) = Len(w) - 1
         /\ \A i \in 1..(Len(w) - 1) : Tail(w)[i] = w[i + 1]
         /\ Quiet(w, m + 1) => Quiet(Tail(w), m)
         /\ Within(w, m + 1, gone) => Within(Tail(w), m, gone)
         /\ Quiet(w, 0) => Quiet(Tail(w), 0)
<1>1. /\ Tail(w) \in Seq(PacketT) /\ Len(Tail(w)) = Len(w) - 1 /\ Len(w) \in Nat \ {0}
      /\ \A i \in 1..Len(Tail(w)) : Tail(w)[i] = w[i + 1]
  <2>1. Len(w) \in Nat \ {0}
    BY EmptySeq
  <2> QED BY <2>1, HeadTailProperties
<1>2. Head(w) = w[1]
  BY SMT
<1>3. \A j \in Nat : Quiet(w, j + 1) => Quiet(Tail(w), j)
  <2> SUFFICES ASSUME NEW j \in Nat, Quiet(w, j + 1), NEW i \in 1..Len(Tail(w)), i > j
               PROVE  ~Tail(w)[i].end
    BY DEF Quiet
  <2>1. i + 1 \in 1..Len(w) /\ i + 1 > j + 1 /\ Tail(w)[i] = w[i + 1]
    BY <1>1, SMT
  <2> QED BY <2>1 DEF Quiet
<1>4. Quiet(w, 0) => Quiet(w, 1)
  BY SMT DEF Quiet
<1> QED
  BY <1>1, <1>2, <1>3, <1>4, SMT DEF Within

LEMMA TailSteps ==
  ASSUME NEW w \in Seq(PacketT), w # << >>, NEW gone
  PROVE  /\ Within(w, 3, gone) => Within(Tail(w), 2, gone)
         /\ Within(w, 2, gone) => Within(Tail(w), 1, gone)
         /\ Within(w, 1, gone) => Within(Tail(w), 0, gone)
         /\ Len(w) >= 2 => Tail(w)[1] = w[2]
         /\ Len(w) >= 3 => Tail(w)[2] = w[3]
<1>1. /\ Within(w, 2 + 1, gone) => Within(Tail(w), 2, gone)
      /\ Within(w, 1 + 1, gone) => Within(Tail(w), 1, gone)
      /\ Within(w, 0 + 1, gone) => Within(Tail(w), 0, gone)
      /\ \A i \in 1..(Len(w) - 1) : Tail(w)[i] = w[i + 1]
  BY TailWithin
<1>2. 0 + 1 = 1 /\ 1 + 1 = 2 /\ 2 + 1 = 3 /\ Len(w) \in Nat
  BY SMT
<1> QED
  BY <1>1, <1>2, SMT

LEMMA TailQuiet ==
  ASSUME NEW w \in Seq(PacketT), w # << >>
  PROVE  /\ Tail(w) \in Seq(PacketT) /\ Len(Tail(w)) = Len(w) - 1 /\ Len(w) \in Nat
         /\ Head(w) = w[1]
         /\ Quiet(w, 0) => Quiet(Tail(w), 0)
BY TailWithin, SMT

LEMMA OneLess ==
  \A m \in Nat : (m <= 1 => m - 1 <= 0) /\ (m <= 2 => m - 1 <= 1)
BY SMT

LEMMA NoPackets ==
  ASSUME NEW w \in Seq(PacketT), Len(w) <= 0
  PROVE  w = << >>
BY EmptySeq, SMT

(* The fields of a session after a step between requests.                   *)
LEMMA SetClosed ==
  ASSUME NEW s, Shaped(s)
  PROVE  Closed(s).phase = "closed" /\ Closed(s).handled = s.handled
BY DEF Closed, Shaped, Fields

(* A connection that ends promises nothing more.                            *)
LEMMA ClosedInput ==
  ASSUME NEW w, NEW k, NEW s, Input(w, k, s), NEW v \in Seq(PacketT), NEW u,
         u.phase = "closed", u.handled = s.handled
  PROVE  Input(v, k, u)
BY DEF Input, Early, Busy

(* The last packet of a request: the request is whole, and the next one.    *)
LEMMA Complete ==
  ASSUME NEW w, NEW k, NEW s, Input(w, k, s), Shaped(s), s.phase = "reading",
         k.sent = k.answered + 1, w # << >>,
         InOne(w, s.buffer, k.sent, k.gone) \/ AtHalf(w, s.buffer, k.sent, k.gone),
         NEW asked, NEW u, u = Received(s, Head(w), asked)
  PROVE  Input(Tail(w), k, u) /\ u.phase = "dispatch" /\ u.handled = k.sent
<1> DEFINE p == Head(w)
           n == k.sent
           parts == Append(s.buffer, p.part)
<1>1. w \in Seq(PacketT) /\ n \in Nat /\ s.handled = k.answered /\ k.answered \in Nat
  BY DEF Input
<1>2. /\ p = w[1] /\ Tail(w) \in Seq(PacketT) /\ Within(Tail(w), 0, k.gone)
  <2>1. Within(w, 1, k.gone)
    BY DEF InOne, AtHalf
  <2> QED BY <1>1, <2>1, TailWithin, TailSteps
<1>3. Resting(Tail(w), << >>, k.gone)
  BY <1>2, NoPackets DEF Within, Resting
<1> HIDE DEF p
<1>4. /\ p.kind = "data" /\ ~p.eof /\ p.end
      /\ Whole(parts) /\ parts[1].no = n
  <2>1. CASE s.buffer = << >> /\ p = Data(PieceOf(n, 0), TRUE)
    <3>1. Carries(p, PieceOf(n, 0), TRUE)
      BY <1>1, <2>1, Pieces
    <3>2. p.kind = "data" /\ ~p.eof /\ p.end /\ parts = Append(<< >>, PieceOf(n, 0))
      BY <2>1, <3>1 DEF Carries
    <3> QED BY <1>1, <3>2, WholePieces
  <2>2. CASE s.buffer = <<PieceOf(n, 1)>> /\ p = Data(PieceOf(n, 2), TRUE)
    <3>1. Carries(p, PieceOf(n, 2), TRUE)
      BY <1>1, <2>2, Pieces
    <3>2. /\ p.kind = "data" /\ ~p.eof /\ p.end
          /\ parts = Append(<<PieceOf(n, 1)>>, PieceOf(n, 2))
      BY <2>2, <3>1 DEF Carries
    <3> QED BY <1>1, <3>2, WholePieces
  <2> QED BY <1>2, <2>1, <2>2 DEF InOne, AtHalf
<1>5. u = [s EXCEPT !.phase = "dispatch", !.buffer = << >>, !.request = asked, !.handled = n]
  BY <1>4 DEF Received, p
<1>6. u.phase = "dispatch" /\ u.buffer = << >> /\ u.handled = n
  BY <1>5 DEF Shaped, Fields
<1> QED
  BY <1>1, <1>2, <1>3, <1>6 DEF Input, Early, Busy

LEMMA AppendFirst ==
  ASSUME NEW x
  PROVE  Append(<< >>, x) = <<x>>
BY SMT

(* A packet that is read: the connection goes on to the next one, handles   *)
(* the request it was sent, or ends.                                        *)
Reads(k, s, u) ==
  \/ u.phase \in {"reading", "closed"} /\ u.handled = s.handled
  \/ /\ u.phase = "dispatch" /\ u.handled = s.handled + 1
     /\ s.handled = k.answered /\ s.handled < k.sent

LEMMA ReceivedInput ==
  ASSUME NEW w, NEW k, NEW s, Input(w, k, s), Shaped(s), s.phase = "reading", w # << >>,
         NEW asked, NEW u, u = Received(s, Head(w), asked)
  PROVE  Input(Tail(w), k, u) /\ Reads(k, s, u)
<1> DEFINE p == Head(w)
           n == k.sent
           v == Tail(w)
<1> SUFFICES /\ Input(v, k, u)
             /\ \/ u.phase \in {"reading", "closed"} /\ u.handled = s.handled
                \/ /\ u.phase = "dispatch" /\ u.handled = s.handled + 1
                   /\ s.handled = k.answered /\ s.handled < k.sent
  BY DEF Reads
<1>1. /\ w \in Seq(PacketT) /\ n \in Nat /\ s.handled = k.answered /\ k.answered \in Nat
      /\ \/ k.sent = k.answered /\ Resting(w, s.buffer, k.gone)
         \/ k.sent = k.answered + 1 /\ Coming(w, s.buffer, n, k.gone)
  BY DEF Input
<1>2. /\ p = w[1] /\ v \in Seq(PacketT) /\ Len(v) = Len(w) - 1 /\ Len(w) \in Nat
      /\ Quiet(w, 0) => Quiet(v, 0)
  BY <1>1, TailWithin, SMT
<1>5. /\ Within(w, 3, k.gone) => Within(v, 2, k.gone)
      /\ Within(w, 2, k.gone) => Within(v, 1, k.gone)
      /\ Len(w) >= 2 => v[1] = w[2]
      /\ Len(w) >= 3 => v[2] = w[3]
  BY <1>1, TailSteps
<1> HIDE DEF p, v
<1>3. CASE k.sent = k.answered /\ Resting(w, s.buffer, k.gone)
  <2>1. ~p.end /\ k.gone /\ Quiet(v, 0)
    BY <1>1, <1>2, <1>3, EmptySeq, SMT DEF Resting, Quiet
  <2>2. CASE p.kind = "marker"
    <3>1. u = s
      BY <2>2 DEF Received, p
    <3> QED BY <1>1, <1>2, <1>3, <2>1, <3>1 DEF Input, Resting, Early, Busy
  <2>3. CASE p.kind = "data" /\ ~p.eof
    <3>1. PICK b : u = [s EXCEPT !.buffer = b]
      BY <2>1, <2>3 DEF Received, p
    <3>2. u.phase = s.phase /\ u.handled = s.handled
      BY <3>1 DEF Shaped, Fields
    <3> QED BY <1>1, <1>2, <1>3, <2>1, <3>2 DEF Input, Resting, Early, Busy
  <2>4. CASE p.kind # "marker" /\ ~(p.kind = "data" /\ ~p.eof)
    <3>1. u = Closed(s)
      BY <2>4 DEF Received, p
    <3> QED BY <1>2, <3>1, SetClosed, ClosedInput
  <2> QED BY <2>2, <2>3, <2>4
<1>4. CASE k.sent = k.answered + 1 /\ Coming(w, s.buffer, n, k.gone)
  <2>1. CASE InOne(w, s.buffer, n, k.gone) \/ AtHalf(w, s.buffer, n, k.gone)
    <3>1. Input(v, k, u) /\ u.phase = "dispatch" /\ u.handled = n
      <4>1. k.sent = k.answered + 1
        BY <1>4
      <4>2. Input(Tail(w), k, u) /\ u.phase = "dispatch" /\ u.handled = k.sent
        BY <2>1, <4>1, Complete, SMT
      <4> QED BY <4>2 DEF v
    <3> QED BY <1>1, <1>4, <3>1, SMT
  <2>2. CASE InTwo(w, s.buffer, n, k.gone)
    <3>1. p.kind = "data" /\ ~p.eof /\ ~p.end /\ p.part = PieceOf(n, 1)
      <4>1. p = Data(PieceOf(n, 1), FALSE)
        BY <1>2, <2>2 DEF InTwo
      <4>2. Carries(p, PieceOf(n, 1), FALSE)
        BY <1>1, <4>1, Pieces
      <4> QED BY <4>2 DEF Carries
    <3>2. u = [s EXCEPT !.buffer = Append(s.buffer, p.part)]
      BY <3>1 DEF Received, p
    <3>3. u.phase = s.phase /\ u.handled = s.handled /\ u.buffer = Append(s.buffer, p.part)
      BY <3>2 DEF Shaped, Fields
    <3>4. u.buffer = <<PieceOf(n, 1)>>
      BY <2>2, <3>1, <3>3, AppendFirst DEF InTwo
    <3>5. /\ Within(v, 2, k.gone) /\ v[1] = w[2] /\ v[2] = w[3]
      <4>1. Within(w, 3, k.gone) /\ Len(w) >= 3
        BY <2>2 DEF InTwo
      <4>2. Len(w) >= 2
        BY <1>2, <4>1, SMT
      <4> QED BY <1>5, <4>1, <4>2
    <3>6. AtMarker(v, u.buffer, n, k.gone)
      <4>1. /\ Len(v) >= 2 /\ w[2] = Packet("marker")
            /\ w[3] = Data(PieceOf(n, 2), TRUE)
        BY <1>2, <2>2, SMT DEF InTwo
      <4> QED BY <3>4, <3>5, <4>1 DEF AtMarker
    <3> QED BY <1>1, <1>2, <1>4, <3>3, <3>6 DEF Input, Coming, Early, Busy
  <2>3. CASE AtMarker(w, s.buffer, n, k.gone)
    <3>1. p.kind = "marker"
      BY <1>2, <2>3, Packets DEF AtMarker, Kind
    <3>2. u = s
      BY <3>1 DEF Received, p
    <3>3. /\ Within(v, 1, k.gone) /\ v[1] = w[2]
      BY <1>2, <1>5, <2>3 DEF AtMarker
    <3>4. AtHalf(v, u.buffer, n, k.gone)
      BY <1>2, <2>3, <3>2, <3>3, SMT DEF AtHalf, AtMarker
    <3> QED BY <1>1, <1>2, <1>4, <3>2, <3>4 DEF Input, Coming, Early, Busy
  <2> QED BY <1>4, <2>1, <2>2, <2>3 DEF Coming
<1> QED
  BY <1>1, <1>3, <1>4

-----------------------------------------------------------------------------
(* What clients send.                                                       *)
LEMMA Sent ==
  ASSUME NEW w \in Seq(PacketT), NEW v \in Seq(PacketT),
         Quiet(v, 0), NEW x, x = w \o v
  PROVE  /\ x \in Seq(PacketT)
         /\ Len(x) = Len(w) + Len(v) /\ Len(w) \in Nat /\ Len(v) \in Nat
         /\ \A i \in 1..Len(w) : x[i] = w[i]
         /\ \A m \in Nat : Quiet(w, m) => Quiet(x, m)
<1>1. /\ x \in Seq(PacketT)
      /\ Len(x) = Len(w) + Len(v) /\ Len(w) \in Nat /\ Len(v) \in Nat
      /\ \A i \in 1..(Len(w) + Len(v)) : x[i] = IF i <= Len(w) THEN w[i] ELSE v[i - Len(w)]
  BY ConcatProperties, LenProperties
<1>2. ASSUME NEW m \in Nat, Quiet(w, m), NEW i \in 1..Len(x), i > m
      PROVE  ~x[i].end
  <2>1. CASE i <= Len(w)
    BY <1>1, <1>2, <2>1, SMT DEF Quiet
  <2>2. CASE i > Len(w)
    <3>1. i - Len(w) \in 1..Len(v) /\ x[i] = v[i - Len(w)]
      BY <1>1, <2>2, SMT
    <3> QED BY <1>1, <3>1, SMT DEF Quiet
  <2> QED BY <1>1, <2>1, <2>2, SMT
<1>3. \A m \in Nat : Quiet(w, m) => Quiet(x, m)
  BY <1>2 DEF Quiet
<1> QED
  BY <1>1, <1>3, SMT

(* x is w and packets that end no request.                                  *)
Continues(x, w) ==
  /\ w \in Seq(PacketT) /\ x \in Seq(PacketT)
  /\ Len(w) \in Nat /\ Len(x) \in Nat /\ Len(x) >= Len(w)
  /\ \A i \in 1..Len(w) : x[i] = w[i]
  /\ \A m \in Nat : Quiet(w, m) => Quiet(x, m)

LEMMA SentContinues ==
  ASSUME NEW w \in Seq(PacketT), NEW v \in Seq(PacketT), Quiet(v, 0), NEW x, x = w \o v
  PROVE  Continues(x, w)
<1>1. /\ x \in Seq(PacketT)
      /\ Len(x) = Len(w) + Len(v) /\ Len(w) \in Nat /\ Len(v) \in Nat
  BY Sent
<1>2. \A i \in 1..Len(w) : x[i] = w[i]
  BY Sent
<1>3. \A m \in Nat : Quiet(w, m) => Quiet(x, m)
  BY Sent
<1> QED
  BY <1>1, <1>2, <1>3, SMT DEF Continues

(* A client that hangs up ends no request.                                  *)
LEMMA HangUpInput ==
  ASSUME NEW w, NEW k, NEW s, Input(w, k, s), s.phase # "absent",
         NEW x, Continues(x, w),
         NEW l, l.sent = k.sent, l.answered = k.answered, l.gone = TRUE
  PROVE  Input(x, l, s)
<1>1. w \in Seq(PacketT)
  BY DEF Input
<1>2. /\ x \in Seq(PacketT)
      /\ Len(w) \in Nat /\ Len(x) \in Nat /\ Len(x) >= Len(w)
      /\ Len(w) >= 1 => x[1] = w[1]
      /\ Len(w) >= 2 => x[2] = w[2]
      /\ Len(w) >= 3 => x[3] = w[3]
      /\ \A m \in Nat : Within(w, m, k.gone) => Within(x, m, l.gone)
      /\ \A m \in Nat : Quiet(w, m) => Quiet(x, m)
  BY SMT DEF Within, Continues
<1>6. /\ Within(w, 1, k.gone) => Within(x, 1, l.gone)
      /\ Within(w, 2, k.gone) => Within(x, 2, l.gone)
      /\ Within(w, 3, k.gone) => Within(x, 3, l.gone)
      /\ Quiet(w, 0) => Quiet(x, 0)
  BY <1>2
<1>3. \A b, n : Coming(w, b, n, k.gone) => Coming(x, b, n, l.gone)
  <2> TAKE b, n
  <2>1. CASE InOne(w, b, n, k.gone)
    <3>1. InOne(x, b, n, l.gone)
      <4>1. Len(w) >= 1 /\ Within(w, 1, k.gone)
        BY <2>1 DEF InOne
      <4>2. Len(x) >= 1 /\ Within(x, 1, l.gone) /\ x[1] = w[1]
        BY <1>2, <1>6, <4>1, SMT
      <4> QED BY <2>1, <4>2 DEF InOne
    <3> QED BY <3>1 DEF Coming
  <2>2. CASE InTwo(w, b, n, k.gone)
    <3>1. InTwo(x, b, n, l.gone)
      <4>1. Len(w) >= 3 /\ Within(w, 3, k.gone)
        BY <2>2 DEF InTwo
      <4>2. Len(x) >= 3 /\ Within(x, 3, l.gone) /\ x[1] = w[1] /\ x[2] = w[2] /\ x[3] = w[3]
        BY <1>2, <1>6, <4>1, SMT
      <4> QED BY <2>2, <4>2 DEF InTwo
    <3> QED BY <3>1 DEF Coming
  <2>3. CASE AtMarker(w, b, n, k.gone)
    <3>1. AtMarker(x, b, n, l.gone)
      <4>1. Len(w) >= 2 /\ Within(w, 2, k.gone)
        BY <2>3 DEF AtMarker
      <4>2. Len(x) >= 2 /\ Within(x, 2, l.gone) /\ x[1] = w[1] /\ x[2] = w[2]
        BY <1>2, <1>6, <4>1, SMT
      <4> QED BY <2>3, <4>2 DEF AtMarker
    <3> QED BY <3>1 DEF Coming
  <2>4. CASE AtHalf(w, b, n, k.gone)
    <3>1. AtHalf(x, b, n, l.gone)
      <4>1. Len(w) >= 1 /\ Within(w, 1, k.gone)
        BY <2>4 DEF AtHalf
      <4>2. Len(x) >= 1 /\ Within(x, 1, l.gone) /\ x[1] = w[1]
        BY <1>2, <1>6, <4>1, SMT
      <4> QED BY <2>4, <4>2 DEF AtHalf
    <3> QED BY <3>1 DEF Coming
  <2> QED BY <2>1, <2>2, <2>3, <2>4 DEF Coming
<1>4. \A b : Resting(w, b, k.gone) => Resting(x, b, l.gone)
  BY <1>6 DEF Resting
<1>5. w # << >> => x # << >> /\ x[1] = w[1]
  BY <1>1, <1>2, EmptySeq, SMT
<1> QED
  BY <1>2, <1>3, <1>4, <1>5, <1>6 DEF Input, Early, Busy

(* Short messages.                                                          *)
One(x, a) == x \in Seq(PacketT) /\ Len(x) = 1 /\ x[1] = a
Two(x, a, b) == x \in Seq(PacketT) /\ Len(x) = 2 /\ x[1] = a /\ x[2] = b
Three(x, a, b, d) ==
  x \in Seq(PacketT) /\ Len(x) = 3 /\ x[1] = a /\ x[2] = b /\ x[3] = d

LEMMA Messages ==
  ASSUME NEW a \in PacketT, NEW b \in PacketT, NEW d \in PacketT
  PROVE  One(<<a>>, a) /\ Two(<<a, b>>, a, b) /\ Three(<<a, b, d>>, a, b, d)
<1>1. One(<<a>>, a)
  BY SMT DEF One
<1>2. Two(<<a, b>>, a, b)
  BY SMT DEF Two
<1>3. Three(<<a, b, d>>, a, b, d)
  BY SMT DEF Three
<1> QED
  BY <1>1, <1>2, <1>3

LEMMA Joined ==
  ASSUME NEW a \in PacketT, NEW b \in PacketT
  PROVE  Two(<<a>> \o <<b>>, a, b)
<1> DEFINE v == <<a>>
           w == <<b>>
           x == v \o w
<1>1. v \in Seq(PacketT) /\ Len(v) = 1 /\ v[1] = a /\ w \in Seq(PacketT) /\ Len(w) = 1 /\ w[1] = b
  BY SMT
<1> HIDE DEF v, w
<1>2. /\ x \in Seq(PacketT) /\ Len(x) = Len(v) + Len(w)
      /\ \A i \in 1..(Len(v) + Len(w)) : x[i] = IF i <= Len(v) THEN v[i] ELSE w[i - Len(v)]
  BY <1>1, ConcatProperties
<1> HIDE DEF x
<1>3. Len(x) = 2 /\ x[1] = v[1] /\ x[2] = w[1]
  BY <1>1, <1>2, SMT
<1>4. Two(x, a, b)
  BY <1>1, <1>2, <1>3 DEF Two
<1> QED
  BY <1>4 DEF x, v, w

(* A request, in one packet or in two.                                      *)
LEMMA AskOne ==
  ASSUME NEW w, NEW k, NEW s, Input(w, k, s), s.phase = "reading", ~k.gone,
         k.answered = k.sent, w = << >>,
         NEW l, l.sent = k.sent + 1, l.answered = k.answered, l.gone = k.gone,
         NEW x, One(x, Data(PieceOf(l.sent, 0), TRUE))
  PROVE  Input(x, l, s)
<1>1. k.sent \in Nat /\ l.sent \in Nat /\ s.handled = k.answered /\ s.buffer = << >>
  BY SMT DEF Input, Resting
<1>2. x \in Seq(PacketT) /\ Len(x) = 1 /\ x[1] = Data(PieceOf(l.sent, 0), TRUE)
  BY DEF One
<1>3. Within(x, 1, l.gone)
  BY <1>2, SMT DEF Within, Quiet
<1>4. InOne(x, s.buffer, l.sent, l.gone)
  BY <1>1, <1>2, <1>3, SMT DEF InOne
<1>5. Coming(x, s.buffer, l.sent, l.gone)
  BY <1>4 DEF Coming
<1> QED
  BY <1>1, <1>2, <1>5 DEF Input, Early, Busy

LEMMA AskTwo ==
  ASSUME NEW w, NEW k, NEW s, Input(w, k, s), s.phase = "reading", ~k.gone,
         k.answered = k.sent, w = << >>,
         NEW l, l.sent = k.sent + 1, l.answered = k.answered, l.gone = k.gone,
         NEW x, Three(x, Data(PieceOf(l.sent, 1), FALSE), Packet("marker"),
                      Data(PieceOf(l.sent, 2), TRUE))
  PROVE  Input(x, l, s)
<1>1. k.sent \in Nat /\ l.sent \in Nat /\ s.handled = k.answered /\ s.buffer = << >>
  BY SMT DEF Input, Resting
<1>2. /\ x \in Seq(PacketT) /\ Len(x) = 3 /\ x[1] = Data(PieceOf(l.sent, 1), FALSE)
      /\ x[2] = Packet("marker") /\ x[3] = Data(PieceOf(l.sent, 2), TRUE)
  BY DEF Three
<1>3. Within(x, 3, l.gone)
  BY <1>2, SMT DEF Within, Quiet
<1>4. InTwo(x, s.buffer, l.sent, l.gone)
  BY <1>1, <1>2, <1>3, SMT DEF InTwo
<1>5. Coming(x, s.buffer, l.sent, l.gone)
  BY <1>4 DEF Coming
<1> QED
  BY <1>1, <1>2, <1>5 DEF Input, Early, Busy

(* The first packets of a client, with its connect data in a second one or  *)
(* not.                                                                     *)
Opening(x, h, d) == (h.part.long /\ Two(x, h, d)) \/ (~h.part.long /\ One(x, h))

LEMMA ConnectInput ==
  ASSUME NEW w, NEW k, NEW s, Input(w, k, s), s.phase = "absent",
         NEW h \in PacketT, h.end = FALSE, h.part \in Hello,
         NEW d \in PacketT, d.end = FALSE,
         NEW x, Opening(x, h, d),
         NEW t, t.phase = "backlog", t.handled = s.handled, t.buffer = s.buffer
  PROVE  Input(x, k, t)
<1>1. /\ k.sent = 0 /\ k.answered = 0 /\ s.handled = 0 /\ s.buffer = << >>
      /\ k.sent \in Nat /\ k.answered \in Nat /\ s.handled \in Nat
  BY DEF Input, Early
<1>2. /\ x \in Seq(PacketT) /\ x[1] = h /\ Len(x) >= 1 /\ Quiet(x, 0)
      /\ Len(x) <= (IF h.part.long THEN 2 ELSE 1)
  <2>1. CASE h.part.long /\ Two(x, h, d)
    <3>1. x \in Seq(PacketT) /\ Len(x) = 2 /\ x[1] = h /\ x[2] = d
      BY <2>1 DEF Two
    <3>2. \A i \in 1..2 : ~x[i].end
      BY <3>1, SMT
    <3> QED BY <2>1, <3>1, <3>2, SMT DEF Quiet
  <2>2. CASE ~h.part.long /\ One(x, h)
    <3>1. x \in Seq(PacketT) /\ Len(x) = 1 /\ x[1] = h
      BY <2>2 DEF One
    <3>2. \A i \in 1..1 : ~x[i].end
      BY <3>1, SMT
    <3> QED BY <2>2, <3>1, <3>2, SMT DEF Quiet
  <2> QED BY <2>1, <2>2 DEF Opening
<1>3. x # << >>
  BY <1>2, SMT
<1> QED
  BY <1>1, <1>2, <1>3 DEF Input, Early, Busy

(* The accept loop takes a connection.                                      *)
LEMMA AcceptInput ==
  ASSUME NEW w, NEW k, NEW s, Input(w, k, s), s.phase = "backlog",
         NEW t, t.phase = "handshake", t.handled = s.handled, t.buffer = s.buffer
  PROVE  Input(w, k, t)
BY DEF Input, Early, Busy

(* A packet of the handshake: the connection waits for the connect data, is *)
(* accepted, or ends.                                                       *)
Greets(s, u, long) ==
  \/ u.phase = "closed"
  \/ u.phase = "reading" /\ (s.phase = "connect data" \/ ~long)
  \/ u.phase = "connect data" /\ s.phase = "handshake"

LEMMA HandshakeInput ==
  ASSUME NEW w, NEW k, NEW s, Input(w, k, s), w # << >>,
         s.phase \in {"handshake", "connect data"},
         NEW u, u.handled = s.handled, u.buffer = s.buffer, Greets(s, u, w[1].part.long)
  PROVE  Input(Tail(w), k, u)
<1> DEFINE v == Tail(w)
           long == w[1].part.long
<1>1. /\ k.sent = 0 /\ k.answered = 0 /\ s.handled = 0 /\ s.buffer = << >>
      /\ w \in Seq(PacketT) /\ Quiet(w, 0)
      /\ s.phase = "connect data" => Len(w) <= 1 \/ k.gone
  BY DEF Input, Early
<1>2. s.phase = "handshake" => /\ Len(w) <= 2 \/ k.gone
                               /\ ~long => Len(w) <= 1 \/ k.gone
  <2> SUFFICES ASSUME s.phase = "handshake"
               PROVE  (Len(w) <= 2 \/ k.gone) /\ (~long => Len(w) <= 1 \/ k.gone)
    OBVIOUS
  <2>1. Len(w) <= (IF w[1].part.long THEN 2 ELSE 1) \/ k.gone
    BY DEF Input
  <2>2. Len(w) \in Nat
    BY <1>1, SMT
  <2> HIDE DEF v
  <2> QED BY <2>1, <2>2, SMT
<1>3. v \in Seq(PacketT) /\ Quiet(v, 0) /\ Len(v) = Len(w) - 1 /\ Len(w) \in Nat
  BY <1>1, TailQuiet
<1>4. Len(v) <= 0 => v = << >>
  BY <1>3, NoPackets
<1> HIDE DEF v, long
<1>5. Greets(s, u, long)
  BY DEF long
<1>6. u.phase = "reading" => Len(w) <= 1 \/ k.gone
  BY <1>1, <1>2, <1>5 DEF Greets
<1>7. u.phase = "connect data" => Len(w) <= 2 \/ k.gone
  BY <1>2, <1>5 DEF Greets
<1>12. (Len(w) <= 1 => v = << >>) /\ (Len(w) <= 2 => Len(v) <= 1)
  BY <1>3, <1>4, OneLess
<1>8. u.phase = "reading" => Resting(v, u.buffer, k.gone)
  BY <1>1, <1>3, <1>6, <1>12 DEF Resting
<1>9. u.phase = "connect data" => Len(v) <= 1 \/ k.gone
  BY <1>7, <1>12
<1>10. u.phase \in {"closed", "reading", "connect data"}
  BY <1>5 DEF Greets
<1>11. Input(v, k, u)
  BY <1>1, <1>3, <1>8, <1>9, <1>10 DEF Input, Early, Busy
<1> QED
  BY <1>11 DEF v

(* A step of a call.                                                        *)
LEMMA BusyInput ==
  ASSUME NEW w, NEW k, NEW s, Input(w, k, s), s.phase \in Busy,
         NEW u, u.phase \in Busy, u.handled = s.handled, u.buffer = s.buffer
  PROVE  Input(w, k, u)
BY DEF Input, Early, Busy

(* The reply.                                                               *)
LEMMA ReplyInput ==
  ASSUME NEW w, NEW k, NEW s, Input(w, k, s), s.phase \in Busy,
         NEW u, u.phase = "reading", u.handled = s.handled, u.buffer = s.buffer,
         NEW l, l.sent = k.sent, l.answered = k.answered + 1, l.gone = k.gone
  PROVE  Input(w, l, u)
<1>1. /\ k.sent \in Nat /\ k.answered \in Nat /\ s.handled = k.sent /\ k.sent = k.answered + 1
      /\ s.buffer = << >> /\ Resting(w, << >>, k.gone) /\ w \in Seq(PacketT)
  BY DEF Input
<1> QED
  BY <1>1 DEF Input, Early, Busy

-----------------------------------------------------------------------------

(* A call reads no packets and takes no other request.                      *)
Keeps(u, s) == u.handled = s.handled /\ u.buffer = s.buffer
Replies(u, s) == Keeps(u, s) /\ u.phase \in Busy

LEMMA ReplyKeeps ==
  ASSUME NEW s, Shaped(s), NEW message
  PROVE  Replies(Reply(s, message), s)
BY DEF Shaped, Fields, Reply, Replies, Keeps, Busy

(* What was kept before the reply.                                          *)
LEMMA ReplyFrom ==
  ASSUME NEW s, NEW t, Shaped(t), Keeps(t, s), NEW message
  PROVE  Replies(Reply(t, message), s)
BY ReplyKeeps DEF Replies, Keeps

LEMMA FailFrom ==
  ASSUME NEW s, NEW t, Shaped(t), Keeps(t, s), NEW error
  PROVE  Replies(Fail(t, error), s)
BY ReplyFrom DEF Fail

LEMMA RowsFrom ==
  ASSUME NEW s, NEW t, Shaped(t), Keeps(t, s), NEW id, NEW max
  PROVE  Replies(send_rows(t, id, max), s)
<1> DEFINE k == t.cursors[id]
           n == IF max < k.pending THEN max ELSE k.pending
           left == [k EXCEPT !.pending = @ - n, !.fetched = @ + n]
           cs == Put(t.cursors, id, left)
           u == [t EXCEPT !.cursors = cs]
           m == [Message(call_status(t), id, k.fetched + n,
                         IF k.pending = n THEN "1403" ELSE None) EXCEPT
                   !.rows = [tag |-> k.tag, from |-> k.fetched, n |-> n]]
<1>1. Shaped(u) /\ Keeps(u, t)
  <2> HIDE DEF cs
  <2> QED BY DEF Shaped, Fields, Keeps
<1>2. Keeps(u, s)
  BY <1>1 DEF Keeps
<1>3. send_rows(t, id, max) = IF id \notin DOMAIN t.cursors THEN Fail(t, "1001") ELSE Reply(u, m)
  BY DEF send_rows
<1> HIDE DEF u, m
<1> QED
  BY <1>1, <1>2, <1>3, ReplyFrom, FailFrom

LEMMA RunFrom ==
  ASSUME NEW s, NEW t, Shaped(t), Keeps(t, s),
         NEW id, NEW sql, NEW runs, NEW fetch, NEW commit
  PROVE  Replies(Run(t, id, sql, runs, fetch, commit), s)
<1> DEFINE call == [cursor |-> id, sql |-> sql, left |-> runs, fetch |-> fetch,
                    commit |-> commit, mark |-> t.db.log, moved |-> FALSE,
                    affected |-> 0, before |-> t.db.log + t.kept]
<1>1. Run(t, id, sql, runs, fetch, commit) = [t EXCEPT !.phase = "executing", !.call = call]
  BY DEF Run
<1> HIDE DEF call
<1> QED
  BY <1>1 DEF Shaped, Fields, Replies, Keeps, Busy

LEMMA SettleKeeps ==
  ASSUME NEW s, Shaped(s), NEW d
  PROVE  Keeps(Settle(s, d), s) /\ Settle(s, d).phase = s.phase
BY DEF Shaped, Fields, Settle, Keeps

LEMMA RanKeeps ==
  ASSUME NEW s, Shaped(s), NEW rows
  PROVE  Keeps(Ran(s, rows), s) /\ Ran(s, rows).phase = s.phase
<1> DEFINE call == [s.call EXCEPT !.left = @ - 1, !.affected = @ + rows]
<1>1. Ran(s, rows) = [s EXCEPT !.call = call]
  BY DEF Ran
<1> HIDE DEF call
<1> QED
  BY <1>1 DEF Shaped, Fields, Keeps

LEMMA DescribedKeeps ==
  ASSUME NEW s, Shaped(s), NEW id, NEW size
  PROVE  Keeps(Described(s, id, size), s)
<1> DEFINE next == IF id = s.next THEN s.next + 1 ELSE s.next
           executed == IF s.call.sql = "query" THEN s.executed + 1 ELSE s.executed
           cs == Put(s.cursors, id, [sql |-> s.call.sql, pending |-> size, fetched |-> 0,
                                     tag |-> s.executed + 1])
<1>1. Described(s, id, size) =
        [s EXCEPT !.next = next, !.executed = executed, !.cursors = cs]
  BY DEF Described, Shaped, Fields
<1> HIDE DEF next, executed, cs
<1> QED
  BY <1>1 DEF Shaped, Fields, Keeps

LEMMA AuthenticateFrom ==
  ASSUME NEW s, NEW t, Shaped(t), Keeps(t, s), NEW q, NEW u \in Authenticate(t, q)
  PROVE  Replies(u, s)
<1> DEFINE challenged == [t EXCEPT !.login = "Challenged"]
           out == [t EXCEPT !.login = "None"]
<1>1. Shaped(challenged) /\ Keeps(challenged, s) /\ Shaped(out) /\ Keeps(out, s)
  BY DEF Shaped, Fields, Keeps
<1>2. ASSUME NEW d \in Opened(t, q.sql)
      PROVE  Shaped(LoggedIn(t, d)) /\ Keeps(LoggedIn(t, d), s)
  <2>1. d \in Db
    BY OpenedDb
  <2> QED BY <2>1, LoggedInShaped DEF Fields, Keeps
<1> HIDE DEF challenged, out
<1>3. \A message :
        /\ Replies(Reply(challenged, message), s) /\ Replies(Reply(out, message), s)
        /\ \A d \in Opened(t, q.sql) : Replies(Reply(LoggedIn(t, d), message), s)
  BY <1>1, <1>2, ReplyFrom
<1>4. \A error : Replies(Fail(out, error), s)
  BY <1>1, FailFrom
<1> QED
  BY <1>3, <1>4 DEF Authenticate, Denied, challenged, out

LEMMA CommittedFrom ==
  ASSUME NEW s, NEW t, Shaped(t), Keeps(t, s), t.login = "LoggedIn",
         NEW k \in Commits([log |-> t.db.log, kept |-> t.kept, moved |-> FALSE])
  PROVE  Replies(Committed(t, k), s)
<1> DEFINE u == [t EXCEPT !.db.log = k.db.log, !.kept = k.db.kept]
<1>1. [log |-> t.db.log, kept |-> t.kept, moved |-> FALSE] \in Db
  BY DEF Shaped, Db
<1>2. k.db.log \in Nat /\ k.db.kept \in Nat
  BY <1>1, CommitsDb DEF Db
<1>3. Shaped(u)
  BY <1>2, NoneAssumption DEF Shaped, Fields
<1>4. Keeps(u, s)
  BY DEF Shaped, Fields, Keeps
<1> HIDE DEF u
<1>5. Committed(t, k) = IF k.ok THEN Reply(u, Message(call_status(u), 0, 0, None))
                        ELSE Fail(u, "commit")
  BY DEF Committed, u
<1> QED
  BY <1>3, <1>4, <1>5, ReplyFrom, FailFrom

LEMMA CallsFrom ==
  ASSUME NEW s, NEW t, Shaped(t), Keeps(t, s), NEW q, NEW u \in Calls(t, q)
  PROVE  Replies(u, s)
<1> DEFINE auth == q.op \in {"auth1", "auth2", "wrong password", "bad verifier"}
<1>1. CASE auth
  <2>1. u \in Authenticate(t, q)
    BY <1>1 DEF Calls
  <2> QED BY <2>1, AuthenticateFrom
<1>2. CASE ~auth /\ t.login # "LoggedIn"
  <2>1. u = Reply(t, Message(FALSE, 0, 0, "1012"))
    BY <1>2 DEF Calls
  <2> QED BY <2>1, ReplyFrom
<1>3. CASE ~auth /\ t.login = "LoggedIn"
  <2>1. CASE q.op = "execute"
    <3>1. u = execute(t, q)
      BY <1>3, <2>1 DEF Calls
    <3> QED BY <3>1, RunFrom, FailFrom DEF execute
  <2>2. CASE q.op = "reexecute"
    <3>1. u = reexecute(t, q)
      BY <1>3, <2>2 DEF Calls
    <3> QED BY <3>1, RunFrom, FailFrom DEF reexecute
  <2>3. CASE q.op = "fetch"
    <3>1. u = send_rows(t, q.cursor, q.fetch)
      BY <1>3, <2>3 DEF Calls
    <3> QED BY <3>1, RowsFrom
  <2>4. CASE q.op = "commit"
    <3>1. PICK k \in Commits([log |-> t.db.log, kept |-> t.kept, moved |-> FALSE]) :
            u = Committed(t, k)
      BY <1>3, <2>4 DEF Calls
    <3> QED BY <1>3, <3>1, CommittedFrom
  <2>5. CASE q.op = "rollback"
    <3> DEFINE db == [t.db EXCEPT !.log = 0]
               r == [t EXCEPT !.db = db]
    <3>1. db \in [log : Nat]
      BY <1>3 DEF Shaped
    <3>2. u = Reply([t EXCEPT !.db.log = 0], Message(FALSE, 0, 0, None))
      BY <1>3, <2>5 DEF Calls
    <3>3. [t EXCEPT !.db.log = 0] = r
      BY DEF Shaped, Fields
    <3> HIDE DEF db
    <3>4. Shaped(r) /\ Keeps(r, s)
      BY <3>1, NoneAssumption DEF Shaped, Fields, Keeps
    <3> HIDE DEF r
    <3> QED BY <3>2, <3>3, <3>4, ReplyFrom
  <2>6. CASE q.op = "ping"
    <3>1. u = Reply(t, Message(call_status(t), 0, 0, None))
      BY <1>3, <2>6 DEF Calls
    <3> QED BY <3>1, ReplyFrom
  <2>7. CASE q.op \notin {"execute", "reexecute", "fetch", "commit", "rollback", "ping"}
    <3>1. u = Fail(t, "3115")
      BY <1>3, <2>7 DEF Calls
    <3> QED BY <3>1, FailFrom
  <2> QED BY <2>1, <2>2, <2>3, <2>4, <2>5, <2>6, <2>7
<1> QED
  BY <1>1, <1>2, <1>3

(* The steps of a call.                                                     *)
LEMMA CallSteps ==
  ASSUME IInv, NEW c \in Conn, Dispatch(c) \/ Execute(c) \/ Finish(c)
  PROVE  /\ conn[c].phase \in Busy /\ UNCHANGED <<wire, client>>
         /\ \E u : Become(c, u) /\ Replies(u, conn[c])
<1> DEFINE s == conn[c]
<1>1. Good(s) /\ Shaped(s)
  BY DEF IInv, Good
<1>2. s.phase \in Busy /\ UNCHANGED <<wire, client>>
  BY DEF Dispatch, Execute, Finish, Busy
<1>3. CASE Dispatch(c)
  <2> DEFINE q == s.request
             t == [s EXCEPT !.cursors = Without(@, q.close)]
  <2>1. Shaped(t) /\ Keeps(t, s)
    <3> DEFINE cs == Without(s.cursors, q.close)
    <3>1. t = [s EXCEPT !.cursors = cs]
      BY <1>1 DEF Shaped, Fields
    <3> HIDE DEF cs, t
    <3> QED BY <1>1, <3>1 DEF Shaped, Fields, Keeps
  <2>2. PICK u \in CASE q.op = "protocol" -> {Reply(s, Message(None, 0, 0, None))}
                     [] q.op # "protocol" /\ q.malformed -> {Fail(t, "3115")}
                     [] OTHER -> Calls(t, q) : Become(c, u)
    BY <1>3 DEF Dispatch
  <2> HIDE DEF t
  <2>3. Replies(u, s)
    BY <1>1, <2>1, <2>2, ReplyKeeps, FailFrom, CallsFrom
  <2> QED BY <1>2, <2>2, <2>3
<1>4. CASE Execute(c)
  <2>1. s.phase = "executing"
    BY <1>4 DEF Execute
  <2>2. Running(s)
    BY <1>1, <2>1 DEF Good
  <2> DEFINE Left(x) ==
        CASE x.end = "ok" -> Ran(Settle(s, x.db), x.rows)
          [] x.end = "unfit" ->
               LET t == Settle(s, rollback_to(x.db, s.call.mark)) IN
               Reply(t, Message(call_status(t), s.call.cursor, 0, "6502"))
          [] OTHER ->
               LET t == Settle(s, x.db) IN
               Reply(t, Message(call_status(t), s.call.cursor, s.call.affected, "error"))
  <2>3. PICK x \in Executions(s.call.sql, Session(s)) : Become(c, Left(x))
    BY <1>4 DEF Execute
  <2>4. x.db \in Db /\ rollback_to(x.db, s.call.mark) \in Db
    BY <1>1, <2>2, <2>3, SessionDb, ExecutionsDb, RollbackDb DEF Running
  <2>5. \A d \in Db : Shaped(Settle(s, d)) /\ Keeps(Settle(s, d), s)
                      /\ Settle(s, d).phase = "executing"
    BY <1>1, <2>1, <2>2, SettleGood, SettleKeeps
  <2>6. Replies(Left(x), s)
    <3>1. CASE x.end = "ok"
      <4>1. Left(x) = Ran(Settle(s, x.db), x.rows)
        BY <3>1
      <4> DEFINE t == Settle(s, x.db)
      <4>2. Shaped(t) /\ Keeps(t, s) /\ t.phase = "executing"
        BY <2>4, <2>5
      <4> HIDE DEF t
      <4>3. Replies(Ran(t, x.rows), s)
        BY <4>2, RanKeeps DEF Replies, Keeps, Busy
      <4> QED BY <4>1, <4>3 DEF t
    <3>2. CASE x.end # "ok"
      <4>1. \A d \in Db : \A message : Replies(Reply(Settle(s, d), message), s)
        BY <2>5, ReplyFrom
      <4> QED BY <2>4, <3>2, <4>1
    <3> QED BY <3>1, <3>2
  <2> HIDE DEF Left
  <2> QED BY <1>2, <2>3, <2>6
<1>5. CASE Finish(c)
  <2>1. s.phase = "executing"
    BY <1>5 DEF Finish
  <2>2. Running(s)
    BY <1>1, <2>1 DEF Good
  <2> DEFINE id == IF s.call.cursor = 0 THEN s.next ELSE s.call.cursor
             K == IF s.call.commit THEN Commits(Session(s))
                  ELSE {[ok |-> TRUE, db |-> Session(s)]}
             T(k) == Settle(s, k.db)
             U(k, size) == Described(T(k), id, size)
             Left(k, size) ==
               CASE ~k.ok ->
                      Reply(T(k), Message(FALSE, s.call.cursor, s.call.affected, "commit"))
                 [] k.ok /\ s.call.sql = "query" -> send_rows(U(k, size), id, s.call.fetch)
                 [] OTHER -> Reply(U(k, size), Message(call_status(U(k, size)), id,
                                                       s.call.affected, None))
  <2>3. PICK k \in K, size \in (IF s.call.sql = "query" THEN ResultSizes ELSE {0}) :
          Become(c, Left(k, size))
    BY <1>5 DEF Finish
  <2>4. k.db \in Db
    BY <1>1, <2>2, <2>3, SessionDb, CommitsDb, SMT
  <2>5. Shaped(T(k)) /\ Keeps(T(k), s)
    BY <1>1, <2>2, <2>4, SettleGood, SettleKeeps
  <2> HIDE DEF T, id, K
  <2>6. Shaped(U(k, size)) /\ Keeps(U(k, size), s)
    BY <2>5, DescribedGood, DescribedKeeps, SMT DEF Keeps
  <2> HIDE DEF U
  <2>7. Replies(Left(k, size), s)
    BY <2>5, <2>6, ReplyFrom, RowsFrom
  <2> HIDE DEF Left
  <2> QED BY <1>2, <2>3, <2>7
<1> QED
  BY <1>3, <1>4, <1>5

-----------------------------------------------------------------------------
(* The invariant of the refinement, and the steps of one connection.        *)
ClientFields == {"gone", "sent", "answered", "asked", "view"}
Counted(k) == k = [f \in ClientFields |-> k[f]]

PInv ==
  /\ IInv
  /\ wire = [c \in Conn |-> wire[c]] /\ client = [c \in Conn |-> client[c]]
  /\ \A c \in Conn : Counted(client[c]) /\ Input(wire[c], client[c], conn[c])

Moves(c, w, k, s) ==
  /\ wire' = [wire EXCEPT ![c] = w]
  /\ client' = [client EXCEPT ![c] = k]
  /\ conn' = [conn EXCEPT ![c] = s]

(* What a client who counts sees of a step: nothing, or a step of           *)
(* RequestReply.                                                            *)
Waits(k, s, l, u) ==
  /\ l.sent = k.sent /\ l.answered = k.answered /\ u.handled = s.handled
  /\ u.phase = "closed" <=> s.phase = "closed"
Asks(k, s, l, u) ==
  /\ l.sent = k.sent + 1 /\ l.answered = k.answered /\ u.handled = s.handled
  /\ u.phase = "closed" <=> s.phase = "closed"
Handles(k, s, l, u) ==
  /\ s.handled = k.answered /\ s.handled < k.sent
  /\ l.sent = k.sent /\ l.answered = k.answered /\ u.handled = s.handled + 1
  /\ u.phase # "closed" /\ s.phase # "closed"
Answers(k, s, l, u) ==
  /\ k.answered < s.handled
  /\ l.sent = k.sent /\ l.answered = k.answered + 1 /\ u.handled = s.handled
  /\ u.phase # "closed" /\ s.phase # "closed"
Ends(k, s, l, u) ==
  /\ l.sent = k.sent /\ l.answered = k.answered /\ u.handled = s.handled
  /\ u.phase = "closed" /\ s.phase # "closed"
Simulates(k, s, l, u) ==
  \/ Waits(k, s, l, u) \/ Asks(k, s, l, u) \/ Handles(k, s, l, u)
  \/ Answers(k, s, l, u) \/ Ends(k, s, l, u)

Allowed(c, w, k, s) ==
  /\ Moves(c, w, k, s) /\ Counted(k) /\ Input(w, k, s)
  /\ Simulates(client[c], conn[c], k, s)

(* What does not change is set to what it was.                              *)
LEMMA Same ==
  ASSUME PInv, NEW c \in Conn
  PROVE  /\ wire = [wire EXCEPT ![c] = wire[c]]
         /\ client = [client EXCEPT ![c] = client[c]]
         /\ conn = [conn EXCEPT ![c] = conn[c]]
<1>1. wire = [d \in Conn |-> wire[d]] /\ client = [d \in Conn |-> client[d]]
  BY DEF PInv
<1>2. conn = [d \in Conn |-> conn[d]]
  BY DEF PInv, IInv
<1>3. wire = [wire EXCEPT ![c] = wire[c]]
  BY <1>1
<1>4. client = [client EXCEPT ![c] = client[c]]
  BY <1>1
<1>5. conn = [conn EXCEPT ![c] = conn[c]]
  BY <1>2
<1> QED
  BY <1>3, <1>4, <1>5

LEMMA Here ==
  ASSUME PInv, NEW c \in Conn
  PROVE  /\ Counted(client[c]) /\ Input(wire[c], client[c], conn[c])
         /\ Good(conn[c]) /\ Shaped(conn[c])
         /\ wire[c] \in Seq(PacketT) /\ client[c].sent \in Nat
<1>1. Counted(client[c]) /\ Input(wire[c], client[c], conn[c]) /\ Good(conn[c])
  BY DEF PInv, IInv
<1>2. Shaped(conn[c])
  BY <1>1 DEF Good
<1>3. wire[c] \in Seq(PacketT) /\ client[c].sent \in Nat
  BY <1>1 DEF Input
<1> QED
  BY <1>1, <1>2, <1>3

LEMMA ConnectAllowed ==
  ASSUME PInv, NEW c \in Conn, Connect(c)
  PROVE  \E w, k, s : Allowed(c, w, k, s)
<1> DEFINE s == conn[c]
           k == client[c]
           t == [s EXCEPT !.phase = "backlog"]
           d == Data(None, FALSE)
<1>1. PICK old \in BOOLEAN, long \in BOOLEAN, first \in {"connect", "other"} :
        Send(c, << [Packet(first) EXCEPT !.part = [old |-> old, long |-> long]] >>
                \o (IF long THEN <<Data(None, FALSE)>> ELSE << >>))
  BY DEF Connect
<1>2. s.phase = "absent" /\ Become(c, t) /\ client' = client
  BY DEF Connect
<1>3. Counted(k) /\ Input(wire[c], k, s) /\ Shaped(s)
  BY Here
<1>4. t.phase = "backlog" /\ t.handled = s.handled /\ t.buffer = s.buffer
  BY <1>3 DEF Shaped, Fields
<1> DEFINE hello == [old |-> old, long |-> long]
           p == Packet(first)
           h == [p EXCEPT !.part = hello]
           x == <<h>> \o (IF long THEN <<d>> ELSE << >>)
<1>5. d \in PacketT /\ d.end = FALSE
  BY Packets
<1>6. hello \in Hello /\ hello.long = long
  BY DEF Hello
<1>7. p \in PacketT /\ p.end = FALSE
  BY Packets DEF Kind, Packet
<1> HIDE DEF hello, p
<1>8. h \in PacketT /\ h.end = FALSE /\ h.part = hello
  BY <1>6, <1>7 DEF PacketT
<1> HIDE DEF h, d
<1>9. Opening(x, h, d)
  <2>1. CASE long
    <3>1. x = <<h>> \o <<d>>
      BY <2>1
    <3>2. Two(x, h, d)
      BY <1>5, <1>8, <3>1, Joined
    <3> HIDE DEF x
    <3> QED BY <1>6, <1>8, <2>1, <3>2 DEF Opening
  <2>2. CASE ~long
    <3>1. x = <<h>>
      BY <2>2, SMT
    <3>2. One(x, h)
      BY <1>8, <3>1, Messages
    <3> HIDE DEF x
    <3> QED BY <1>6, <1>8, <2>2, <3>2 DEF Opening
  <2> QED BY <2>1, <2>2
<1>10. wire' = [wire EXCEPT ![c] = x]
  <2>1. wire[c] = << >>
    BY <1>2, <1>3 DEF Input
  <2>2. wire' = [wire EXCEPT ![c] = wire[c] \o x]
    BY <1>1 DEF Send, x, h, p, hello, d
  <2>3. x \in Seq(PacketT)
    BY <1>9 DEF Opening, One, Two
  <2> HIDE DEF x
  <2>4. << >> \o x = x
    BY <2>3, ConcatEmptySeq
  <2> QED BY <2>1, <2>2, <2>4
<1> HIDE DEF x
<1>11. Input(x, k, t)
  BY <1>2, <1>3, <1>4, <1>5, <1>6, <1>8, <1>9, ConnectInput
<1> HIDE DEF t
<1>12. Moves(c, x, k, t)
  <2>1. conn' = [conn EXCEPT ![c] = t]
    BY <1>2 DEF Become
  <2>2. client' = [client EXCEPT ![c] = k]
    BY <1>2, Same
  <2> QED BY <1>10, <2>1, <2>2 DEF Moves
<1>13. Simulates(k, s, k, t)
  BY <1>2, <1>4 DEF Simulates, Waits
<1> QED
  BY <1>3, <1>11, <1>12, <1>13 DEF Allowed

LEMMA AskAllowed ==
  ASSUME PInv, NEW c \in Conn, Ask(c)
  PROVE  \E w, k, s : Allowed(c, w, k, s)
<1> DEFINE s == conn[c]
           k == client[c]
           n == k.sent + 1
<1>1. PICK q \in Requests(c), split \in BOOLEAN :
        /\ Send(c, IF split
                   THEN <<Data([no |-> n, half |-> 1], FALSE), Packet("marker"),
                          Data([no |-> n, half |-> 2], TRUE)>>
                   ELSE <<Data([no |-> n, half |-> 0], TRUE)>>)
        /\ client' = [client EXCEPT ![c].sent = n, ![c].asked = q,
                                    ![c].view = Without(@, q.close)]
  BY DEF Ask
<1>2. /\ s.phase = "reading" /\ ~k.gone /\ k.answered = k.sent /\ wire[c] = << >>
      /\ conn' = conn
  BY DEF Ask
<1>3. Counted(k) /\ Input(wire[c], k, s)
  BY Here
<1>4. n \in Nat
  <2>1. k.sent \in Nat
    BY Here
  <2> HIDE DEF k
  <2> QED BY <2>1, SMT
<1> DEFINE view == Without(k.view, q.close)
           l == [k EXCEPT !.sent = n, !.asked = q, !.view = view]
<1>5. client' = [client EXCEPT ![c] = l]
  <2>1. client = [d \in Conn |-> client[d]]
    BY DEF PInv
  <2> QED BY <1>1, <1>3, <2>1 DEF Counted, ClientFields
<1> HIDE DEF view
<1>6. Counted(l) /\ l.sent = n /\ l.answered = k.answered /\ l.gone = k.gone
  BY <1>3 DEF Counted, ClientFields
<1> HIDE DEF l
<1> DEFINE a == Data(PieceOf(n, 1), FALSE)
           b == Packet("marker")
           d == Data(PieceOf(n, 2), TRUE)
           e == Data(PieceOf(n, 0), TRUE)
           x == IF split THEN <<a, b, d>> ELSE <<e>>
<1>7. a \in PacketT /\ b \in PacketT /\ d \in PacketT /\ e \in PacketT
  BY <1>4, Pieces, Packets DEF Carries, Kind
<1>8. wire' = [wire EXCEPT ![c] = wire[c] \o x]
  BY <1>1 DEF Send, PieceOf
<1> HIDE DEF a, b, d, e, n
<1>9. IF split THEN Three(x, a, b, d) ELSE One(x, e)
  BY <1>7, Messages
<1>10. x \in Seq(PacketT)
  BY <1>9 DEF Three, One
<1> HIDE DEF x
<1>11. wire[c] \o x = x
  BY <1>2, <1>10, ConcatEmptySeq
<1>12. Input(x, l, s)
  <2>1. l.sent = k.sent + 1
    BY <1>6 DEF n
  <2>2. CASE split
    <3>1. Three(x, Data(PieceOf(l.sent, 1), FALSE), Packet("marker"), Data(PieceOf(l.sent, 2), TRUE))
      BY <1>6, <1>9, <2>2 DEF a, b, d
    <3> QED BY <1>2, <1>3, <1>6, <2>1, <3>1, AskTwo
  <2>3. CASE ~split
    <3>1. One(x, Data(PieceOf(l.sent, 0), TRUE))
      BY <1>6, <1>9, <2>3 DEF e
    <3> QED BY <1>2, <1>3, <1>6, <2>1, <3>1, AskOne
  <2> QED BY <2>2, <2>3
<1>13. Moves(c, x, l, s)
  BY <1>2, <1>5, <1>8, <1>11, Same DEF Moves
<1>14. Simulates(k, s, l, s)
  BY <1>6 DEF Simulates, Asks, n
<1> QED
  BY <1>6, <1>12, <1>13, <1>14 DEF Allowed

LEMMA HangUpAllowed ==
  ASSUME PInv, NEW c \in Conn, HangUp(c)
  PROVE  \E w, k, s : Allowed(c, w, k, s)
<1> DEFINE s == conn[c]
           k == client[c]
           l == [k EXCEPT !.gone = TRUE]
           half == Data(PieceOf(0, 1), FALSE)
           data == Data(None, FALSE)
           eof == [data EXCEPT !.eof = TRUE]
           end == Packet("end")
           other == Packet("other")
<1>1. PICK x \in {<<end>>, <<other>>, <<half, eof>>} : Send(c, x)
  BY DEF HangUp, PieceOf
<1>2. s.phase # "absent" /\ conn' = conn /\ client' = [client EXCEPT ![c].gone = TRUE]
  BY DEF HangUp
<1>3. Counted(k) /\ Input(wire[c], k, s) /\ wire[c] \in Seq(PacketT)
  BY Here
<1>4. client' = [client EXCEPT ![c] = l]
  BY <1>2
<1>5. /\ Counted(l) /\ l.gone = TRUE /\ l.sent = k.sent /\ l.answered = k.answered
  BY <1>3 DEF Counted, ClientFields
<1>6. /\ half \in PacketT /\ data \in PacketT /\ end \in PacketT /\ other \in PacketT
      /\ ~half.end /\ ~data.end /\ ~end.end /\ ~other.end
  <2>1. Carries(half, PieceOf(0, 1), FALSE)
    BY Pieces
  <2>2. half \in PacketT /\ ~half.end
    BY <2>1 DEF Carries
  <2>3. end \in PacketT /\ other \in PacketT /\ ~end.end /\ ~other.end
    BY Packets DEF Kind
  <2>4. data \in PacketT /\ ~data.end
    BY Packets
  <2> QED BY <2>2, <2>3, <2>4
<1> HIDE DEF half, data, end, other, l
<1>7. eof \in PacketT /\ ~eof.end
  BY <1>6 DEF PacketT
<1> HIDE DEF eof
<1>8. x \in Seq(PacketT) /\ Quiet(x, 0)
  <2>1. \A p \in PacketT : ~p.end => <<p>> \in Seq(PacketT) /\ Quiet(<<p>>, 0)
    BY SMT DEF Quiet
  <2>2. <<half, eof>> \in Seq(PacketT) /\ Quiet(<<half, eof>>, 0)
    BY <1>6, <1>7, SMT DEF Quiet
  <2> QED BY <1>1, <1>6, <2>1, <2>2
<1> DEFINE w == wire[c] \o x
<1>9. Continues(w, wire[c])
  BY <1>3, <1>8, SentContinues
<1>10. wire' = [wire EXCEPT ![c] = w]
  BY <1>1 DEF Send
<1> HIDE DEF w
<1>11. Input(w, l, s)
  BY <1>2, <1>3, <1>5, <1>9, HangUpInput
<1>12. Moves(c, w, l, s)
  BY <1>2, <1>4, <1>10, Same DEF Moves
<1>13. Simulates(k, s, l, s)
  BY <1>5 DEF Simulates, Waits
<1> QED
  BY <1>5, <1>11, <1>12, <1>13 DEF Allowed

LEMMA AcceptAllowed ==
  ASSUME PInv, NEW c \in Conn, Accept(c)
  PROVE  \E w, k, s : Allowed(c, w, k, s)
<1> DEFINE s == conn[c]
           k == client[c]
           t == [s EXCEPT !.phase = "handshake"]
<1>1. s.phase = "backlog" /\ Become(c, t) /\ UNCHANGED <<wire, client>>
  BY DEF Accept
<1>2. Counted(k) /\ Input(wire[c], k, s) /\ Shaped(s)
  BY Here
<1>3. t.phase = "handshake" /\ t.handled = s.handled /\ t.buffer = s.buffer
  BY <1>2 DEF Shaped, Fields
<1> HIDE DEF t
<1>4. Input(wire[c], k, t)
  BY <1>1, <1>2, <1>3, AcceptInput
<1>5. Moves(c, wire[c], k, t)
  BY <1>1, Same DEF Moves, Become
<1>6. Simulates(k, s, k, t)
  BY <1>1, <1>3 DEF Simulates, Waits
<1> QED
  BY <1>2, <1>4, <1>5, <1>6 DEF Allowed

LEMMA HandshakeAllowed ==
  ASSUME PInv, NEW c \in Conn, Handshake(c)
  PROVE  \E w, k, s : Allowed(c, w, k, s)
<1> DEFINE s == conn[c]
           k == client[c]
           p == Head(wire[c])
           u == CASE p.kind = "end" -> Closed(s)
                  [] p.kind # "end" /\ s.phase = "connect data" -> Greeted(s, s.old)
                  [] OTHER ->
                       IF p.kind # "connect" THEN Closed(s)
                       ELSE IF p.part.long
                       THEN [s EXCEPT !.phase = "connect data", !.old = p.part.old]
                       ELSE Greeted(s, p.part.old)
<1>1. /\ s.phase \in {"handshake", "connect data"} /\ wire[c] # << >> /\ Become(c, u)
      /\ wire' = [wire EXCEPT ![c] = Tail(wire[c])] /\ client' = client
  BY DEF Handshake
<1>2. Counted(k) /\ Input(wire[c], k, s) /\ Shaped(s) /\ wire[c] \in Seq(PacketT)
  BY Here
<1>3. p = wire[c][1]
  BY <1>1, <1>2, TailQuiet
<1> HIDE DEF p
<1>4. s.buffer = << >>
  BY <1>1, <1>2 DEF Input, Early
<1>5. /\ Closed(s).phase = "closed" /\ Closed(s).handled = s.handled /\ Closed(s).buffer = << >>
  BY <1>2 DEF Closed, Shaped, Fields
<1>6. \A old : /\ Greeted(s, old).phase \in {"closed", "reading"}
               /\ Greeted(s, old).handled = s.handled /\ Greeted(s, old).buffer = << >>
  <2>1. LET r == [s EXCEPT !.phase = "reading"] IN
        r.phase = "reading" /\ r.handled = s.handled /\ r.buffer = s.buffer
    BY <1>2 DEF Shaped, Fields
  <2> QED BY <1>4, <1>5, <2>1 DEF Greeted
<1>7. \A old : LET r == [s EXCEPT !.phase = "connect data", !.old = old] IN
               r.phase = "connect data" /\ r.handled = s.handled /\ r.buffer = s.buffer
  BY <1>2 DEF Shaped, Fields
<1>8. u.handled = s.handled /\ u.buffer = s.buffer /\ Greets(s, u, p.part.long)
  BY <1>1, <1>4, <1>5, <1>6, <1>7 DEF Greets
<1> HIDE DEF u
<1>9. Input(Tail(wire[c]), k, u)
  BY <1>1, <1>2, <1>3, <1>8, HandshakeInput
<1>10. Moves(c, Tail(wire[c]), k, u)
  BY <1>1, Same DEF Moves, Become
<1>11. Simulates(k, s, k, u)
  BY <1>1, <1>8 DEF Greets, Simulates, Waits, Ends
<1> QED
  BY <1>2, <1>9, <1>10, <1>11 DEF Allowed

LEMMA ReadPacketAllowed ==
  ASSUME PInv, NEW c \in Conn, ReadPacket(c)
  PROVE  \E w, k, s : Allowed(c, w, k, s)
<1> DEFINE s == conn[c]
           k == client[c]
           u == Received(s, Head(wire[c]), k.asked)
<1>1. /\ s.phase = "reading" /\ wire[c] # << >> /\ Become(c, u)
      /\ wire' = [wire EXCEPT ![c] = Tail(wire[c])] /\ client' = client
  BY DEF ReadPacket
<1>2. Counted(k) /\ Input(wire[c], k, s) /\ Shaped(s)
  BY Here
<1>6. u = Received(s, Head(wire[c]), k.asked)
  OBVIOUS
<1> HIDE DEF u
<1>3. Input(Tail(wire[c]), k, u) /\ Reads(k, s, u)
  BY <1>1, <1>2, <1>6, ReceivedInput
<1>4. Moves(c, Tail(wire[c]), k, u)
  BY <1>1, Same DEF Moves, Become
<1>5. Simulates(k, s, k, u)
  BY <1>1, <1>3 DEF Reads, Simulates, Waits, Handles, Ends
<1> QED
  BY <1>2, <1>3, <1>4, <1>5 DEF Allowed

LEMMA CallAllowed ==
  ASSUME PInv, NEW c \in Conn, Dispatch(c) \/ Execute(c) \/ Finish(c)
  PROVE  \E w, k, s : Allowed(c, w, k, s)
<1> DEFINE s == conn[c]
           k == client[c]
<1>1. IInv
  BY DEF PInv
<1>2. s.phase \in Busy /\ UNCHANGED <<wire, client>>
  BY <1>1, CallSteps
<1>3. PICK u : Become(c, u) /\ Replies(u, s)
  BY <1>1, CallSteps
<1>4. Counted(k) /\ Input(wire[c], k, s)
  BY Here
<1>5. u.phase \in Busy /\ u.handled = s.handled /\ u.buffer = s.buffer
  BY <1>3 DEF Replies, Keeps
<1>6. Input(wire[c], k, u)
  BY <1>2, <1>4, <1>5, BusyInput
<1>7. Moves(c, wire[c], k, u)
  BY <1>2, <1>3, Same DEF Moves, Become
<1>8. Simulates(k, s, k, u)
  BY <1>2, <1>5 DEF Simulates, Waits, Busy
<1> QED
  BY <1>4, <1>6, <1>7, <1>8 DEF Allowed

LEMMA WriteReplyAllowed ==
  ASSUME PInv, NEW c \in Conn, WriteReply(c)
  PROVE  \E w, k, s : Allowed(c, w, k, s)
<1> DEFINE s == conn[c]
           k == client[c]
           u == [s EXCEPT !.phase = "reading", !.reply = None, !.call = None, !.request = None]
           view == Seen(k.view, s.request, s.reply)
           l == [k EXCEPT !.answered = @ + 1, !.asked = None, !.view = view]
<1>1. s.phase = "reply" /\ wire' = wire
  BY DEF WriteReply
<1>2. Counted(k) /\ Input(wire[c], k, s) /\ Shaped(s) /\ wire[c] \in Seq(PacketT)
  BY Here
<1>3. /\ k.answered \in Nat /\ k.sent = k.answered + 1 /\ s.handled = k.sent
  BY <1>1, <1>2 DEF Input, Busy
<1>4. s.phase \in Busy
  BY <1>1 DEF Busy
<1>5. CASE Become(c, u) /\ client' = [client EXCEPT ![c].answered = @ + 1, ![c].asked = None,
                                        ![c].view = Seen(@, s.request, s.reply)]
  <2>1. client' = [client EXCEPT ![c] = l]
    <3>1. client = [d \in Conn |-> client[d]]
      BY DEF PInv
    <3> QED BY <1>2, <1>5, <3>1 DEF Counted, ClientFields
  <2> HIDE DEF view
  <2>2. Counted(l) /\ l.sent = k.sent /\ l.answered = k.answered + 1 /\ l.gone = k.gone
    BY <1>2 DEF Counted, ClientFields
  <2>3. u.phase = "reading" /\ u.handled = s.handled /\ u.buffer = s.buffer
    BY <1>2 DEF Shaped, Fields
  <2> HIDE DEF l, u
  <2>4. Input(wire[c], l, u)
    BY <1>2, <1>4, <2>2, <2>3, ReplyInput
  <2>5. Moves(c, wire[c], l, u)
    BY <1>1, <1>5, <2>1, Same DEF Moves, Become
  <2>6. k.answered < s.handled
    <3> HIDE DEF k, s
    <3> QED BY <1>3, SMT
  <2>7. Simulates(k, s, l, u)
    BY <1>1, <2>2, <2>3, <2>6 DEF Simulates, Answers
  <2> QED BY <2>2, <2>4, <2>5, <2>7 DEF Allowed
<1>6. CASE Become(c, Closed(s)) /\ client' = client
  <2>1. Closed(s).phase = "closed" /\ Closed(s).handled = s.handled
    BY <1>2, SetClosed
  <2>2. Input(wire[c], k, Closed(s))
    BY <1>2, <2>1, ClosedInput
  <2>3. Moves(c, wire[c], k, Closed(s))
    BY <1>1, <1>6, Same DEF Moves, Become
  <2>4. Simulates(k, s, k, Closed(s))
    BY <1>1, <2>1 DEF Simulates, Ends
  <2> QED BY <1>2, <2>2, <2>3, <2>4 DEF Allowed
<1> QED
  BY <1>5, <1>6 DEF WriteReply

(* A step of one connection.                                                *)
OneStep(c) ==
  Connect(c) \/ Ask(c) \/ HangUp(c) \/ Accept(c) \/ Serve(c)

LEMMA StepAllowed ==
  ASSUME PInv, NEW c \in Conn, OneStep(c)
  PROVE  \E w, k, s : Allowed(c, w, k, s)
BY ConnectAllowed, AskAllowed, HangUpAllowed, AcceptAllowed, HandshakeAllowed,
   ReadPacketAllowed, CallAllowed, WriteReplyAllowed DEF OneStep, Serve

(* Only that connection and its client move.                                *)
LEMMA Moved ==
  ASSUME PInv, NEW c \in Conn, NEW w, NEW k, NEW s, Moves(c, w, k, s)
  PROVE  /\ \A d \in Conn : wire'[d] = IF d = c THEN w ELSE wire[d]
         /\ \A d \in Conn : client'[d] = IF d = c THEN k ELSE client[d]
         /\ \A d \in Conn : conn'[d] = IF d = c THEN s ELSE conn[d]
         /\ wire' = [d \in Conn |-> wire'[d]] /\ client' = [d \in Conn |-> client'[d]]
<1>1. wire = [d \in Conn |-> wire[d]] /\ client = [d \in Conn |-> client[d]]
  BY DEF PInv
<1>2. conn = [d \in Conn |-> conn[d]]
  BY DEF PInv, IInv
<1>3. (\A d \in Conn : wire'[d] = IF d = c THEN w ELSE wire[d]) /\ wire' = [d \in Conn |-> wire'[d]]
  BY <1>1 DEF Moves
<1>4. /\ \A d \in Conn : client'[d] = IF d = c THEN k ELSE client[d]
      /\ client' = [d \in Conn |-> client'[d]]
  BY <1>1 DEF Moves
<1>5. \A d \in Conn : conn'[d] = IF d = c THEN s ELSE conn[d]
  BY <1>2 DEF Moves
<1> QED
  BY <1>3, <1>4, <1>5

LEMMA InitPInv == Init => PInv
<1> SUFFICES ASSUME Init PROVE PInv
  OBVIOUS
<1>1. IInv
  BY InitIInv
<1>2. Counted(NewClient)
  BY DEF Counted, ClientFields, NewClient
<1>3. Input(<< >>, NewClient, NewSession)
  <2>1. << >> \in Seq(PacketT) /\ Quiet(<< >>, 0)
    BY SMT DEF Quiet
  <2>2. NewClient.sent = 0 /\ NewClient.answered = 0
    BY DEF NewClient
  <2>3. NewSession.phase = "absent" /\ NewSession.handled = 0 /\ NewSession.buffer = << >>
    BY DEF NewSession
  <2> HIDE DEF NewClient, NewSession
  <2> QED BY <2>1, <2>2, <2>3, SMT DEF Input, Early, Busy
<1>4. \A c \in Conn : wire[c] = << >> /\ client[c] = NewClient /\ conn[c] = NewSession
  BY DEF Init
<1>5. wire = [c \in Conn |-> wire[c]] /\ client = [c \in Conn |-> client[c]]
  BY DEF Init
<1> QED
  BY <1>1, <1>2, <1>3, <1>4, <1>5 DEF PInv

(* When the accept loop ends, the connections that wait end with it.        *)
LEMMA BreakEach ==
  ASSUME PInv, Break, NEW c \in Conn
  PROVE  /\ Input(wire[c], client[c], conn'[c])
         /\ conn'[c].handled = conn[c].handled
         /\ conn[c].phase = "closed" => conn'[c].phase = "closed"
<1>1. conn'[c] = IF conn[c].phase = "backlog" THEN Closed(conn[c]) ELSE conn[c]
  BY DEF Break
<1>2. Input(wire[c], client[c], conn[c]) /\ Shaped(conn[c]) /\ wire[c] \in Seq(PacketT)
  BY Here
<1>3. /\ Closed(conn[c]).phase = "closed" /\ Closed(conn[c]).handled = conn[c].handled
  BY <1>2, SetClosed
<1>4. Input(wire[c], client[c], Closed(conn[c]))
  BY <1>2, <1>3, ClosedInput
<1> QED
  BY <1>1, <1>2, <1>3, <1>4

LEMMA NextPInv == PInv /\ [Next]_vars => PInv'
<1> SUFFICES ASSUME PInv, [Next]_vars PROVE PInv'
  OBVIOUS
<1>1. IInv'
  BY NextIInv DEF PInv
<1>2. CASE UNCHANGED <<wire, client, conn>>
  BY <1>1, <1>2 DEF PInv
<1>3. CASE Break
  <2>1. wire' = wire /\ client' = client
    BY <1>3 DEF Break
  <2>2. \A c \in Conn : Input(wire'[c], client'[c], conn'[c])
    BY <1>3, <2>1, BreakEach
  <2> QED BY <1>1, <2>1, <2>2 DEF PInv
<1>4. ASSUME NEW c \in Conn, OneStep(c) PROVE PInv'
  <2>1. PICK w, k, s : Allowed(c, w, k, s)
    BY <1>4, StepAllowed
  <2>2. Moves(c, w, k, s) /\ Counted(k) /\ Input(w, k, s)
    BY <2>1 DEF Allowed
  <2>3. /\ \A d \in Conn : wire'[d] = IF d = c THEN w ELSE wire[d]
        /\ \A d \in Conn : client'[d] = IF d = c THEN k ELSE client[d]
        /\ \A d \in Conn : conn'[d] = IF d = c THEN s ELSE conn[d]
        /\ wire' = [d \in Conn |-> wire'[d]] /\ client' = [d \in Conn |-> client'[d]]
    BY <2>2, Moved
  <2>4. \A d \in Conn : Counted(client[d]) /\ Input(wire[d], client[d], conn[d])
    BY DEF PInv
  <2>5. \A d \in Conn : Counted(client'[d]) /\ Input(wire'[d], client'[d], conn'[d])
    BY <2>2, <2>3, <2>4
  <2> QED BY <1>1, <2>3, <2>5 DEF PInv
<1> QED
  BY <1>2, <1>3, <1>4 DEF Next, vars, OneStep

-----------------------------------------------------------------------------
(* The steps of RequestReply.                                               *)
LEMMA PromiseInit == Init => Promise!Init
<1> SUFFICES ASSUME Init PROVE Promise!Init
  OBVIOUS
<1>1. NewClient.sent = 0 /\ NewClient.answered = 0
  BY DEF NewClient
<1>2. NewSession.phase = "absent" /\ NewSession.handled = 0
  BY DEF NewSession
<1>3. \A c \in Conn : client[c] = NewClient /\ conn[c] = NewSession
  BY DEF Init
<1> QED
  BY <1>1, <1>2, <1>3 DEF Promise!Init

(* Connections end and nothing else is seen.                                *)
LEMMA PromiseEnd ==
  ASSUME \A d \in Conn : /\ client'[d].sent = client[d].sent
                         /\ client'[d].answered = client[d].answered
                         /\ conn'[d].handled = conn[d].handled
                         /\ conn[d].phase = "closed" => conn'[d].phase = "closed"
  PROVE  Promise!Next
<1> DEFINE open == {d \in Conn : conn[d].phase # "closed"}
           left == {d \in Conn : conn'[d].phase # "closed"}
<1>1. left = open \ (open \ left) /\ open \ left \in SUBSET open
  OBVIOUS
<1>2. \E gone \in SUBSET open : left = open \ gone
  <2> HIDE DEF open, left
  <2> QED BY <1>1
<1>3. /\ [d \in Conn |-> client'[d].sent] = [d \in Conn |-> client[d].sent]
      /\ [d \in Conn |-> client'[d].answered] = [d \in Conn |-> client[d].answered]
      /\ [d \in Conn |-> conn'[d].handled] = [d \in Conn |-> conn[d].handled]
  OBVIOUS
<1>4. Promise!End
  BY <1>2, <1>3 DEF Promise!End
<1> QED
  BY <1>4 DEF Promise!Next

LEMMA AllowedPromise ==
  ASSUME PInv, NEW c \in Conn, NEW w, NEW l, NEW u, Allowed(c, w, l, u)
  PROVE  [Promise!Next]_(Promise!vars)
<1> DEFINE k == client[c]
           s == conn[c]
<1>1. /\ \A d \in Conn : client'[d] = IF d = c THEN l ELSE client[d]
      /\ \A d \in Conn : conn'[d] = IF d = c THEN u ELSE conn[d]
  BY Moved, SMT DEF Allowed
<1>2. Simulates(k, s, l, u)
  BY DEF Allowed
<1>3. CASE Waits(k, s, l, u)
  <2>1. UNCHANGED Promise!vars
    BY <1>1, <1>3 DEF Waits, Promise!vars
  <2> QED BY <2>1
<1>4. CASE Asks(k, s, l, u)
  <2>1. Promise!Ask(c)
    BY <1>1, <1>4 DEF Asks, Promise!Ask
  <2> QED BY <2>1 DEF Promise!Next
<1>5. CASE Handles(k, s, l, u)
  <2>1. Promise!Handle(c)
    BY <1>1, <1>5 DEF Handles, Promise!Handle
  <2> QED BY <2>1 DEF Promise!Next
<1>6. CASE Answers(k, s, l, u)
  <2>1. Promise!Answer(c)
    BY <1>1, <1>6 DEF Answers, Promise!Answer
  <2> QED BY <2>1 DEF Promise!Next
<1>7. CASE Ends(k, s, l, u)
  BY <1>1, <1>7, PromiseEnd DEF Ends
<1> QED
  BY <1>2, <1>3, <1>4, <1>5, <1>6, <1>7 DEF Simulates

LEMMA NextPromise == PInv /\ [Next]_vars => [Promise!Next]_(Promise!vars)
<1> SUFFICES ASSUME PInv, [Next]_vars PROVE [Promise!Next]_(Promise!vars)
  OBVIOUS
<1>1. CASE UNCHANGED <<wire, client, conn>>
  BY <1>1 DEF Promise!vars
<1>2. CASE Break
  <2>1. client' = client
    BY <1>2 DEF Break
  <2>2. \A c \in Conn : /\ conn'[c].handled = conn[c].handled
                        /\ conn[c].phase = "closed" => conn'[c].phase = "closed"
    BY <1>2, BreakEach
  <2> QED BY <2>1, <2>2, PromiseEnd
<1>3. ASSUME NEW c \in Conn, OneStep(c) PROVE [Promise!Next]_(Promise!vars)
  BY <1>3, StepAllowed, AllowedPromise
<1> QED
  BY <1>1, <1>2, <1>3 DEF Next, vars, OneStep

(* Connections keep the safety part of RequestReply: requests are handled   *)
(* one at a time, in order and none twice, and each is answered before the  *)
(* next is handled, for any number of connections, requests and executions, *)
(* however the requests are cut into packets and wherever clients hang up   *)
(* (session.rs run, read_request, dispatch).                                *)
THEOREM PromiseKept == Spec => Promise!Safety
<1>1. Spec => []PInv
  BY InitPInv, NextPInv, PTL DEF Spec
<1> QED
  BY <1>1, PromiseInit, NextPromise, PTL DEF Spec, Promise!Safety
=============================================================================
