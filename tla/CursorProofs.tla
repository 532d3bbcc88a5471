---------------------------- MODULE CursorProofs ----------------------------
(***************************************************************************)
(* A fetch returns the next rows of the execution that the client last     *)
(* made on the cursor, for any number of connections, cursors, executions  *)
(* and fetches.                                                            *)
(*                                                                         *)
(* What a client believes of a cursor is what the session holds, from the  *)
(* execution that opened it through every fetch, until the client closes   *)
(* it.  The two are updated at different times: the session's cursors when *)
(* a call runs, the client's view when it reads the reply, and a cursor    *)
(* that the client closes stays open until its next request is handled.    *)
(* Tracks relates them in every phase of a call.                           *)
(***************************************************************************)
EXTENDS ConnectionProofs

(* A step is proved by Zenon unless it names another prover. *)
USE Zenon

(* What a cursor is made of. *)
CursorFields == {"sql", "pending", "fetched", "tag"}
IsCursor(k) ==
  /\ k = [f \in CursorFields |-> k[f]]
  /\ k.pending \in Nat /\ k.fetched \in Nat /\ k.tag \in Nat \ {0}

(* The cursors of a session, numbered in the order they were opened. *)
CursorsOk(s) ==
  /\ s.next \in Nat /\ s.executed \in Nat
  /\ \A id \in DOMAIN s.cursors : id \in Nat /\ id < s.next /\ IsCursor(s.cursors[id])

(* Of a cursor that has rows left, the client knows the execution and the   *)
(* number of rows it got; unless it has asked to close the cursor.          *)
Agree(cs, view, closed) ==
  \A id \in DOMAIN cs \ closed :
    cs[id].pending > 0 =>
      id \in DOMAIN view /\ view[id] = [tag |-> cs[id].tag, got |-> cs[id].fetched]

(* The rows of a fetch are the next ones.                                   *)
NextRows(view, q, r) ==
  q.op = "fetch" /\ r.rows.n > 0 =>
    /\ q.cursor \in DOMAIN view
    /\ view[q.cursor] = [tag |-> r.rows.tag, got |-> r.rows.from]

(* A protocol negotiation carries no piggyback.                             *)
AskedOk(q) == q.fetch \in Nat /\ (q.op = "protocol" => q.close = {})

(* The views of a client and a connection, phase by phase.                  *)
Views(k, s) ==
  /\ s.phase \in {"reading", "dispatch"} =>
       Agree(s.cursors, k.view, IF k.sent = k.answered THEN {} ELSE k.asked.close)
  /\ s.phase = "executing" => Agree(s.cursors, k.view, {})
  /\ s.phase = "reply" => /\ Agree(s.cursors, Seen(k.view, s.request, s.reply), {})
                          /\ NextRows(k.view, s.request, s.reply)

(* The cursors of a connection and what its client knows of them.           *)
Tracks(k, s) ==
  /\ CursorsOk(s)
  /\ s.phase \in Early \cup {"closed"} => DOMAIN s.cursors = {}
  /\ k.sent # k.answered => AskedOk(k.asked)
  /\ s.phase \in Busy => s.request = k.asked
  /\ s.phase = "executing" =>
       /\ s.request.op \in {"execute", "reexecute"} /\ s.call.fetch \in Nat
       /\ s.call.cursor = 0 \/ s.call.cursor \in DOMAIN s.cursors
  /\ s.next <= IdLimit => Views(k, s)

-----------------------------------------------------------------------------
(* A session in a call, whose cursors the client knows; and one that has    *)
(* the same cursors.                                                        *)
Calling(k, t) ==
  /\ Shaped(t) /\ CursorsOk(t) /\ AskedOk(k.asked) /\ t.request = k.asked
  /\ t.next <= IdLimit => Agree(t.cursors, k.view, {})

SameCursors(u, t) ==
  /\ u.cursors = t.cursors /\ u.next = t.next /\ u.executed = t.executed
  /\ u.request = t.request

(* A reply without rows. *)
LEMMA ReplyTracks ==
  ASSUME NEW k, NEW t, Calling(k, t), NEW message, message.rows = NoRows
  PROVE  Tracks(k, Reply(t, message))
<1> DEFINE u == Reply(t, message)
<1>1. SameCursors(u, t) /\ u.phase = "reply" /\ u.reply = message
  BY DEF Calling, Shaped, Fields, Reply, SameCursors
<1> HIDE DEF u
<1>2. message.rows.tag = 0 /\ message.rows.n = 0
  <2>1. NoRows.tag = 0 /\ NoRows.n = 0
    BY DEF NoRows
  <2> QED
    BY <2>1
<1>3. Seen(k.view, u.request, u.reply) = k.view
  BY <1>1, <1>2 DEF Seen
<1>4. NextRows(k.view, u.request, u.reply)
  BY <1>1, <1>2, SMT DEF NextRows
<1>5. u.next <= IdLimit => Views(k, u)
  BY <1>1, <1>3, <1>4 DEF Views, Calling, SameCursors
<1>6. CursorsOk(u)
  BY <1>1 DEF Calling, CursorsOk, SameCursors
<1>7. Tracks(k, u)
  BY <1>1, <1>5, <1>6 DEF Tracks, Early, Busy, Calling, SameCursors
<1> QED
  BY <1>7 DEF u

(* The message of Message carries no rows.                                  *)
LEMMA MessageRows ==
  ASSUME NEW status, NEW cursor, NEW count, NEW error
  PROVE  Message(status, cursor, count, error).rows = NoRows
  BY DEF Message

(* An error reply carries no rows.                                          *)
LEMMA FailTracks ==
  ASSUME NEW k, NEW t, Calling(k, t), NEW error
  PROVE  Tracks(k, Fail(t, error))
  BY ReplyTracks, MessageRows DEF Fail

(* The session u that sends rows of cursor id has taken them from what was  *)
(* pending in t, and nothing else.                                          *)
RowsSent(u, t, id) ==
  LET x == t.cursors[id]
      n == u.reply.rows.n
  IN  /\ u.phase = "reply" /\ u.next = t.next /\ u.executed = t.executed
      /\ u.request = t.request
      /\ u.reply.cursor = id % IdLimit
      /\ u.reply.rows.tag = x.tag /\ u.reply.rows.from = x.fetched
      /\ n \in Nat /\ n <= x.pending
      /\ DOMAIN u.cursors = DOMAIN t.cursors
      /\ IsCursor(u.cursors[id]) /\ u.cursors[id].tag = x.tag
      /\ u.cursors[id].pending = x.pending - n
      /\ u.cursors[id].fetched = x.fetched + n
      /\ \A i \in DOMAIN t.cursors : i # id => u.cursors[i] = t.cursors[i]

(* What send_rows does to the session. *)
LEMMA RowsAre ==
  ASSUME NEW t, Shaped(t), NEW id \in DOMAIN t.cursors, IsCursor(t.cursors[id]),
         NEW max \in Nat
  PROVE  RowsSent(send_rows(t, id, max), t, id)
<1> DEFINE x == t.cursors[id]
           n == IF max < x.pending THEN max ELSE x.pending
           pending == x.pending - n
           fetched == x.fetched + n
           left == [x EXCEPT !.pending = pending, !.fetched = fetched]
           cs == Put(t.cursors, id, left)
           rows == [tag |-> x.tag, from |-> x.fetched, n |-> n]
           m == [Message(call_status(t), id, fetched,
                         IF x.pending = n THEN "1403" ELSE None) EXCEPT !.rows = rows]
           r == [t EXCEPT !.cursors = cs]
           u == send_rows(t, id, max)
<1>1. u = Reply(r, m)
  BY DEF send_rows, IsCursor, CursorFields
<1> HIDE DEF u
<1>2. /\ n \in Nat /\ n <= x.pending /\ pending \in Nat /\ fetched \in Nat
  BY SMT DEF IsCursor
<1> HIDE DEF n
<1>3. rows.tag = x.tag /\ rows.from = x.fetched /\ rows.n = n
  OBVIOUS
<1> HIDE DEF rows
<1>4. m.cursor = id % IdLimit /\ m.rows = rows
  BY DEF Message
<1> HIDE DEF m, pending, fetched
<1>5. IsCursor(left) /\ left.tag = x.tag /\ left.pending = pending /\ left.fetched = fetched
  BY <1>2 DEF IsCursor, CursorFields
<1> HIDE DEF left
<1>6. /\ DOMAIN cs = DOMAIN t.cursors /\ cs[id] = left
      /\ \A i \in DOMAIN t.cursors : i # id => cs[i] = t.cursors[i]
  <2>1. /\ DOMAIN cs = DOMAIN t.cursors \cup {id} /\ cs[id] = left
        /\ \A i \in DOMAIN t.cursors : i # id => cs[i] = t.cursors[i]
    BY DEF Put
  <2> HIDE DEF cs
  <2> QED
    BY <2>1
<1> HIDE DEF cs
<1>7. /\ r.cursors = cs /\ r.next = t.next /\ r.executed = t.executed
      /\ r.request = t.request /\ r = [f \in Fields |-> r[f]]
  BY DEF Shaped, Fields
<1> HIDE DEF r
<1>8. /\ u.phase = "reply" /\ u.reply = m /\ u.cursors = cs /\ u.next = t.next
      /\ u.executed = t.executed /\ u.request = t.request
  BY <1>1, <1>7 DEF Reply, Fields
<1>9. u.reply.rows.n = n
  BY <1>3, <1>4, <1>8
<1>10. RowsSent(u, t, id)
  BY <1>2, <1>3, <1>4, <1>5, <1>6, <1>8, <1>9 DEF RowsSent, pending, fetched
<1> QED
  BY <1>10 DEF u

(* The cursor id in a reply is the cursor's, while ids fit.                 *)
LEMMA IdFits ==
  ASSUME NEW id \in Nat, NEW next \in Nat, id < next, next <= IdLimit
  PROVE  id % IdLimit = id
  BY SizeAssumption, SMT

(* FETCH: the rows are the next ones the client has not got, and it will    *)
(* have got them.                                                           *)
LEMMA FetchTracks ==
  ASSUME NEW k, NEW t, Calling(k, t), t.request.op = "fetch", NEW max \in Nat
  PROVE  Tracks(k, send_rows(t, t.request.cursor, max))
<1> DEFINE id == t.request.cursor
           u == send_rows(t, id, max)
           x == t.cursors[id]
           n == u.reply.rows.n
           v == k.view
           w == Seen(v, u.request, u.reply)
<1>1. CASE id \notin DOMAIN t.cursors
  BY <1>1, FailTracks DEF send_rows
<1>2. CASE id \in DOMAIN t.cursors
  <2>1. /\ Shaped(t) /\ IsCursor(x) /\ id \in Nat /\ t.next \in Nat /\ id < t.next
    BY <1>2 DEF Calling, CursorsOk
  <2>2. /\ u.phase = "reply" /\ u.next = t.next /\ u.executed = t.executed
        /\ u.request = t.request
        /\ u.reply.cursor = id % IdLimit
        /\ u.reply.rows.tag = x.tag /\ u.reply.rows.from = x.fetched
        /\ n \in Nat /\ n <= x.pending
        /\ DOMAIN u.cursors = DOMAIN t.cursors
        /\ IsCursor(u.cursors[id]) /\ u.cursors[id].tag = x.tag
        /\ u.cursors[id].pending = x.pending - n
        /\ u.cursors[id].fetched = x.fetched + n
        /\ \A i \in DOMAIN t.cursors : i # id => u.cursors[i] = t.cursors[i]
    <3>1. RowsSent(u, t, id)
      BY <1>2, <2>1, RowsAre
    <3> HIDE DEF u, id
    <3> QED
      BY <3>1 DEF RowsSent
  <2>3. x.pending \in Nat /\ x.fetched \in Nat /\ x.tag # 0
    BY <2>1 DEF IsCursor
  <2> HIDE DEF u, x, id, n
  <2>4. CursorsOk(u)
    <3>1. ASSUME NEW i \in DOMAIN u.cursors
          PROVE  i \in Nat /\ i < u.next /\ IsCursor(u.cursors[i])
      BY <2>2 DEF Calling, CursorsOk
    <3> QED
      BY <2>2, <3>1 DEF Calling, CursorsOk
  <2>5. ASSUME u.next <= IdLimit PROVE Views(k, u)
    <3>1. u.reply.cursor = id
      BY <2>1, <2>2, <2>5, IdFits
    <3>2. Agree(t.cursors, v, {})
      BY <2>2, <2>5 DEF Calling
    <3>3. x.pending > 0 => id \in DOMAIN v /\ v[id] = [tag |-> x.tag, got |-> x.fetched]
      BY <1>2, <3>2 DEF Agree, x
    <3>4. w = IF id \in DOMAIN v THEN [v EXCEPT ![id].got = @ + n] ELSE v
      BY <2>2, <2>3, <3>1 DEF Seen, n
    <3>5. NextRows(v, u.request, u.reply)
      <4>1. n > 0 => x.pending > 0
        BY <2>2, <2>3, SMT
      <4> QED
        BY <2>2, <3>3, <4>1 DEF NextRows, n, id
    <3>6. Agree(u.cursors, w, {})
      <4> SUFFICES ASSUME NEW i \in DOMAIN u.cursors, u.cursors[i].pending > 0
                   PROVE  /\ i \in DOMAIN w
                          /\ w[i] = [tag |-> u.cursors[i].tag, got |-> u.cursors[i].fetched]
        BY DEF Agree
      <4>1. CASE i = id
        <5>1. x.pending > 0
          BY <2>2, <2>3, <4>1, SMT
        <5>2. id \in DOMAIN v /\ v[id] = [tag |-> x.tag, got |-> x.fetched]
          BY <3>3, <5>1
        <5>3. id \in DOMAIN w /\ w[id] = [v[id] EXCEPT !.got = @ + n]
          BY <3>4, <5>2
        <5> HIDE DEF w
        <5>4. w[id] = [tag |-> x.tag, got |-> x.fetched + n]
          <6> DEFINE old == [tag |-> x.tag, got |-> x.fetched]
          <6>1. [old EXCEPT !.got = @ + n] = [tag |-> x.tag, got |-> x.fetched + n]
            BY SMT
          <6> HIDE DEF old
          <6>2. v[id] = old
            BY <5>2 DEF old
          <6> QED
            BY <5>3, <6>1, <6>2
        <5> QED
          BY <2>2, <4>1, <5>3, <5>4
      <4>2. CASE i # id
        <5>1. i \in DOMAIN t.cursors /\ u.cursors[i] = t.cursors[i]
          BY <2>2, <4>2
        <5>2. i \in DOMAIN v /\ v[i] = [tag |-> t.cursors[i].tag, got |-> t.cursors[i].fetched]
          BY <3>2, <5>1 DEF Agree
        <5>3. i \in DOMAIN w /\ w[i] = v[i]
          BY <3>4, <4>2, <5>2
        <5> QED
          BY <5>1, <5>2, <5>3
      <4> QED
        BY <4>1, <4>2
    <3> QED
      BY <2>2, <3>5, <3>6 DEF Views
  <2>6. Tracks(k, u)
    BY <2>2, <2>4, <2>5 DEF Tracks, Early, Busy, Calling
  <2> QED
    BY <2>6 DEF u, id
<1> QED
  BY <1>1, <1>2

(* A query was executed: the client hears of it with its first rows.        *)
LEMMA QueryTracks ==
  ASSUME NEW k, NEW t, Shaped(t), CursorsOk(t), AskedOk(k.asked), t.request = k.asked,
         t.request.op # "fetch", NEW id \in DOMAIN t.cursors, t.cursors[id].fetched = 0,
         t.next <= IdLimit => Agree(t.cursors, k.view, {id}), NEW max \in Nat
  PROVE  Tracks(k, send_rows(t, id, max))
<1> DEFINE u == send_rows(t, id, max)
           x == t.cursors[id]
           n == u.reply.rows.n
           v == k.view
           w == Seen(v, u.request, u.reply)
<1>1. /\ IsCursor(x) /\ id \in Nat /\ t.next \in Nat /\ id < t.next
  BY DEF CursorsOk
<1>2. /\ u.phase = "reply" /\ u.next = t.next /\ u.executed = t.executed
      /\ u.request = t.request
      /\ u.reply.cursor = id % IdLimit
      /\ u.reply.rows.tag = x.tag
      /\ n \in Nat
      /\ DOMAIN u.cursors = DOMAIN t.cursors
      /\ IsCursor(u.cursors[id]) /\ u.cursors[id].tag = x.tag
      /\ u.cursors[id].fetched = x.fetched + n
      /\ \A i \in DOMAIN t.cursors : i # id => u.cursors[i] = t.cursors[i]
  <2>1. RowsSent(u, t, id)
    BY <1>1, RowsAre
  <2> HIDE DEF u
  <2> QED
    BY <1>1, <2>1 DEF RowsSent
<1>3. x.tag # 0 /\ x.fetched = 0
  BY <1>1 DEF IsCursor
<1> HIDE DEF u, x, n
<1>4. u.cursors[id].fetched = n
  BY <1>2, <1>3, SMT
<1>5. CursorsOk(u)
  <2>1. ASSUME NEW i \in DOMAIN u.cursors
        PROVE  i \in Nat /\ i < u.next /\ IsCursor(u.cursors[i])
    BY <1>2 DEF CursorsOk
  <2> QED
    BY <1>2, <2>1 DEF CursorsOk
<1>6. ASSUME u.next <= IdLimit PROVE Views(k, u)
  <2>1. u.reply.cursor = id
    BY <1>1, <1>2, <1>6, IdFits
  <2>2. Agree(t.cursors, v, {id})
    BY <1>2, <1>6
  <2>3. w = Put(v, id, [tag |-> x.tag, got |-> n])
    BY <1>2, <1>3, <2>1 DEF Seen, n
  <2> DEFINE new == [tag |-> x.tag, got |-> n]
  <2> HIDE DEF new, w
  <2>4. /\ DOMAIN w = DOMAIN v \cup {id} /\ w[id] = new
        /\ \A i \in DOMAIN v : i # id => w[i] = v[i]
    BY <2>3 DEF new, Put
  <2>5. Agree(u.cursors, w, {})
    <3> SUFFICES ASSUME NEW i \in DOMAIN u.cursors, u.cursors[i].pending > 0
                 PROVE  /\ i \in DOMAIN w
                        /\ w[i] = [tag |-> u.cursors[i].tag, got |-> u.cursors[i].fetched]
      BY DEF Agree
    <3>1. CASE i = id
      BY <1>2, <1>4, <2>4, <3>1 DEF new
    <3>2. CASE i # id
      <4>1. i \in DOMAIN t.cursors /\ u.cursors[i] = t.cursors[i]
        BY <1>2, <3>2
      <4>2. i \in DOMAIN v /\ v[i] = [tag |-> t.cursors[i].tag, got |-> t.cursors[i].fetched]
        BY <2>2, <3>2, <4>1 DEF Agree
      <4> QED
        BY <2>4, <3>2, <4>1, <4>2
    <3> QED
      BY <3>1, <3>2
  <2>6. NextRows(v, u.request, u.reply)
    BY <1>2 DEF NextRows
  <2> QED
    BY <1>2, <2>5, <2>6 DEF Views, w
<1>7. Tracks(k, u)
  BY <1>2, <1>5, <1>6 DEF Tracks, Early, Busy
<1> QED
  BY <1>7 DEF u

(* What is known of the cursors does not depend on the rest.                *)
LEMMA SameCalling ==
  ASSUME NEW k, NEW t, Calling(k, t), NEW u, Shaped(u), SameCursors(u, t)
  PROVE  Calling(k, u)
  BY DEF Calling, CursorsOk, SameCursors

(* The login and the database session change, the cursors do not. *)
LEMMA AuthenticateTracks ==
  ASSUME NEW k, NEW t, Calling(k, t), NEW q, NEW u \in Authenticate(t, q)
  PROVE  Tracks(k, u)
<1> DEFINE challenged == [t EXCEPT !.login = "Challenged"]
           out == [t EXCEPT !.login = "None"]
<1>1. /\ Shaped(challenged) /\ SameCursors(challenged, t)
      /\ Shaped(out) /\ SameCursors(out, t)
  BY DEF Calling, Shaped, Fields, SameCursors
<1>2. ASSUME NEW d \in Opened(t, q.sql)
      PROVE  Shaped(LoggedIn(t, d)) /\ SameCursors(LoggedIn(t, d), t)
  <2>1. Shaped(t)
    BY DEF Calling
  <2>2. d \in Db
    BY <2>1, OpenedDb
  <2> QED BY <2>1, <2>2, LoggedInShaped DEF Fields, SameCursors
<1> HIDE DEF challenged, out
<1>3. /\ Calling(k, challenged) /\ Calling(k, out)
      /\ \A d \in Opened(t, q.sql) : Calling(k, LoggedIn(t, d))
  BY <1>1, <1>2, SameCalling
<1>4. \A status, cursor, count, error :
        LET m == Message(status, cursor, count, error)
        IN  /\ Tracks(k, Reply(challenged, m)) /\ Tracks(k, Reply(out, m))
            /\ \A d \in Opened(t, q.sql) : Tracks(k, Reply(LoggedIn(t, d), m))
  BY <1>3, ReplyTracks, MessageRows
<1>5. \A error : Tracks(k, Fail(out, error))
  BY <1>3, FailTracks
<1> QED
  BY <1>4, <1>5 DEF Authenticate, Denied, challenged, out

(* COMMIT leaves the cursors open.                                          *)
LEMMA CommittedTracks ==
  ASSUME NEW k, NEW t, Calling(k, t), t.login = "LoggedIn",
         NEW x \in Commits([log |-> t.db.log, kept |-> t.kept, moved |-> FALSE])
  PROVE  Tracks(k, Committed(t, x))
<1> DEFINE u == [t EXCEPT !.db.log = x.db.log, !.kept = x.db.kept]
<1>1. [log |-> t.db.log, kept |-> t.kept, moved |-> FALSE] \in Db
  BY DEF Calling, Shaped, Db
<1>2. x.db.log \in Nat /\ x.db.kept \in Nat
  BY <1>1, CommitsDb DEF Db
<1>3. Shaped(u)
  BY <1>2, NoneAssumption DEF Calling, Shaped, Fields
<1>4. SameCursors(u, t)
  BY DEF Calling, Shaped, Fields, SameCursors
<1> HIDE DEF u
<1>5. Calling(k, u)
  BY <1>3, <1>4, SameCalling
<1>6. Committed(t, x) = IF x.ok THEN Reply(u, Message(call_status(u), 0, 0, None))
                        ELSE Fail(u, "commit")
  BY DEF Committed, u
<1>7. Tracks(k, Reply(u, Message(call_status(u), 0, 0, None))) /\ Tracks(k, Fail(u, "commit"))
  BY <1>5, ReplyTracks, MessageRows, FailTracks
<1> QED
  BY <1>6, <1>7

(* run_statement starts. *)
LEMMA RunTracks ==
  ASSUME NEW k, NEW t, Calling(k, t), t.request.op \in {"execute", "reexecute"},
         NEW id, id = 0 \/ id \in DOMAIN t.cursors, NEW sql, NEW runs, NEW fetch \in Nat,
         NEW commit
  PROVE  Tracks(k, Run(t, id, sql, runs, fetch, commit))
<1> DEFINE call == [cursor |-> id, sql |-> sql, left |-> runs, fetch |-> fetch,
                    commit |-> commit, mark |-> t.db.log, moved |-> FALSE,
                    affected |-> 0, before |-> t.db.log + t.kept]
           u == [t EXCEPT !.phase = "executing", !.call = call]
<1>1. Run(t, id, sql, runs, fetch, commit) = u
  BY DEF Run
<1>2. call.cursor = id /\ call.fetch = fetch
  OBVIOUS
<1> HIDE DEF call
<1>3. u.phase = "executing" /\ u.call = call /\ SameCursors(u, t) /\ Shaped(u)
  BY DEF Calling, Shaped, Fields, SameCursors
<1> HIDE DEF u
<1>4. Calling(k, u)
  BY <1>3, SameCalling
<1>5. u.next <= IdLimit => Views(k, u)
  BY <1>3, <1>4 DEF Calling, Views
<1>6. Tracks(k, u)
  BY <1>2, <1>3, <1>4, <1>5 DEF Calling, Tracks, SameCursors, Early, Busy
<1> QED
  BY <1>1, <1>6

(* call *)
LEMMA CallsTracks ==
  ASSUME NEW k, NEW t, Calling(k, t), NEW u \in Calls(t, t.request)
  PROVE  Tracks(k, u)
<1> DEFINE q == t.request
           auth == q.op \in {"auth1", "auth2", "wrong password", "bad verifier"}
           in == t.login = "LoggedIn"
<1>0. q.fetch \in Nat
  BY DEF Calling, AskedOk
<1>1. CASE auth
  <2>1. u \in Authenticate(t, q)
    BY <1>1 DEF Calls
  <2> QED BY <2>1, AuthenticateTracks
<1>2. CASE ~auth /\ ~in
  <2>1. u = Reply(t, Message(FALSE, 0, 0, "1012"))
    BY <1>2 DEF Calls
  <2> QED BY <2>1, ReplyTracks, MessageRows
<1>3. CASE ~auth /\ in
  <2>1. CASE q.op = "execute"
    <3>1. u = execute(t, q)
      BY <1>3, <2>1 DEF Calls
    <3>2. CASE q.sql # None
      <4>1. u = Run(t, 0, q.sql, q.runs, q.fetch, q.commit)
        BY <3>1, <3>2 DEF execute
      <4> QED BY <1>0, <2>1, <4>1, RunTracks
    <3>3. CASE q.sql = None /\ q.cursor \in DOMAIN t.cursors
      <4>1. u = Run(t, q.cursor, t.cursors[q.cursor].sql, q.runs, q.fetch, q.commit)
        BY <3>1, <3>3 DEF execute
      <4> QED BY <1>0, <2>1, <3>3, <4>1, RunTracks
    <3>4. CASE q.sql = None /\ q.cursor \notin DOMAIN t.cursors
      <4>1. u = Fail(t, "1001")
        BY <3>1, <3>4 DEF execute
      <4> QED BY <4>1, FailTracks
    <3> QED BY <3>2, <3>3, <3>4
  <2>2. CASE q.op = "reexecute"
    <3>1. u = reexecute(t, q)
      BY <1>3, <2>2 DEF Calls
    <3>2. CASE q.cursor \notin DOMAIN t.cursors
      BY <3>1, <3>2, FailTracks DEF reexecute
    <3>3. CASE q.cursor \in DOMAIN t.cursors
      <4>1. PICK sql, runs : u = Run(t, q.cursor, sql, runs, q.fetch, q.commit)
        BY <3>1, <3>3 DEF reexecute
      <4> QED BY <1>0, <2>2, <3>3, <4>1, RunTracks
    <3> QED BY <3>2, <3>3
  <2>3. CASE q.op = "fetch"
    <3>1. u = send_rows(t, q.cursor, q.fetch)
      BY <1>3, <2>3 DEF Calls
    <3> QED BY <1>0, <2>3, <3>1, FetchTracks
  <2>4. CASE q.op = "commit"
    <3>1. PICK x \in Commits([log |-> t.db.log, kept |-> t.kept, moved |-> FALSE]) :
            u = Committed(t, x)
      BY <1>3, <2>4 DEF Calls
    <3> QED BY <1>3, <3>1, CommittedTracks
  <2>5. CASE q.op = "rollback"
    <3> DEFINE r == [t EXCEPT !.db.log = 0]
    <3>1. u = Reply(r, Message(FALSE, 0, 0, None))
      BY <1>3, <2>5 DEF Calls
    <3>2. Shaped(r)
      <4>1. t.db \in [log : Nat] /\ t.db # None
        BY <1>3 DEF Calling, Shaped
      <4>2. [t.db EXCEPT !.log = 0] \in [log : Nat]
        BY <4>1
      <4> QED BY <1>3, <4>1, <4>2, NoneAssumption DEF Calling, Shaped, Fields
    <3>3. SameCursors(r, t)
      BY DEF Calling, Shaped, Fields, SameCursors
    <3> HIDE DEF r
    <3> QED BY <3>1, <3>2, <3>3, SameCalling, ReplyTracks, MessageRows
  <2>6. CASE q.op = "ping"
    <3>1. u = Reply(t, Message(call_status(t), 0, 0, None))
      BY <1>3, <2>6 DEF Calls
    <3> QED BY <3>1, ReplyTracks, MessageRows
  <2>7. CASE q.op \notin {"execute", "reexecute", "fetch", "commit", "rollback", "ping"}
    <3>1. u = Fail(t, "3115")
      BY <1>3, <2>7 DEF Calls
    <3> QED BY <3>1, FailTracks
  <2> QED BY <2>1, <2>2, <2>3, <2>4, <2>5, <2>6, <2>7
<1> QED
  BY <1>1, <1>2, <1>3

(* dispatch: the cursors that a piggyback names are closed, as the client   *)
(* believes.                                                                *)
LEMMA DispatchTracks ==
  ASSUME PInv, NEW c \in Conn, Dispatch(c), Tracks(client[c], conn[c])
  PROVE  Tracks(client'[c], conn'[c])
<1> DEFINE s == conn[c]
           k == client[c]
           q == s.request
           t == [s EXCEPT !.cursors = Without(@, q.close)]
<1>1. s.phase = "dispatch" /\ client' = client
  BY DEF Dispatch
<1>2. Shaped(s) /\ Input(wire[c], k, s)
  BY Here
<1>3. k.sent # k.answered
  <2>1. k.sent = k.answered + 1 /\ k.answered \in Nat
    BY <1>1, <1>2 DEF Input, Busy
  <2> HIDE DEF k
  <2> QED BY <2>1, SMT
<1>4. /\ CursorsOk(s) /\ AskedOk(k.asked) /\ q = k.asked
      /\ s.next <= IdLimit => Agree(s.cursors, k.view, q.close)
  BY <1>1, <1>3 DEF Tracks, Views, Busy
<1> DEFINE cs == Without(s.cursors, q.close)
<1>5. /\ DOMAIN cs = DOMAIN s.cursors \ q.close
      /\ \A i \in DOMAIN cs : cs[i] = s.cursors[i]
  BY DEF Without
<1> HIDE DEF cs
<1>6. /\ Shaped(t) /\ t.cursors = cs /\ t.next = s.next /\ t.executed = s.executed
      /\ t.request = q
  <2>1. t = [s EXCEPT !.cursors = cs]
    BY <1>2 DEF Shaped, Fields, cs
  <2> HIDE DEF t
  <2> QED BY <1>2, <2>1 DEF Shaped, Fields
<1> HIDE DEF t
<1>7. Calling(k, t)
  <2>1. CursorsOk(t)
    BY <1>4, <1>5, <1>6 DEF CursorsOk
  <2>2. t.next <= IdLimit => Agree(t.cursors, k.view, {})
    BY <1>4, <1>5, <1>6 DEF Agree
  <2> QED BY <1>4, <1>6, <2>1, <2>2 DEF Calling
<1>8. PICK u \in CASE q.op = "protocol" -> {Reply(s, Message(None, 0, 0, None))}
                   [] q.op # "protocol" /\ q.malformed -> {Fail(t, "3115")}
                   [] OTHER -> Calls(t, q) : Become(c, u)
  BY DEF Dispatch, t
<1>9. conn'[c] = u
  BY <1>8 DEF Become, PInv, IInv
<1>10. Tracks(k, u)
  <2>1. CASE q.op = "protocol"
    <3>1. u = Reply(s, Message(None, 0, 0, None))
      BY <1>8, <2>1
    <3>2. q.close = {}
      BY <1>4, <2>1 DEF AskedOk
    <3>3. Calling(k, s)
      BY <1>2, <1>4, <3>2 DEF Calling
    <3> QED BY <3>1, <3>3, ReplyTracks, MessageRows
  <2>2. CASE q.op # "protocol" /\ q.malformed
    <3>1. u = Fail(t, "3115")
      BY <1>8, <2>2
    <3> QED BY <1>7, <3>1, FailTracks
  <2>3. CASE q.op # "protocol" /\ ~q.malformed
    <3>1. u \in Calls(t, t.request)
      BY <1>6, <1>8, <2>3
    <3> QED BY <1>7, <3>1, CallsTracks
  <2> QED BY <2>1, <2>2, <2>3
<1> QED
  BY <1>1, <1>9, <1>10

(* The executions of a call leave the cursors alone. *)
LEMMA SettleSame ==
  ASSUME NEW s, Shaped(s), Running(s), NEW d \in Db
  PROVE  LET t == Settle(s, d) IN
         /\ SameCursors(t, s) /\ t.phase = s.phase /\ Shaped(t)
         /\ t.call.cursor = s.call.cursor /\ t.call.fetch = s.call.fetch
         /\ t.call.sql = s.call.sql
<1> DEFINE t == Settle(s, d)
<1>1. Shaped(t) /\ t.phase = s.phase /\ t.call = [s.call EXCEPT !.moved = d.moved]
  BY SettleGood
<1>2. SameCursors(t, s)
  BY DEF Shaped, Fields, Settle, SameCursors
<1> HIDE DEF t
<1>3. t.call.cursor = s.call.cursor /\ t.call.fetch = s.call.fetch /\ t.call.sql = s.call.sql
  BY <1>1 DEF Running, CallFields
<1> QED
  BY <1>1, <1>2, <1>3 DEF t

(* An execution that succeeds leaves the cursors alone.                     *)
LEMMA RanTracks ==
  ASSUME NEW k, NEW s, Shaped(s), Running(s), s.phase = "executing", Tracks(k, s),
         k.sent # k.answered, NEW d \in Db, NEW rows
  PROVE  Tracks(k, Ran(Settle(s, d), rows))
<1> DEFINE t == Settle(s, d)
           call == [t.call EXCEPT !.left = @ - 1, !.affected = @ + rows]
           u == [t EXCEPT !.call = call]
<1>1. /\ SameCursors(t, s) /\ t.phase = s.phase /\ Shaped(t)
      /\ t.call.cursor = s.call.cursor /\ t.call.fetch = s.call.fetch
      /\ t.call = [s.call EXCEPT !.moved = d.moved]
  BY SettleSame, SettleGood
<1>2. Ran(Settle(s, d), rows) = u
  BY DEF Ran
<1> HIDE DEF t
<1>3. call.cursor = s.call.cursor /\ call.fetch = s.call.fetch
  <2>1. t.call = [f \in CallFields |-> t.call[f]]
    BY <1>1 DEF Running, CallFields
  <2> QED BY <1>1, <2>1 DEF CallFields
<1> HIDE DEF call
<1>4. SameCursors(u, t) /\ u.phase = t.phase /\ u.call = call
  BY <1>1 DEF Shaped, Fields, SameCursors
<1> HIDE DEF u
<1>5. SameCursors(u, s) /\ u.phase = "executing"
  BY <1>1, <1>4 DEF SameCursors
<1>6. Tracks(k, u)
  BY <1>3, <1>4, <1>5 DEF Tracks, CursorsOk, SameCursors, Views, Early, Busy
<1> QED
  BY <1>2, <1>6

(* What a call in execution starts from. *)
LEMMA ExecutingCalls ==
  ASSUME NEW k, NEW s, Shaped(s), s.phase = "executing", Tracks(k, s), k.sent # k.answered
  PROVE  Calling(k, s)
  BY DEF Tracks, Calling, Views, Busy

(* One execution of the call, however it ends.                              *)
LEMMA ExecuteTracks ==
  ASSUME PInv, NEW c \in Conn, Execute(c), Tracks(client[c], conn[c]),
         client[c].sent # client[c].answered
  PROVE  Tracks(client'[c], conn'[c])
<1> DEFINE s == conn[c]
           k == client[c]
           Left(x) ==
             CASE x.end = "ok" -> Ran(Settle(s, x.db), x.rows)
               [] x.end = "unfit" ->
                    LET t == Settle(s, rollback_to(x.db, s.call.mark)) IN
                    Reply(t, Message(call_status(t), s.call.cursor, 0, "6502"))
               [] OTHER ->
                    LET t == Settle(s, x.db) IN
                    Reply(t, Message(call_status(t), s.call.cursor, s.call.affected, "error"))
<1>1. s.phase = "executing" /\ client' = client
  BY DEF Execute
<1>2. Shaped(s) /\ Running(s)
  BY <1>1, Here DEF Good
<1>3. PICK x \in Executions(s.call.sql, Session(s)) : Become(c, Left(x))
  BY DEF Execute
<1>4. x.db \in Db /\ rollback_to(x.db, s.call.mark) \in Db
  BY <1>2, <1>3, SessionDb, ExecutionsDb, RollbackDb DEF Running
<1>5. \A d \in Db : Calling(k, Settle(s, d))
  BY <1>1, <1>2, ExecutingCalls, SettleSame, SameCalling
<1>6. Tracks(k, Left(x))
  <2>1. CASE x.end = "ok"
    <3>1. Left(x) = Ran(Settle(s, x.db), x.rows)
      BY <2>1
    <3> QED BY <1>1, <1>2, <1>4, <3>1, RanTracks
  <2>2. CASE x.end # "ok"
    <3>1. \A d \in Db : \A status, cursor, count, error :
            Tracks(k, Reply(Settle(s, d), Message(status, cursor, count, error)))
      BY <1>5, ReplyTracks, MessageRows
    <3> HIDE DEF k
    <3> QED BY <1>4, <2>2, <3>1
  <2> QED BY <2>1, <2>2
<1> HIDE DEF Left
<1>7. conn'[c] = Left(x)
  BY <1>3 DEF Become, PInv, IInv
<1> QED
  BY <1>1, <1>6, <1>7

(* The cursor a call opens or replaces: its rows are all to be fetched.     *)
Opens(s, id, size, u) ==
  /\ Shaped(u) /\ CursorsOk(u) /\ u.request = s.request
  /\ id \in DOMAIN u.cursors /\ u.cursors[id].fetched = 0 /\ u.cursors[id].pending = size
  /\ u.next <= IdLimit => s.next <= IdLimit
  /\ \A v : Agree(s.cursors, v, {}) => Agree(u.cursors, v, {id})

(* The new cursor has an id below the next one, and the others stay.        *)
LEMMA DescribedCursors ==
  ASSUME NEW s, Shaped(s), CursorsOk(s), NEW id, id = s.next \/ id \in DOMAIN s.cursors,
         NEW size \in Nat
  PROVE  Opens(s, id, size, Described(s, id, size))
<1> DEFINE next == IF id = s.next THEN s.next + 1 ELSE s.next
           executed == IF s.call.sql = "query" THEN s.executed + 1 ELSE s.executed
           x == [sql |-> s.call.sql, pending |-> size, fetched |-> 0, tag |-> s.executed + 1]
           cs == Put(s.cursors, id, x)
           u == Described(s, id, size)
<1>1. u = [s EXCEPT !.next = next, !.executed = executed, !.cursors = cs]
  BY DEF Described, Shaped, Fields
<1>2. /\ DOMAIN cs = DOMAIN s.cursors \cup {id} /\ cs[id] = x
      /\ \A i \in DOMAIN s.cursors : i # id => cs[i] = s.cursors[i]
  BY DEF Put
<1>3. /\ s.next \in Nat /\ s.executed \in Nat
      /\ \A i \in DOMAIN s.cursors : i \in Nat /\ i < s.next /\ IsCursor(s.cursors[i])
  BY DEF CursorsOk
<1>4. next \in Nat /\ s.next <= next /\ id \in Nat /\ id < next /\ executed \in Nat
      /\ s.executed + 1 \in Nat \ {0}
  BY <1>3, SMT
<1>5. x.fetched = 0 /\ x.pending = size /\ IsCursor(x)
  <2> DEFINE tag == s.executed + 1
  <2>1. tag \in Nat \ {0}
    BY <1>4
  <2> HIDE DEF tag
  <2>2. x = [sql |-> s.call.sql, pending |-> size, fetched |-> 0, tag |-> tag]
    BY DEF tag
  <2> HIDE DEF x
  <2> QED BY <2>1, <2>2 DEF IsCursor, CursorFields
<1> HIDE DEF next, executed, cs, x, u
<1>6. /\ Shaped(u) /\ u.next = next /\ u.executed = executed /\ u.cursors = cs
      /\ u.request = s.request
  BY <1>1 DEF Shaped, Fields
<1>7. \A i \in DOMAIN s.cursors : i < next
  BY <1>3, <1>4, SMT
<1>8. CursorsOk(u)
  BY <1>2, <1>3, <1>4, <1>5, <1>6, <1>7 DEF CursorsOk
<1>9. next <= IdLimit => s.next <= IdLimit
  BY <1>3, <1>4, SizeAssumption, SMT
<1>10. \A v : Agree(s.cursors, v, {}) => Agree(u.cursors, v, {id})
  BY <1>2, <1>6 DEF Agree
<1> QED
  BY <1>2, <1>5, <1>6, <1>8, <1>9, <1>10 DEF Opens, u

(* The end of the call: the client learns of the execution with its first   *)
(* rows, or it is told of none and nothing is pending.                      *)
LEMMA FinishTracks ==
  ASSUME PInv, NEW c \in Conn, Finish(c), Tracks(client[c], conn[c]),
         client[c].sent # client[c].answered
  PROVE  Tracks(client'[c], conn'[c])
<1> DEFINE s == conn[c]
           k == client[c]
           id == IF s.call.cursor = 0 THEN s.next ELSE s.call.cursor
           K == IF s.call.commit THEN Commits(Session(s))
                ELSE {[ok |-> TRUE, db |-> Session(s)]}
           T(x) == Settle(s, x.db)
           U(x, size) == Described(T(x), id, size)
           Left(x, size) ==
             CASE ~x.ok ->
                    Reply(T(x), Message(FALSE, s.call.cursor, s.call.affected, "commit"))
               [] x.ok /\ s.call.sql = "query" -> send_rows(U(x, size), id, s.call.fetch)
               [] OTHER -> Reply(U(x, size), Message(call_status(U(x, size)), id,
                                                     s.call.affected, None))
<1>1. s.phase = "executing" /\ client' = client
  BY DEF Finish
<1>2. Shaped(s) /\ Running(s)
  BY <1>1, Here DEF Good
<1>3. PICK x \in K, size \in (IF s.call.sql = "query" THEN ResultSizes ELSE {0}) :
        Become(c, Left(x, size))
  BY DEF Finish
<1>4. size \in Nat /\ (s.call.sql # "query" => size = 0)
  <2>1. 0 \in Nat
    OBVIOUS
  <2> QED BY <1>3, <2>1, SizeAssumption
<1>5. x.db \in Db
  BY <1>2, <1>3, SessionDb, CommitsDb, SMT
<1> DEFINE t == T(x)
           u == U(x, size)
<1>6. /\ SameCursors(t, s) /\ Shaped(t) /\ t.phase = s.phase
  BY <1>2, <1>5, SettleSame
<1>7. u = Described(t, id, size)
  OBVIOUS
<1>8. Left(x, size) =
        CASE ~x.ok -> Reply(t, Message(FALSE, s.call.cursor, s.call.affected, "commit"))
          [] x.ok /\ s.call.sql = "query" -> send_rows(u, id, s.call.fetch)
          [] OTHER -> Reply(u, Message(call_status(u), id, s.call.affected, None))
  OBVIOUS
<1> HIDE DEF t, u, T, U, Left, K
<1>9. Calling(k, s)
  BY <1>1, <1>2, ExecutingCalls
<1>10. Calling(k, t)
  BY <1>6, <1>9, SameCalling
<1>11. /\ s.call.fetch \in Nat /\ k.asked.op \in {"execute", "reexecute"}
       /\ s.call.cursor = 0 \/ s.call.cursor \in DOMAIN s.cursors
  BY <1>1 DEF Tracks, Busy
<1>12. id = t.next \/ id \in DOMAIN t.cursors
  BY <1>6, <1>11 DEF SameCursors
<1> HIDE DEF id
<1>13. /\ Shaped(t) /\ CursorsOk(t) /\ AskedOk(k.asked) /\ t.request = k.asked
       /\ t.next <= IdLimit => Agree(t.cursors, k.view, {})
  BY <1>10 DEF Calling
<1>14. /\ Shaped(u) /\ CursorsOk(u) /\ u.request = t.request
       /\ id \in DOMAIN u.cursors /\ u.cursors[id].fetched = 0 /\ u.cursors[id].pending = size
       /\ u.next <= IdLimit => Agree(u.cursors, k.view, {id})
  <2>1. size \in Nat
    BY <1>4
  <2>2. Shaped(t) /\ CursorsOk(t)
    BY <1>13
  <2>3. Opens(t, id, size, Described(t, id, size))
    BY <1>12, <2>1, <2>2, DescribedCursors
  <2>4. Opens(t, id, size, u)
    BY <1>7, <2>3
  <2> QED BY <1>13, <2>4 DEF Opens
<1>15. Tracks(k, Left(x, size))
  <2>1. CASE ~x.ok
    <3>1. Left(x, size) = Reply(t, Message(FALSE, s.call.cursor, s.call.affected, "commit"))
      BY <1>8, <2>1
    <3> QED BY <1>10, <3>1, ReplyTracks, MessageRows
  <2>2. CASE x.ok /\ s.call.sql = "query"
    <3>1. Left(x, size) = send_rows(u, id, s.call.fetch)
      BY <1>8, <2>2
    <3>2. u.request = k.asked /\ u.request.op # "fetch"
      BY <1>11, <1>13, <1>14
    <3>3. Tracks(k, send_rows(u, id, s.call.fetch))
      BY <1>11, <1>13, <1>14, <3>2, QueryTracks
    <3> QED BY <3>1, <3>3
  <2>3. CASE x.ok /\ s.call.sql # "query"
    <3>1. Left(x, size) = Reply(u, Message(call_status(u), id, s.call.affected, None))
      BY <1>8, <2>3
    <3>2. ~(u.cursors[id].pending > 0)
      <4>1. u.cursors[id].pending = 0
        BY <1>4, <1>14, <2>3
      <4> HIDE DEF k, s
      <4> QED BY <4>1, SMT
    <3>3. u.next <= IdLimit => Agree(u.cursors, k.view, {})
      BY <1>14, <3>2 DEF Agree
    <3>4. Calling(k, u)
      BY <1>13, <1>14, <3>3 DEF Calling
    <3> QED BY <3>1, <3>4, ReplyTracks, MessageRows
  <2> QED BY <2>1, <2>2, <2>3
<1>16. conn'[c] = Left(x, size)
  BY <1>3 DEF Become, PInv, IInv
<1> QED
  BY <1>1, <1>15, <1>16

(* A connection that ends has no cursors. *)
LEMMA ClosedTracks ==
  ASSUME NEW k, NEW s, Shaped(s), Tracks(k, s)
  PROVE  Tracks(k, Closed(s))
<1> DEFINE u == Closed(s)
<1>1. /\ u.phase = "closed" /\ u.cursors = NoCursors /\ u.next = s.next
      /\ u.executed = s.executed
  BY DEF Closed, Shaped, Fields
<1>2. DOMAIN NoCursors = {}
  BY DEF NoCursors
<1> HIDE DEF u
<1>3. CursorsOk(u)
  BY <1>1, <1>2 DEF Tracks, CursorsOk
<1>4. Views(k, u)
  BY <1>1 DEF Views
<1>5. Tracks(k, u)
  BY <1>1, <1>2, <1>3, <1>4 DEF Tracks, Busy
<1> QED
  BY <1>5 DEF u

(* Between requests a session keeps its cursors, and before the first one   *)
(* it has none.                                                             *)
LEMMA IdleTracks ==
  ASSUME NEW k, NEW s, NEW u, Tracks(k, s),
         u.cursors = s.cursors, u.next = s.next, u.executed = s.executed,
         \/ s.phase \in Early /\ u.phase \in Early \cup {"reading"}
         \/ s.phase = "reading" /\ u.phase = "reading"
  PROVE  Tracks(k, u)
<1>1. CursorsOk(u)
  BY DEF Tracks, CursorsOk
<1>2. u.phase \in Early \cup {"reading"}
  OBVIOUS
<1>3. u.phase \in Early => s.phase \in Early
  BY DEF Early
<1>4. CASE s.phase \in Early
  <2>1. DOMAIN u.cursors = {}
    BY <1>4 DEF Tracks
  <2>2. \A v, closed : Agree(u.cursors, v, closed)
    BY <2>1 DEF Agree
  <2>3. Views(k, u)
    BY <1>2, <2>2 DEF Views, Early
  <2> QED BY <1>1, <1>2, <2>1, <2>3 DEF Tracks, Early, Busy
<1>5. CASE s.phase = "reading" /\ u.phase = "reading"
  <2>1. u.next <= IdLimit => Views(k, u)
    BY <1>5 DEF Tracks, Views
  <2> QED BY <1>1, <1>5, <2>1 DEF Tracks, Early, Busy
<1> QED
  BY <1>4, <1>5

(* What clients ask. *)
LEMMA RequestsAre ==
  ASSUME NEW c, NEW q \in Requests(c)
  PROVE  AskedOk(q)
<1>1. \A op : Call(op).fetch = 0 /\ Call(op).close = {} /\ Call(op).op = op
  BY DEF Call
<1>2. CASE q \in Logins \cup Others
  <2>1. CASE \E op : q = Call(op)
    BY <1>1, <2>1, SMT DEF AskedOk
  <2>2. CASE \E sql : q = [Call("auth2") EXCEPT !.sql = sql]
    BY <2>2, SMT DEF Call, AskedOk
  <2> QED BY <1>2, <2>1, <2>2 DEF Logins, Others
<1>3. CASE q \in Executes
  <2>1. \A sql, n, k : Executing(sql, n, k).fetch = 1 /\ Executing(sql, n, k).close = {}
    BY DEF Executing, Call
  <2>2. PICK sql, n, k : q = Executing(sql, n, k)
    BY <1>3, SMT DEF Executes
  <2>3. q.fetch = 1 /\ q.close = {}
    BY <2>1, <2>2
  <2> QED BY <2>3, SMT DEF AskedOk
<1>4. ASSUME NEW id, q \in OnCursor(id) PROVE AskedOk(q)
  <2>1. q.close = {}
    BY <1>4 DEF OnCursor, Call
  <2>2. q.fetch = 0 \/ q.fetch = 1 \/ \E n \in 1..2 : q.fetch = n
    BY <1>4 DEF OnCursor, Call
  <2> QED BY <2>1, <2>2, SMT DEF AskedOk
<1>5. ASSUME NEW id, q \in Closing(id) PROVE AskedOk(q)
  <2>1. q.op = "ping" /\ q.fetch = 0
    BY <1>5 DEF Closing, Call
  <2> QED BY <2>1, SMT DEF AskedOk
<1> QED
  BY <1>2, <1>3, <1>4, <1>5 DEF Requests

(* A client forgets the cursors it asks to close when it asks.              *)
LEMMA AskTracks ==
  ASSUME PInv, NEW c \in Conn, Ask(c), Tracks(client[c], conn[c])
  PROVE  Tracks(client'[c], conn'[c])
<1> DEFINE s == conn[c]
           k == client[c]
           n == k.sent + 1
<1>1. PICK q \in Requests(c) :
        client' = [client EXCEPT ![c].sent = n, ![c].asked = q,
                                 ![c].view = Without(@, q.close)]
  BY DEF Ask
<1>2. s.phase = "reading" /\ k.answered = k.sent /\ conn' = conn
  BY DEF Ask
<1>3. Counted(k)
  BY Here
<1> DEFINE view == Without(k.view, q.close)
           l == [k EXCEPT !.sent = n, !.asked = q, !.view = view]
<1>4. client'[c] = l
  <2>1. client = [d \in Conn |-> client[d]]
    BY DEF PInv
  <2> QED BY <1>1, <1>3, <2>1 DEF Counted, ClientFields
<1>5. /\ DOMAIN view = DOMAIN k.view \ q.close
      /\ \A i \in DOMAIN view : view[i] = k.view[i]
  BY DEF Without
<1> HIDE DEF view
<1>6. l.sent = n /\ l.answered = k.answered /\ l.asked = q /\ l.view = view
  BY <1>3 DEF Counted, ClientFields
<1>7. n # k.answered
  <2>1. k.sent \in Nat
    BY Here
  <2> HIDE DEF k
  <2> QED BY <1>2, <2>1, SMT
<1> HIDE DEF l, n
<1>8. AskedOk(q)
  BY RequestsAre
<1>9. s.next <= IdLimit => Agree(s.cursors, k.view, {})
  BY <1>2 DEF Tracks, Views
<1>10. s.next <= IdLimit => Agree(s.cursors, view, q.close)
  BY <1>5, <1>9 DEF Agree
<1>11. s.next <= IdLimit => Views(l, s)
  BY <1>2, <1>6, <1>7, <1>10 DEF Views
<1>12. Tracks(l, s)
  BY <1>2, <1>6, <1>8, <1>11 DEF Tracks, Early, Busy
<1> QED
  BY <1>2, <1>4, <1>12

(* A client that hangs up learns nothing more.                              *)
LEMMA HangUpTracks ==
  ASSUME PInv, NEW c \in Conn, HangUp(c), Tracks(client[c], conn[c])
  PROVE  Tracks(client'[c], conn'[c])
<1> DEFINE k == client[c]
           l == [k EXCEPT !.gone = TRUE]
<1>1. conn' = conn /\ client' = [client EXCEPT ![c].gone = TRUE]
  BY DEF HangUp
<1>2. Counted(k)
  BY Here
<1>3. client'[c] = l
  <2>1. client = [d \in Conn |-> client[d]]
    BY DEF PInv
  <2> QED BY <1>1, <2>1
<1>4. l.sent = k.sent /\ l.answered = k.answered /\ l.asked = k.asked /\ l.view = k.view
  BY <1>2 DEF Counted, ClientFields
<1> HIDE DEF l
<1>5. Tracks(l, conn[c])
  BY <1>4 DEF Tracks, Views
<1> QED
  BY <1>1, <1>3, <1>5

(* Connect and Accept. *)
LEMMA EarlyTracks ==
  ASSUME PInv, NEW c \in Conn, Connect(c) \/ Accept(c), Tracks(client[c], conn[c])
  PROVE  Tracks(client'[c], conn'[c])
<1> DEFINE s == conn[c]
<1>1. PICK phase \in {"backlog", "handshake"} : Become(c, [s EXCEPT !.phase = phase])
  BY DEF Connect, Accept
<1>2. client' = client /\ s.phase \in {"absent", "backlog"}
  BY DEF Connect, Accept
<1> DEFINE u == [s EXCEPT !.phase = phase]
<1>3. conn'[c] = u
  BY <1>1 DEF Become, PInv, IInv
<1>4. u.cursors = s.cursors /\ u.next = s.next /\ u.executed = s.executed /\ u.phase = phase
  BY Here DEF Shaped, Fields
<1> HIDE DEF u
<1>5. Tracks(client[c], u)
  <2>1. s.phase \in Early /\ u.phase \in Early \cup {"reading"}
    BY <1>1, <1>2, <1>4 DEF Early
  <2> QED BY <1>4, <2>1, IdleTracks
<1> QED
  BY <1>2, <1>3, <1>5

(* The handshake opens no cursor.                                           *)
LEMMA HandshakeTracks ==
  ASSUME PInv, NEW c \in Conn, Handshake(c), Tracks(client[c], conn[c])
  PROVE  Tracks(client'[c], conn'[c])
<1> DEFINE s == conn[c]
           k == client[c]
           p == Head(wire[c])
           greeted == [s EXCEPT !.phase = "reading"]
           more == [s EXCEPT !.phase = "connect data", !.old = p.part.old]
<1>1. s.phase \in {"handshake", "connect data"} /\ client' = client
  BY DEF Handshake
<1>2. Shaped(s)
  BY Here
<1>3. \E u \in {Closed(s), greeted, more} : Become(c, u)
  BY DEF Handshake, Greeted
<1>4. PICK u \in {Closed(s), greeted, more} : conn'[c] = u
  BY <1>3 DEF Become, PInv, IInv
<1>5. /\ greeted.cursors = s.cursors /\ greeted.next = s.next
      /\ greeted.executed = s.executed /\ greeted.phase = "reading"
      /\ more.cursors = s.cursors /\ more.next = s.next
      /\ more.executed = s.executed /\ more.phase = "connect data"
  BY <1>2 DEF Shaped, Fields
<1> HIDE DEF greeted, more
<1>6. Tracks(k, Closed(s))
  BY <1>2, ClosedTracks
<1>7. s.phase \in Early /\ greeted.phase \in Early \cup {"reading"}
      /\ more.phase \in Early \cup {"reading"}
  BY <1>1, <1>5 DEF Early
<1>8. Tracks(k, greeted)
  BY <1>5, <1>7, IdleTracks
<1>9. Tracks(k, more)
  BY <1>5, <1>7, IdleTracks
<1> QED
  BY <1>1, <1>4, <1>6, <1>8, <1>9

(* A request is handled when it is whole, and it is the one asked last.     *)
LEMMA ReadPacketTracks ==
  ASSUME PInv, NEW c \in Conn, ReadPacket(c), Tracks(client[c], conn[c])
  PROVE  Tracks(client'[c], conn'[c])
<1> DEFINE s == conn[c]
           k == client[c]
           p == Head(wire[c])
           u == Received(s, p, k.asked)
           parts == Append(s.buffer, p.part)
<1>1. s.phase = "reading" /\ wire[c] # << >> /\ Become(c, u) /\ client' = client
  BY DEF ReadPacket
<1>2. Input(wire[c], k, s) /\ Shaped(s)
  BY Here
<1>3. conn'[c] = u
  BY <1>1 DEF Become, PInv, IInv
<1>4. Input(Tail(wire[c]), k, u)
  <2> HIDE DEF u
  <2>1. u = Received(s, Head(wire[c]), k.asked)
    BY DEF u
  <2> QED BY <1>1, <1>2, <2>1, ReceivedInput
<1>5. Tracks(k, u)
  <2>1. CASE p.kind = "marker"
    <3>1. u = s
      BY <2>1 DEF Received
    <3> QED BY <3>1
  <2>2. CASE p.kind = "data" /\ ~p.eof /\ ~p.end
    <3> DEFINE t == [s EXCEPT !.buffer = parts]
    <3>1. u = t
      BY <2>2 DEF Received
    <3>2. t.cursors = s.cursors /\ t.next = s.next /\ t.executed = s.executed
          /\ t.phase = s.phase
      BY <1>2 DEF Shaped, Fields
    <3> HIDE DEF t, u
    <3>3. Tracks(k, t)
      BY <1>1, <3>2, IdleTracks
    <3> QED BY <3>1, <3>3
  <2>3. CASE p.kind = "data" /\ ~p.eof /\ p.end
    <3> DEFINE request == IF Whole(parts) THEN k.asked ELSE Call("unsupported")
               handled == IF Whole(parts) THEN parts[1].no ELSE 0
               t == [s EXCEPT !.phase = "dispatch", !.buffer = << >>,
                              !.request = request, !.handled = handled]
    <3>1. u = t
      BY <2>3 DEF Received
    <3> HIDE DEF u
    <3>2. ~Whole(parts) => handled = 0
      OBVIOUS
    <3>3. Whole(parts) => request = k.asked
      OBVIOUS
    <3> HIDE DEF request, handled, parts
    <3>4. /\ t.cursors = s.cursors /\ t.next = s.next /\ t.executed = s.executed
          /\ t.phase = "dispatch" /\ t.request = request /\ t.handled = handled
      BY <1>2 DEF Shaped, Fields
    <3> HIDE DEF t
    <3>5. handled = k.sent /\ k.sent = k.answered + 1 /\ k.answered \in Nat
      BY <1>4, <3>1, <3>4 DEF Input, Busy
    <3>6. handled # 0 /\ k.sent # k.answered
      <4> HIDE DEF k
      <4> QED BY <3>5, SMT
    <3>7. t.request = k.asked
      BY <3>2, <3>3, <3>4, <3>6
    <3>8. t.next <= IdLimit => Views(k, t)
      BY <1>1, <3>4 DEF Tracks, Views
    <3>9. CursorsOk(t)
      BY <3>4 DEF Tracks, CursorsOk
    <3>10. Tracks(k, t)
      BY <3>4, <3>7, <3>8, <3>9 DEF Tracks, Early, Busy
    <3> QED BY <3>1, <3>10
  <2>4. CASE p.kind # "marker" /\ ~(p.kind = "data" /\ ~p.eof)
    <3>1. u = Closed(s)
      BY <2>4 DEF Received
    <3> QED BY <1>2, <3>1, ClosedTracks
  <2> QED BY <2>1, <2>2, <2>3, <2>4
<1> QED
  BY <1>1, <1>3, <1>5

(* The client learns what the reply says. *)
LEMMA WriteReplyTracks ==
  ASSUME PInv, NEW c \in Conn, WriteReply(c), Tracks(client[c], conn[c])
  PROVE  Tracks(client'[c], conn'[c])
<1> DEFINE s == conn[c]
           k == client[c]
           u == [s EXCEPT !.phase = "reading", !.reply = None, !.call = None, !.request = None]
           view == Seen(k.view, s.request, s.reply)
           l == [k EXCEPT !.answered = @ + 1, !.asked = None, !.view = view]
<1>1. s.phase = "reply"
  BY DEF WriteReply
<1>2. Counted(k) /\ Input(wire[c], k, s) /\ Shaped(s)
  BY Here
<1>3. k.sent = k.answered + 1
  BY <1>1, <1>2 DEF Input, Busy
<1>4. CASE Become(c, u) /\ client' = [client EXCEPT ![c].answered = @ + 1, ![c].asked = None,
                                        ![c].view = Seen(@, s.request, s.reply)]
  <2>1. client'[c] = l
    <3>1. client = [d \in Conn |-> client[d]]
      BY DEF PInv
    <3> QED BY <1>2, <1>4, <3>1 DEF Counted, ClientFields
  <2>2. conn'[c] = u
    BY <1>4 DEF Become, PInv, IInv
  <2>3. s.next <= IdLimit => Agree(s.cursors, view, {})
    BY <1>1 DEF Tracks, Views
  <2> HIDE DEF view
  <2>4. l.sent = k.sent /\ l.answered = k.answered + 1 /\ l.view = view
    BY <1>2 DEF Counted, ClientFields
  <2>5. u.phase = "reading" /\ u.cursors = s.cursors /\ u.next = s.next
        /\ u.executed = s.executed
    BY <1>2 DEF Shaped, Fields
  <2> HIDE DEF l, u
  <2>6. l.sent = l.answered
    BY <1>3, <2>4
  <2>7. u.next <= IdLimit => Views(l, u)
    BY <2>3, <2>4, <2>5, <2>6 DEF Views
  <2>8. CursorsOk(u)
    BY <2>5 DEF Tracks, CursorsOk
  <2>9. Tracks(l, u)
    BY <2>5, <2>6, <2>7, <2>8 DEF Tracks, Early, Busy
  <2> QED BY <2>1, <2>2, <2>9
<1>5. CASE Become(c, Closed(s)) /\ client' = client
  <2>1. conn'[c] = Closed(s)
    BY <1>5 DEF Become, PInv, IInv
  <2> QED BY <1>2, <1>5, <2>1, ClosedTracks
<1> QED
  BY <1>4, <1>5 DEF WriteReply

-----------------------------------------------------------------------------
(* The invariant of the connections and their clients.                      *)
TInv == PInv /\ \A c \in Conn : Tracks(client[c], conn[c])

(* Every step of a connection.                                              *)
LEMMA StepTracks ==
  ASSUME PInv, NEW c \in Conn, OneStep(c), Tracks(client[c], conn[c])
  PROVE  Tracks(client'[c], conn'[c])
<1>1. conn[c].phase \in Busy => client[c].sent # client[c].answered
  <2> DEFINE k == client[c]
  <2>1. conn[c].phase \in Busy => k.sent = k.answered + 1
    BY Here DEF Input
  <2>2. k.answered \in Nat
    BY Here DEF Input
  <2> HIDE DEF k
  <2>3. conn[c].phase \in Busy => k.sent # k.answered
    BY <2>1, <2>2, SMT
  <2> QED BY <2>3 DEF k
<1>2. CASE Execute(c) \/ Finish(c)
  <2>1. client[c].sent # client[c].answered
    BY <1>1, <1>2 DEF Execute, Finish, Busy
  <2> QED BY <1>2, <2>1, ExecuteTracks, FinishTracks
<1> QED
  BY <1>2, AskTracks, HangUpTracks, EarlyTracks, HandshakeTracks, ReadPacketTracks,
     DispatchTracks, WriteReplyTracks DEF OneStep, Serve

(* No connection has a cursor at first.                                     *)
LEMMA InitTInv == Init => TInv
<1> SUFFICES ASSUME Init PROVE TInv
  OBVIOUS
<1>1. PInv
  BY InitPInv
<1>2. NewSession.phase = "absent" /\ NewSession.cursors = NoCursors /\ NewSession.next = 1
      /\ NewSession.executed = 0
  BY DEF NewSession
<1>3. NewClient.sent = NewClient.answered
  BY DEF NewClient
<1>4. DOMAIN NoCursors = {}
  BY DEF NoCursors
<1>5. CursorsOk(NewSession)
  <2>1. 1 \in Nat /\ 0 \in Nat
    OBVIOUS
  <2> QED BY <1>2, <1>4, <2>1 DEF CursorsOk
<1>6. Views(NewClient, NewSession)
  BY <1>2 DEF Views
<1>7. Tracks(NewClient, NewSession)
  BY <1>2, <1>3, <1>4, <1>5, <1>6 DEF Tracks, Busy
<1>8. \A c \in Conn : client[c] = NewClient /\ conn[c] = NewSession
  BY DEF Init
<1> QED
  BY <1>1, <1>7, <1>8 DEF TInv

(* Other connections stay as they were.                                     *)
LEMMA NextTInv == TInv /\ [Next]_vars => TInv'
<1> SUFFICES ASSUME TInv, [Next]_vars PROVE TInv'
  OBVIOUS
<1>1. PInv /\ \A c \in Conn : Tracks(client[c], conn[c])
  BY DEF TInv
<1>2. PInv'
  BY <1>1, NextPInv
<1>3. CASE UNCHANGED <<wire, client, conn>>
  BY <1>1, <1>2, <1>3 DEF TInv
<1>4. CASE Break
  <2>1. ASSUME NEW c \in Conn PROVE Tracks(client'[c], conn'[c])
    <3>1. client' = client
          /\ conn'[c] = IF conn[c].phase = "backlog" THEN Closed(conn[c]) ELSE conn[c]
      BY <1>4 DEF Break
    <3>2. Shaped(conn[c])
      BY <1>1, Here
    <3>3. Tracks(client[c], Closed(conn[c]))
      BY <1>1, <3>2, ClosedTracks
    <3> QED BY <1>1, <3>1, <3>3
  <2> QED BY <1>2, <2>1 DEF TInv
<1>5. ASSUME NEW c \in Conn, OneStep(c) PROVE TInv'
  <2>1. PICK w, k, s : Moves(c, w, k, s)
    BY <1>1, <1>5, StepAllowed DEF Allowed
  <2>2. /\ \A d \in Conn : wire'[d] = IF d = c THEN w ELSE wire[d]
        /\ \A d \in Conn : client'[d] = IF d = c THEN k ELSE client[d]
        /\ \A d \in Conn : conn'[d] = IF d = c THEN s ELSE conn[d]
        /\ wire' = [d \in Conn |-> wire'[d]] /\ client' = [d \in Conn |-> client'[d]]
    BY <1>1, <2>1, Moved
  <2>3. Tracks(client'[c], conn'[c])
    BY <1>1, <1>5, StepTracks
  <2>4. \A d \in Conn : Tracks(client'[d], conn'[d])
    BY <1>1, <2>2, <2>3
  <2> QED BY <1>2, <2>4 DEF TInv
<1> QED
  BY <1>3, <1>4, <1>5 DEF Next, vars, OneStep

(* The rows a fetch returns are the next ones of the last execution that    *)
(* succeeded on that cursor, for any number of connections, cursors and     *)
(* requests and results of any size, while cursor ids fit a reply           *)
(* (session.rs run_statement, send_rows).                                   *)
THEOREM FetchesFollow == Spec => []FetchFollowsExecute
<1>1. Spec => []TInv
  BY InitTInv, NextTInv, PTL DEF Spec
<1>2. TInv => FetchFollowsExecute
  BY DEF TInv, Tracks, Views, NextRows, FetchFollowsExecute
<1> QED
  BY <1>1, <1>2, PTL

=============================================================================
