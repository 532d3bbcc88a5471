------------------------------ MODULE Connection ------------------------------
(***************************************************************************)
(* The connections of a server (mock-oracle-server session.rs, tns.rs):    *)
(* handshake, requests read packet by packet, login in two phases,         *)
(* statements executed once per bind row, cursors and their fetches, and   *)
(* the reply.  Every connection is a task of its own: a step of the model  *)
(* runs from one await, or one call into the database, to the next.        *)
(*                                                                         *)
(* A request is a record of what its bytes mean; `malformed` stands for    *)
(* bytes no read function accepts.  The database session is reduced to     *)
(* what a connection observes of it: `log`, the number of uncommitted      *)
(* changes.  That a COMMIT may fail, and what a failing statement undoes,  *)
(* is the business of module Transactions.  A change is one row.           *)
(*                                                                         *)
(* History: requests carry serial numbers, `kept` counts a connection's    *)
(* committed changes, and a client remembers in `view` which execution a   *)
(* cursor id was reported for and how many of its rows it got.             *)
(***************************************************************************)
EXTENDS Server, Sequences, FiniteSets

CONSTANTS
  Conn,
  Sql,            (* the kinds of statement clients execute                 *)
  ResultSizes,    (* the numbers of rows queries return                     *)
  IdLimit,        (* 2^16: cursor ids are 32 bits wide, 16 in a reply       *)
  MaxRequests,    (* bound: the requests of a connection                    *)
  MaxAtStop,      (* bound: its requests if stop() is called                *)
  MaxRuns         (* bound: the executions of one request                   *)

(* None is no caller, no error and no database session.                     *)
ASSUME NoneAssumption == None \notin Caller /\ None # "commit" /\ None \notin [log : Nat]

(* A reply carries some bits of a cursor id, and a query returns some rows. *)
ASSUME SizeAssumption == IdLimit \in Nat \ {0} /\ ResultSizes \subseteq Nat

VARIABLES
  wire,           (* the packets sent to the server and not read yet        *)
  client,         (* history, and whether the client has hung up            *)
  conn            (* the Session of every connection                        *)

vars == <<serverVars, wire, client, conn>>

-----------------------------------------------------------------------------
NoCursors == [i \in {} |-> None]
Put(cs, id, x) == [i \in DOMAIN cs \cup {id} |-> IF i = id THEN x ELSE cs[i]]
Without(cs, ids) == [i \in DOMAIN cs \ ids |-> cs[i]]

NewClient == [gone |-> FALSE, sent |-> 0, answered |-> 0, asked |-> None,
              view |-> NoCursors]

(* Session::new.  `buffer` is the request read so far, `call` the locals of *)
(* run_statement, `executed` numbers the queries executed (history).        *)
NewSession ==
  [phase |-> "absent", buffer |-> << >>, request |-> None, login |-> "None",
   db |-> None, cursors |-> NoCursors, next |-> 1, call |-> None, reply |-> None,
   old |-> FALSE, handled |-> 0, kept |-> 0, executed |-> 0]

Init ==
  /\ ServerInit
  /\ wire = [c \in Conn |-> << >>]
  /\ client = [c \in Conn |-> NewClient]
  /\ conn = [c \in Conn |-> NewSession]

Become(c, s) == conn' = [conn EXCEPT ![c] = s]

(* The task ends: the Session is dropped, and with it the database session, *)
(* which rolls its transaction back.                                        *)
Closed(s) == [s EXCEPT !.phase = "closed", !.db = None, !.login = "None",
                       !.cursors = NoCursors, !.call = None, !.reply = None,
                       !.buffer = << >>, !.request = None]

-----------------------------------------------------------------------------
(* The client.  It awaits the reply to a request before it sends the next.  *)
Packet(kind) == [kind |-> kind, part |-> None, end |-> FALSE, eof |-> FALSE]
Data(part, end) == [Packet("data") EXCEPT !.part = part, !.end = end]
Send(c, packets) == wire' = [wire EXCEPT ![c] = @ \o packets]

(* CONNECT: from a client older than version 3.15 or not, with its connect  *)
(* data in the packet or, too long for it, in a second one; or something    *)
(* else.                                                                    *)
Connect(c) ==
  /\ server = "listening"
  /\ conn[c].phase = "absent"
  /\ \E old, long \in BOOLEAN, first \in {"connect", "other"} :
       Send(c, << [Packet(first) EXCEPT !.part = [old |-> old, long |-> long]] >>
               \o (IF long THEN <<Data(None, FALSE)>> ELSE << >>))
  /\ Become(c, [conn[c] EXCEPT !.phase = "backlog"])
  /\ UNCHANGED <<serverVars, client>>

(* What a client may ask next.  A login may carry a statement, to set the   *)
(* session up; a piggyback closes cursors in front of the call; a request   *)
(* may turn out malformed before it or behind it.                           *)
Call(op) == [op |-> op, close |-> {}, cursor |-> 0, sql |-> None, runs |-> 1,
             fetch |-> 0, commit |-> FALSE, malformed |-> FALSE]
Logins ==
  {Call(op) : op \in {"auth1", "auth2", "wrong password", "bad verifier"}}
  \cup {[Call("auth2") EXCEPT !.sql = q] : q \in Sql}
Executing(q, n, k) ==
  [Call("execute") EXCEPT !.sql = q, !.runs = n, !.fetch = 1, !.commit = k]
Executes == {Executing(q, n, k) : q \in Sql, n \in 1..MaxRuns, k \in BOOLEAN}
OnCursor(id) ==
  {[Call("reexecute") EXCEPT !.cursor = id, !.runs = n] : n \in 1..MaxRuns}
  \cup {[Call("execute") EXCEPT !.cursor = id, !.fetch = 1, !.commit = TRUE]}
  \cup {[Call("fetch") EXCEPT !.cursor = id, !.fetch = n] : n \in 1..2}
Others == {Call(op) : op \in {"protocol", "commit", "rollback", "ping", "unsupported"}}
Closing(id) == {[Call("ping") EXCEPT !.close = {id}, !.malformed = m] : m \in BOOLEAN}
Requests(c) ==
  LET ids == DOMAIN client[c].view \cup {1} IN
  Logins \cup Executes \cup Others
  \cup UNION {OnCursor(id) \cup Closing(id) : id \in ids}

(* A request travels in one DATA packet or in two, a marker between them.   *)
Ask(c) ==
  LET n == client[c].sent + 1 IN
  /\ conn[c].phase = "reading" /\ ~client[c].gone
  /\ client[c].answered = client[c].sent /\ wire[c] = << >>
  /\ n <= IF \A p \in Caller : caller[p] = "idle" THEN MaxRequests ELSE MaxAtStop
  /\ \E q \in Requests(c), split \in BOOLEAN :
       /\ Send(c, IF split
                  THEN <<Data([no |-> n, half |-> 1], FALSE), Packet("marker"),
                         Data([no |-> n, half |-> 2], TRUE)>>
                  ELSE <<Data([no |-> n, half |-> 0], TRUE)>>)
       /\ client' = [client EXCEPT ![c].sent = n, ![c].asked = q,
                                   ![c].view = Without(@, q.close)]
  /\ UNCHANGED <<serverVars, conn>>

(* The client hangs up: the connection breaks, or a DATA packet with the    *)
(* EOF flag is the last; half a request, or a packet of an unknown kind,    *)
(* may come before it.                                                      *)
HangUp(c) ==
  /\ conn[c].phase \notin {"absent", "closed"} /\ ~client[c].gone
  /\ client' = [client EXCEPT ![c].gone = TRUE]
  /\ \E packets \in
          {<<Packet("end")>>, <<Packet("other")>>,
           <<Data([no |-> 0, half |-> 1], FALSE), [Data(None, FALSE) EXCEPT !.eof = TRUE]>>} :
       Send(c, packets)
  /\ UNCHANGED <<serverVars, conn>>

-----------------------------------------------------------------------------
(* The accept loop takes a connection; when it breaks, the listener is      *)
(* dropped with the connections that still wait.  Those it accepted go on.  *)
Accept(c) ==
  /\ server = "listening" /\ conn[c].phase = "backlog"
  /\ Become(c, [conn[c] EXCEPT !.phase = "handshake"])
  /\ UNCHANGED <<serverVars, wire, client>>

Break ==
  /\ BreakLoop
  /\ conn' = [c \in Conn |-> IF conn[c].phase = "backlog" THEN Closed(conn[c]) ELSE conn[c]]
  /\ UNCHANGED <<wire, client>>

(* handshake: ACCEPT, or REFUSE to a client that is too old.                *)
Greeted(s, old) == IF old THEN Closed(s) ELSE [s EXCEPT !.phase = "reading"]
Handshake(c) ==
  LET s == conn[c]
      p == Head(wire[c])
  IN
  /\ s.phase \in {"handshake", "connect data"} /\ wire[c] # << >>
  /\ Become(c, CASE p.kind = "end" -> Closed(s)
                 [] p.kind # "end" /\ s.phase = "connect data" -> Greeted(s, s.old)
                 [] OTHER ->
                      IF p.kind # "connect" THEN Closed(s)
                      ELSE IF p.part.long
                      THEN [s EXCEPT !.phase = "connect data", !.old = p.part.old]
                      ELSE Greeted(s, p.part.old))
  /\ wire' = [wire EXCEPT ![c] = Tail(@)]
  /\ UNCHANGED <<serverVars, client>>

-----------------------------------------------------------------------------
(* read_request: DATA packets are put together until one ends the request.  *)
Whole(parts) ==
  \/ Len(parts) = 1 /\ parts[1].half = 0
  \/ Len(parts) = 2 /\ parts[1].no = parts[2].no /\ parts[1].half = 1 /\ parts[2].half = 2

(* Mutant: a marker throws away what was read of the request. *)
ReadMarkerResets(s, p, asked) ==
  CASE p.kind = "marker" -> [s EXCEPT !.buffer = << >>]
    [] p.kind = "data" /\ ~p.eof ->
         LET parts == Append(s.buffer, p.part) IN
         IF ~p.end THEN [s EXCEPT !.buffer = parts]
         ELSE [s EXCEPT !.phase = "dispatch", !.buffer = << >>,
                        !.request = IF Whole(parts) THEN asked ELSE Call("unsupported"),
                        !.handled = IF Whole(parts) THEN parts[1].no ELSE 0]
    [] OTHER -> Closed(s)

Received(s, p, asked) ==
  CASE p.kind = "marker" -> s
    [] p.kind = "data" /\ ~p.eof ->
         LET parts == Append(s.buffer, p.part) IN
         IF ~p.end THEN [s EXCEPT !.buffer = parts]
         ELSE [s EXCEPT !.phase = "dispatch", !.buffer = << >>,
                        !.request = IF Whole(parts) THEN asked ELSE Call("unsupported"),
                        !.handled = IF Whole(parts) THEN parts[1].no ELSE 0]
    [] OTHER -> Closed(s)

ReadPacket(c) ==
  /\ conn[c].phase = "reading" /\ wire[c] # << >>
  /\ Become(c, Received(conn[c], Head(wire[c]), client[c].asked))
  /\ wire' = [wire EXCEPT ![c] = Tail(@)]
  /\ UNCHANGED <<serverVars, client>>

-----------------------------------------------------------------------------
(* The end-of-call message of a reply: whether a transaction is open, the   *)
(* cursor (16 bits of its id), the row count, the error; and the rows in    *)
(* front of it: the `n` rows from the `from`th on of execution `tag`.       *)
NoRows == [tag |-> 0, from |-> 0, n |-> 0]
Message(status, cursor, count, error) ==
  [status |-> status, cursor |-> cursor % IdLimit, count |-> count, error |-> error,
   rows |-> NoRows]
Reply(s, message) == [s EXCEPT !.phase = "reply", !.reply = message]

(* Mutant: a session counts as a transaction. *)
StatusBySession(s) == s.db # None

(* call_status *)
call_status(s) == IF s.db = None THEN FALSE ELSE s.db.log > 0

Fail(s, error) == Reply(s, Message(call_status(s), 0, 0, error))

(* Mutant: the rows sent stay pending. *)
SendRowsUndrained(s, id, max) ==
  IF id \notin DOMAIN s.cursors THEN Fail(s, "1001")
  ELSE LET k == s.cursors[id]
           n == IF max < k.pending THEN max ELSE k.pending
       IN  Reply(s, [Message(call_status(s), id, k.fetched + n, None) EXCEPT
                       !.rows = [tag |-> k.tag, from |-> k.fetched, n |-> n]])

(* send_rows: up to max pending rows, then ORA-01403 if they were the last. *)
send_rows(s, id, max) ==
  IF id \notin DOMAIN s.cursors THEN Fail(s, "1001")
  ELSE LET k == s.cursors[id]
           n == IF max < k.pending THEN max ELSE k.pending
           left == [k EXCEPT !.pending = @ - n, !.fetched = @ + n]
       IN  Reply([s EXCEPT !.cursors = Put(@, id, left)],
                 [Message(call_status(s), id, k.fetched + n,
                          IF k.pending = n THEN "1403" ELSE None) EXCEPT
                    !.rows = [tag |-> k.tag, from |-> k.fetched, n |-> n]])

-----------------------------------------------------------------------------
(* The database session.  COMMIT publishes the log, or fails and loses it;  *)
(* `moved` notes that the session committed since the savepoint.            *)
Commits(d) ==
  {[ok |-> TRUE, db |-> [log |-> 0, kept |-> d.kept + d.log, moved |-> TRUE]]}
  \cup (IF d.log = 0 THEN {}
        ELSE {[ok |-> FALSE, db |-> [log |-> 0, kept |-> d.kept, moved |-> TRUE]]})

(* One execution of a statement: what it leaves of the session, the rows it *)
(* reports, and how it ends.  "unfit" is a success whose OUT values do not  *)
(* fit the client's binds.  A block that fails keeps what it committed.     *)
Outcome(d, rows, end) == [db |-> d, rows |-> rows, end |-> end]
More(d) == [d EXCEPT !.log = @ + 1]
Executions(sql, d) ==
  CASE sql = "query" -> {Outcome(d, 0, "ok"), Outcome(d, 0, "error")}
    [] sql = "dml" -> {Outcome(More(d), 1, "ok"), Outcome(More(d), 1, "unfit"),
                       Outcome(d, 0, "error")}
    [] sql = "block" ->
         {Outcome(More(d), 0, "ok"), Outcome(More(d), 0, "unfit"), Outcome(d, 0, "error")}
         \cup UNION {IF k.ok THEN {Outcome(More(k.db), 0, "ok"), Outcome(More(k.db), 0, "unfit"),
                                    Outcome(k.db, 0, "error")}
                     ELSE {Outcome(k.db, 0, "error")} : k \in Commits(d)}
    [] OTHER ->                                                       (* DDL *)
         UNION {IF k.ok THEN {Outcome(k.db, 0, "ok"), Outcome(k.db, 0, "error")}
                ELSE {Outcome(k.db, 0, "error")} : k \in Commits(d)}

(* Mutant: the executions before the OUT value that did not fit stay. *)
KeepExecutions(d, mark) == d

(* rollback_to *)
rollback_to(d, mark) ==
  LET keep == IF d.moved THEN 0 ELSE mark IN
  [d EXCEPT !.log = IF keep < @ THEN keep ELSE @]

-----------------------------------------------------------------------------
(* run_statement *)
Run(s, id, sql, runs, fetch, commit) ==
  [s EXCEPT !.phase = "executing",
            !.call = [cursor |-> id, sql |-> sql, left |-> runs, fetch |-> fetch,
                      commit |-> commit, mark |-> s.db.log, moved |-> FALSE,
                      affected |-> 0, before |-> s.db.log + s.kept]]

(* execute: a statement that comes with its SQL gets a new cursor, one that *)
(* names a cursor takes its SQL from it.  A cursor is executed again with   *)
(* reexecute too, a query only once.                                        *)
execute(s, q) ==
  CASE q.sql # None -> Run(s, 0, q.sql, q.runs, q.fetch, q.commit)
    [] q.sql = None /\ q.cursor \in DOMAIN s.cursors ->
         Run(s, q.cursor, s.cursors[q.cursor].sql, q.runs, q.fetch, q.commit)
    [] OTHER -> Fail(s, "1001")

reexecute(s, q) ==
  IF q.cursor \notin DOMAIN s.cursors THEN Fail(s, "1001")
  ELSE LET k == s.cursors[q.cursor] IN
       Run(s, q.cursor, k.sql, IF k.sql = "query" THEN 1 ELSE q.runs, q.fetch, q.commit)

Session(s) == [log |-> s.db.log, kept |-> s.kept, moved |-> s.call.moved]
Settle(s, d) == [s EXCEPT !.db.log = d.log, !.kept = d.kept, !.call.moved = d.moved]

Ran(s, rows) ==
  [s EXCEPT !.call = [s.call EXCEPT !.left = @ - 1, !.affected = @ + rows]]

(* One execution of the call: an error ends the call and keeps the          *)
(* executions before it, an OUT value that does not fit undoes them all.    *)
Execute(c) ==
  LET s == conn[c] IN
  /\ s.phase = "executing" /\ s.call.left > 0
  /\ \E x \in Executions(s.call.sql, Session(s)) :
       Become(c,
         CASE x.end = "ok" -> Ran(Settle(s, x.db), x.rows)
           [] x.end = "unfit" ->
                LET t == Settle(s, rollback_to(x.db, s.call.mark)) IN
                Reply(t, Message(call_status(t), s.call.cursor, 0, "6502"))
           [] OTHER ->
                LET t == Settle(s, x.db) IN
                Reply(t, Message(call_status(t), s.call.cursor, s.call.affected, "error")))
  /\ UNCHANGED <<serverVars, wire, client>>

(* The end of the call: the COMMIT the client asked for, the cursor, new or *)
(* replaced, and its first rows.                                            *)
Described(s, id, size) ==
  [s EXCEPT !.next = IF id = @ THEN @ + 1 ELSE @,
            !.executed = IF s.call.sql = "query" THEN @ + 1 ELSE @,
            !.cursors = Put(@, id, [sql |-> s.call.sql, pending |-> size, fetched |-> 0,
                                    tag |-> s.executed + 1])]

Finish(c) ==
  LET s == conn[c]
      id == IF s.call.cursor = 0 THEN s.next ELSE s.call.cursor
  IN
  /\ s.phase = "executing" /\ s.call.left = 0
  /\ \E k \in IF s.call.commit THEN Commits(Session(s))
              ELSE {[ok |-> TRUE, db |-> Session(s)]},
        size \in IF s.call.sql = "query" THEN ResultSizes ELSE {0} :
       LET t == Settle(s, k.db)
           u == Described(t, id, size)
       IN
       Become(c, CASE ~k.ok ->
                        Reply(t, Message(FALSE, s.call.cursor, s.call.affected, "commit"))
                   [] k.ok /\ s.call.sql = "query" -> send_rows(u, id, s.call.fetch)
                   [] OTHER -> Reply(u, Message(call_status(u), id, s.call.affected, None)))
  /\ UNCHANGED <<serverVars, wire, client>>

-----------------------------------------------------------------------------
(* auth_phase_one and auth_phase_two.  A database session that was open     *)
(* stays until the login succeeds, then a new one takes its place.          *)
Denied(s, error) == Reply([s EXCEPT !.login = "None"], Message(FALSE, 0, 0, error))

(* The statement that came with the login (AUTH_ALTER_SESSION) is executed  *)
(* in the new session; what becomes of it changes nothing in the reply,     *)
(* whose status is written already.                                         *)
Opened(s, sql) ==
  LET new == [log |-> 0, kept |-> s.kept, moved |-> FALSE] IN
  IF sql = None THEN {new} ELSE {x.db : x \in Executions(sql, new)}

(* Mutant: the login keeps whatever database session there was. *)
LoggedInAlone(s, d) == [s EXCEPT !.login = "LoggedIn", !.kept = d.kept]

LoggedIn(s, d) ==
  [s EXCEPT !.login = "LoggedIn", !.db = [log |-> d.log], !.kept = d.kept]

Authenticate(s, q) ==
  CASE q.op = "auth1" -> {Reply([s EXCEPT !.login = "Challenged"], Message(FALSE, 0, 0, None))}
    [] q.op # "auth1" /\ s.login # "Challenged" -> {Denied(s, "1017")}
    [] q.op = "bad verifier" /\ s.login = "Challenged" ->
         {Fail([s EXCEPT !.login = "None"], "3115")}
    [] q.op = "wrong password" /\ s.login = "Challenged" -> {Denied(s, "1017")}
    [] OTHER -> {Reply(LoggedIn(s, d), Message(FALSE, 0, 0, None)) : d \in Opened(s, q.sql)}

Committed(s, k) ==
  LET t == [s EXCEPT !.db.log = k.db.log, !.kept = k.db.kept] IN
  IF k.ok THEN Reply(t, Message(call_status(t), 0, 0, None)) ELSE Fail(t, "commit")

(* call, for a request that is well formed.                                 *)
Calls(s, q) ==
  CASE q.op \in {"auth1", "auth2", "wrong password", "bad verifier"} ->
         Authenticate(s, q)
    [] q.op \notin {"auth1", "auth2", "wrong password", "bad verifier"}
       /\ s.login # "LoggedIn" -> {Reply(s, Message(FALSE, 0, 0, "1012"))}
    [] q.op = "execute" /\ s.login = "LoggedIn" -> {execute(s, q)}
    [] q.op = "reexecute" /\ s.login = "LoggedIn" -> {reexecute(s, q)}
    [] q.op = "fetch" /\ s.login = "LoggedIn" -> {send_rows(s, q.cursor, q.fetch)}
    [] q.op = "commit" /\ s.login = "LoggedIn" ->
         {Committed(s, k) : k \in Commits([log |-> s.db.log, kept |-> s.kept, moved |-> FALSE])}
    [] q.op = "rollback" /\ s.login = "LoggedIn" ->               (* and LOGOFF *)
         {Reply([s EXCEPT !.db.log = 0], Message(FALSE, 0, 0, None))}
    [] q.op = "ping" /\ s.login = "LoggedIn" ->
         {Reply(s, Message(call_status(s), 0, 0, None))}
    [] OTHER -> {Fail(s, "3115")}

(* dispatch and function: the cursors a piggyback names are closed even if  *)
(* the rest of the request turns out malformed, which is an error reply and *)
(* not the end of the connection.                                           *)
Dispatch(c) ==
  LET s == conn[c]
      q == s.request
      t == [s EXCEPT !.cursors = Without(@, q.close)]
  IN
  /\ s.phase = "dispatch"
  /\ \E u \in CASE q.op = "protocol" -> {Reply(s, Message(None, 0, 0, None))}
                [] q.op # "protocol" /\ q.malformed -> {Fail(t, "3115")}
                [] OTHER -> Calls(t, q) :
       Become(c, u)
  /\ UNCHANGED <<serverVars, wire, client>>

(* write_data: the reply reaches the client, who notes what a cursor id     *)
(* stands for; or the client has gone, the write fails and the task ends.   *)
Seen(view, q, r) ==
  LET id == r.cursor IN
  CASE r.rows.tag = 0 -> view
    [] r.rows.tag # 0 /\ q.op = "fetch" ->
         IF id \in DOMAIN view THEN [view EXCEPT ![id].got = @ + r.rows.n] ELSE view
    [] OTHER -> Put(view, id, [tag |-> r.rows.tag, got |-> r.rows.n])

WriteReply(c) ==
  LET s == conn[c] IN
  /\ s.phase = "reply"
  /\ \/ /\ Become(c, [s EXCEPT !.phase = "reading", !.reply = None, !.call = None,
                               !.request = None])
        /\ client' = [client EXCEPT
             ![c].answered = @ + 1, ![c].asked = None,
             ![c].view = Seen(@, s.request, s.reply)]
     \/ /\ client[c].gone
        /\ Become(c, Closed(s))
        /\ UNCHANGED client
  /\ UNCHANGED <<serverVars, wire>>

-----------------------------------------------------------------------------
(* A step of a connection's task.                                           *)
Serve(c) ==
  \/ Handshake(c) \/ ReadPacket(c) \/ Dispatch(c) \/ Execute(c) \/ Finish(c)
  \/ WriteReply(c)

Lifecycle ==
  \/ Seed \/ Listen
  \/ \E p \in Caller :
       \/ StopCall(p) /\ \A c \in Conn : client[c].sent <= MaxAtStop
       \/ StopTake(p) \/ StopJoin(p)

Next ==
  \/ Lifecycle /\ UNCHANGED <<wire, client, conn>>
  \/ Break
  \/ \E c \in Conn : Connect(c) \/ Ask(c) \/ HangUp(c) \/ Accept(c) \/ Serve(c)

(* tokio polls every task that can go on, its select picks either branch    *)
(* that is ready, and a Mutex is handed on.  Clients owe nothing.           *)
Fairness ==
  /\ WF_vars(Break)
  /\ \A c \in Conn : WF_vars(Serve(c))
  /\ \A p \in Caller :
       /\ WF_vars(StopTake(p) /\ UNCHANGED <<wire, client, conn>>)
       /\ WF_vars(StopJoin(p) /\ UNCHANGED <<wire, client, conn>>)

Spec == Init /\ [][Next]_vars /\ Fairness

-----------------------------------------------------------------------------
(* Properties *)

(* A connection that may run calls has a database session, so that the      *)
(* `expect("logged in")` of db() cannot panic, whatever logins are repeated,*)
(* denied or left half done on the connection (session.rs db, call).        *)
LoggedInHasSession ==
  \A c \in Conn : conn[c].login = "LoggedIn" => conn[c].db # None

(* A reply to a client that is logged in says truly whether a transaction   *)
(* is open, also after an error, a failed COMMIT, or executions undone; and *)
(* so does the reply to a login.  Only if the login carried a statement may *)
(* its reply be silent about a transaction: the statement is executed after *)
(* the status was written, and may have opened one (session.rs call_status, *)
(* auth_phase_two and the status every reply is given).                     *)
CarriesStatement(q) == q.op = "auth2" /\ q.sql # None
StatusTellsTransaction ==
  \A c \in Conn : LET s == conn[c] IN
    s.phase = "reply" /\ s.login = "LoggedIn" /\ s.reply.status # None =>
      /\ s.reply.status => s.db.log > 0
      /\ s.db.log > 0 /\ ~CarriesStatement(s.request) => s.reply.status

(* The row count of the reply to an executeMany of DML is the number of its *)
(* rows that are kept, be it that all executions ran, that one failed or    *)
(* that an OUT value did not fit; when the COMMIT at the end failed nothing *)
(* uncommitted is kept (session.rs run_statement).                          *)
CountsKeptRows ==
  \A c \in Conn : LET s == conn[c] IN
    s.phase = "reply" /\ s.call # None /\ s.call.sql = "dml" =>
      IF s.reply.error = "commit" THEN s.db.log = 0
      ELSE s.db.log + s.kept = s.call.before + s.reply.count

(* The rows a fetch returns are the next ones of the last execution that    *)
(* succeeded on that cursor, for the cursor id the client was given, as     *)
(* long as ids fit the 16 bits they are reported in (session.rs             *)
(* run_statement, send_rows).                                               *)
FetchFollowsExecute ==
  \A c \in Conn : LET s == conn[c] IN
    s.phase = "reply" /\ s.request.op = "fetch" /\ s.reply.rows.n > 0 /\ s.next <= IdLimit =>
      LET v == client[c].view IN
      /\ s.request.cursor \in DOMAIN v
      /\ v[s.request.cursor] = [tag |-> s.reply.rows.tag, got |-> s.reply.rows.from]

(* The refinement: packets, markers, malformed requests, logins and         *)
(* executions are invisible to a client who counts requests and replies.    *)
Promise == INSTANCE RequestReply WITH
  sent <- [c \in Conn |-> client[c].sent],
  handled <- [c \in Conn |-> conn[c].handled],
  answered <- [c \in Conn |-> client[c].answered],
  open <- {c \in Conn : conn[c].phase # "closed"}

(* Connections keep the promise of RequestReply: one answer to every        *)
(* request, in order, unless the connection ends (session.rs run,           *)
(* read_request, dispatch).                                                 *)
KeepsPromise == Promise!Spec
=============================================================================
