------------------------------ MODULE Numbering ------------------------------
(***************************************************************************)
(* Sequences and identity columns: the counters of a Database that no      *)
(* transaction owns (lib.rs), NEXTVAL and CURRVAL in the rows of a         *)
(* statement (eval.rs), CREATE, ALTER and DROP SEQUENCE (session.rs), and  *)
(* the snapshots that save and restore rows together with the counters.    *)
(*                                                                         *)
(* Three locks guard the state: the RwLock of the catalog (`def`, `rows`), *)
(* the Mutex of `identities` and the Mutex of `sequences`.  A step of the  *)
(* model is what runs under one acquisition; `writer` holds the write lock *)
(* from one step to the next.  One sequence and one table with an identity *)
(* column stand for all: the maps are keyed by name and nothing crosses    *)
(* keys.  Unique keys and the choice between publishing and replaying a    *)
(* log belong to module Transactions; here a COMMIT adds its rows.         *)
(*                                                                         *)
(* `era` is history: it counts the events after which numbers may come     *)
(* again by design (a sequence or table created or dropped, ALTER, a wrap  *)
(* of CYCLE, restore), and every row remembers the era of its numbers.     *)
(***************************************************************************)
EXTENDS Integers, Sequences, FiniteSets

CONSTANTS
  Session, Admin,  (* threads that run statements; that snapshot, restore   *)
  None,
  Options,         (* the option lists CREATE and ALTER SEQUENCE may carry  *)
  Exprs,           (* rows: [insert, refs], refs the references in order     *)
  MaxDefault, MinDefault,  (* 28 nines and minus 27 nines in the code       *)
  Saturated,       (* the largest i128                                      *)
  MaxRows,         (* bound: rows a transaction holds                       *)
  MaxOps           (* bound: rows, DDL statements, snapshots and restores   *)

VARIABLES
  writer,          (* who holds the write lock of Database.state            *)
  def,             (* the sequence's definition in the catalog, or None     *)
  rows,            (* the committed rows, or None without the table         *)
  counter,         (* Database.sequences: the next value, or None           *)
  identity,        (* Database.identities: the next value, or None          *)
  saved,           (* the last complete Snapshot                            *)
  session,         (* the state of every session                            *)
  admin,           (* where each snapshot or restore is, and its copy       *)
  era,             (* history, see above                                    *)
  last,            (* history: the last value NEXTVAL handed out            *)
  ops              (* history: the operations started                       *)

vars == <<writer, def, rows, counter, identity, saved, session, admin, era, last, ops>>

ASSUME ThreadAssumption ==
  /\ Session \cap Admin = {}
  /\ None \notin Session /\ None \notin Admin /\ None \notin Int

(* The parser reads the numbers of an option as i128.                       *)
I128 == (-Saturated - 1)..Saturated

ASSUME OptionAssumption ==
  /\ Saturated \in Nat \ {0}
  /\ MaxDefault \in I128 /\ MinDefault \in I128
  /\ \A o \in Options :
       {o.start, o.increment, o.min, o.max, o.at} \subseteq I128 \cup {None}

ASSUME ExprAssumption ==
  \A e \in Exprs : e.refs \in Seq({"next", "curr", "sub"})

-----------------------------------------------------------------------------
(* sequence_def: the options of CREATE (old is None) or ALTER SEQUENCE.  A  *)
(* field of `o` is None when the option is not given; `nomin` and `nomax`   *)
(* are NOMINVALUE and NOMAXVALUE.                                           *)
Given(x, default) == IF x = None THEN default ELSE x

sequence_def(old, o) ==
  LET increment == Given(o.increment, IF old = None THEN 1 ELSE old.increment)
      lowest  == IF increment > 0 THEN 1 ELSE MinDefault
      highest == IF increment > 0 THEN MaxDefault ELSE -1
      min == Given(o.min, IF old = None \/ o.nomin THEN lowest ELSE old.min)
      max == Given(o.max, IF old = None \/ o.nomax THEN highest ELSE old.max)
      start == IF old # None THEN old.start
               ELSE Given(o.start, IF increment > 0 THEN min ELSE max)
      refused == \/ old # None /\ o.start # None          (* ORA-02283        *)
                 \/ increment = 0                         (* ORA-04002        *)
                 \/ min >= max                            (* ORA-04028        *)
                 \/ old = None /\ start < min             (* ORA-04006        *)
                 \/ old = None /\ start > max             (* ORA-04008        *)
  IN  IF refused THEN None
      ELSE [start |-> start, increment |-> increment, min |-> min, max |-> max,
            cycle |-> IF o.cycle # None THEN o.cycle
                      ELSE IF old # None THEN old.cycle ELSE FALSE]

(* next_sequence: the value NEXTVAL returns for definition d when the       *)
(* counter holds c, or None for ORA-08004.                                  *)
Reached(d, c) == Given(c, d.start)
Outside(d, v) == v > d.max \/ v < d.min
NextValue(d, c) ==
  LET v == Reached(d, c) IN
  CASE ~Outside(d, v) -> v
    [] Outside(d, v) /\ ~d.cycle -> None
    [] OTHER -> IF d.increment > 0 THEN d.min ELSE d.max
saturating_add(v, n) ==
  IF v + n > Saturated THEN Saturated
  ELSE IF v + n < -Saturated - 1 THEN -Saturated - 1 ELSE v + n

(* History: a value handed out by a CYCLE that wraps, or with a stale       *)
(* definition that counts the other way, may come again.                    *)
Turns(d, c) ==
  \/ Outside(d, Reached(d, c))
  \/ def # None /\ (def.increment > 0) # (d.increment > 0)

-----------------------------------------------------------------------------
(* A session: `currval` and `txn` (its uncommitted rows) outlive a          *)
(* statement, the rest are its locals.  `cached` is Env.row_sequences,      *)
(* `expr` the row being processed and `k` the reference it is at (0 in      *)
(* start_row), `def` the definition NEXTVAL read, `alter` and `peeked` the  *)
(* options of an ALTER and the counter it saw.  History: `stamp` is the era *)
(* of `currval`, `seen` what the row's references got, and `nested` whether *)
(* the row has evaluated a subquery.                                        *)
Fresh == [pc |-> "idle", cached |-> None, expr |-> << >>, k |-> 0, def |-> None,
          alter |-> None, peeked |-> None, insert |-> FALSE,
          seen |-> {}, nested |-> FALSE, stamp |-> 0, currval |-> None, txn |-> {}]
Ended(r) == [Fresh EXCEPT !.stamp = r.stamp, !.currval = r.currval, !.txn = r.txn]
Goto(s, r) == session' = [session EXCEPT ![s] = r]

EmptySnapshot == [def |-> None, rows |-> None, identity |-> None,
                  counter |-> None, era |-> 0]

Init ==
  /\ writer = None
  /\ def \in {sequence_def(None, o) : o \in Options} \ {None}
  /\ rows = {}
  /\ counter = None
  /\ identity = None
  /\ saved = EmptySnapshot
  /\ session = [s \in Session |-> Fresh]
  /\ admin = [a \in Admin |-> [pc |-> "idle", copy |-> EmptySnapshot]]
  /\ era = 1
  /\ last = None
  /\ ops = 0

Starts == ops < MaxOps /\ ops' = ops + 1

-----------------------------------------------------------------------------
(* NEXTVAL and CURRVAL in a row.  A statement that fails drops the guard of *)
(* its row, which clears the cached values.                                 *)

(* start_row: one row of a query, or of an INSERT ... VALUES, which needs   *)
(* the table in the copy its transaction works on.  If the row mentions     *)
(* NEXTVAL the sequence advances once, before anything is evaluated.        *)
MentionsNext(refs) == \E i \in DOMAIN refs : refs[i] = "next"
StartRow(s) ==
  /\ session[s].pc = "idle"
  /\ Starts
  /\ \E e \in Exprs :
       /\ e.insert => \/ session[s].txn = {} /\ rows # None
                      \/ Cardinality(session[s].txn) \in 1..(MaxRows - 1)
       /\ Goto(s, [Ended(session[s]) EXCEPT
                     !.pc = IF MentionsNext(e.refs) THEN "def" ELSE "eval",
                     !.k = IF MentionsNext(e.refs) THEN 0 ELSE 1,
                     !.expr = e.refs, !.insert = e.insert])
  /\ UNCHANGED <<writer, def, rows, counter, identity, saved, admin, era, last>>

(* advance_sequence, first half: sequence_def() under the read lock.        *)
ReadDef(s) ==
  /\ session[s].pc = "def"
  /\ writer = None
  /\ Goto(s, IF def = None THEN Ended(session[s])               (* ORA-02289 *)
             ELSE [session[s] EXCEPT !.pc = "advance", !.def = def])
  /\ UNCHANGED <<writer, def, rows, counter, identity, saved, admin, era, last, ops>>

(* advance_sequence, second half: next_sequence() under the Mutex, with the *)
(* definition read before.                                                  *)
Advance(s) ==
  LET me == session[s]
      v == NextValue(me.def, counter)
      turns == Turns(me.def, counter)
      stale == def # None /\ (def.increment > 0) # (me.def.increment > 0)
  IN
  /\ me.pc = "advance"
  /\ IF v = None
     THEN /\ counter' = Reached(me.def, counter)                 (* ORA-08004 *)
          /\ Goto(s, Ended(me))
          /\ UNCHANGED <<era, last>>
     ELSE /\ counter' = saturating_add(v, me.def.increment)
          /\ era' = IF turns THEN era + 1 ELSE era
          /\ last' = v
          /\ Goto(s, [me EXCEPT
                        !.pc = "eval", !.k = @ + 1, !.def = None, !.currval = v,
                        !.stamp = IF stale THEN 0 ELSE era',
                        !.cached = IF me.k = 0 THEN v ELSE @,
                        !.seen = IF me.k = 0 THEN @ ELSE @ \cup {v}])
  /\ UNCHANGED <<writer, def, rows, identity, saved, admin, ops>>

(* Mutant: the value start_row cached for the row is not looked up. *)
ReferUncached(s) ==
  LET me == session[s]
      ref == me.expr[me.k]
  IN
  /\ me.pc = "eval" /\ me.k <= Len(me.expr) /\ ref # "sub"
  /\ writer = None
  /\ Goto(s, CASE def = None -> Ended(me)
               [] def # None /\ ref = "next" -> [me EXCEPT !.pc = "def"]
               [] OTHER -> IF me.currval = None THEN Ended(me)
                           ELSE [me EXCEPT !.k = @ + 1, !.seen = @ \cup {me.currval}])
  /\ UNCHANGED <<writer, def, rows, counter, identity, saved, admin, era, last, ops>>

(* sequence(): one reference of the row.  It needs the definition to exist  *)
(* still, and takes the row's cached value before anything else.            *)
Refer(s) ==
  LET me == session[s]
      ref == me.expr[me.k]
      gets(v) == [me EXCEPT !.k = @ + 1, !.seen = @ \cup {v}]
  IN
  /\ me.pc = "eval" /\ me.k <= Len(me.expr) /\ ref # "sub"
  /\ writer = None
  /\ Goto(s, CASE def = None -> Ended(me)                        (* ORA-02289 *)
               [] def # None /\ me.cached # None -> gets(me.cached)
               [] def # None /\ me.cached = None /\ ref = "next" ->
                    [me EXCEPT !.pc = "def"]
               [] OTHER -> IF me.currval = None THEN Ended(me)   (* ORA-08002 *)
                           ELSE gets(me.currval))
  /\ UNCHANGED <<writer, def, rows, counter, identity, saved, admin, era, last, ops>>

(* A subquery of the row is a query with rows of its own: its start_row     *)
(* and its guard clear the one map all rows of the session share.           *)
Subquery(s) ==
  LET me == session[s] IN
  /\ me.pc = "eval" /\ me.k <= Len(me.expr) /\ me.expr[me.k] = "sub"
  /\ Goto(s, [me EXCEPT !.k = @ + 1, !.cached = None, !.nested = TRUE])
  /\ UNCHANGED <<writer, def, rows, counter, identity, saved, admin, era, last, ops>>

(* The end of the row: an INSERT takes the next identity value and keeps    *)
(* the row in its transaction; then the guard is dropped.                   *)
next_identity == Given(identity, 1)
FinishRow(s) ==
  LET me == session[s] IN
  /\ me.pc = "eval" /\ me.k > Len(me.expr)
  /\ IF me.insert
     THEN /\ identity' = next_identity + 1
          /\ Goto(s, [Ended(me) EXCEPT
                !.txn = @ \cup {[number |-> me.currval, id |-> next_identity,
                                 era |-> IF me.stamp = era THEN era ELSE 0]}])
     ELSE /\ Goto(s, Ended(me))
          /\ UNCHANGED identity
  /\ UNCHANGED <<writer, def, rows, counter, saved, admin, era, last, ops>>

(* COMMIT adds the rows, or fails when the table is gone; either way the    *)
(* transaction is over.  ROLLBACK gives no number back.                     *)
Commit(s) ==
  /\ session[s].pc = "idle" /\ session[s].txn # {}
  /\ writer = None
  /\ rows' = IF rows = None THEN None ELSE rows \cup session[s].txn
  /\ Goto(s, [session[s] EXCEPT !.txn = {}])
  /\ UNCHANGED <<writer, def, counter, identity, saved, admin, era, last, ops>>

Rollback(s) ==
  /\ session[s].pc = "idle" /\ session[s].txn # {}
  /\ Goto(s, [session[s] EXCEPT !.txn = {}])
  /\ UNCHANGED <<writer, def, rows, counter, identity, saved, admin, era, last, ops>>

-----------------------------------------------------------------------------
(* DDL.  It starts with a COMMIT, so the session has no transaction.        *)
StartsDdl(s) ==
  /\ session[s].pc = "idle" /\ session[s].txn = {}
  /\ writer = None
  /\ Starts

CreateSequence(s) ==
  /\ StartsDdl(s) /\ def = None
  /\ \E o \in Options : sequence_def(None, o) # None /\ def' = sequence_def(None, o)
  /\ counter' = None
  /\ era' = era + 1
  /\ last' = None
  /\ UNCHANGED <<writer, rows, identity, saved, session, admin>>

DropSequence(s) ==
  /\ StartsDdl(s) /\ def # None
  /\ def' = None
  /\ counter' = None
  /\ era' = era + 1
  /\ last' = None
  /\ UNCHANGED <<writer, rows, identity, saved, session, admin>>

(* ALTER SEQUENCE holds the write lock of the catalog throughout, and takes *)
(* the Mutex of the counters once to look at the next value, once to move   *)
(* it, and once more for RESTART.                                           *)
AlterPeek(s) ==
  /\ StartsDdl(s) /\ def # None
  /\ \E o \in Options :
       /\ sequence_def(def, o) # None
       /\ Goto(s, [session[s] EXCEPT !.pc = "alter", !.alter = o, !.peeked = counter])
  /\ writer' = s
  /\ UNCHANGED <<def, rows, counter, identity, saved, admin, era, last>>

Altered(s) == sequence_def(def, session[s].alter)
AlterMove(s) ==
  /\ session[s].pc = "alter"
  /\ counter' = IF session[s].peeked = None THEN counter
                ELSE session[s].peeked - def.increment + Altered(s).increment
  /\ Goto(s, [session[s] EXCEPT !.pc = "restart"])
  /\ era' = era + 1
  /\ UNCHANGED <<writer, def, rows, identity, saved, admin, last, ops>>

AlterEnd(s) ==
  LET new == Altered(s)
      o == session[s].alter
  IN
  /\ session[s].pc = "restart"
  /\ counter' = IF ~o.restart THEN counter
                ELSE Given(o.at, IF new.increment > 0 THEN new.min ELSE new.max)
  /\ last' = IF o.restart THEN None ELSE last
  /\ era' = era + 1
  /\ def' = new
  /\ writer' = None
  /\ Goto(s, Ended(session[s]))
  /\ UNCHANGED <<rows, identity, saved, admin, ops>>

(* CREATE and DROP TABLE forget the identity counter.                       *)
CreateTable(s) ==
  /\ StartsDdl(s) /\ rows = None
  /\ rows' = {}
  /\ identity' = None
  /\ era' = era + 1
  /\ UNCHANGED <<writer, def, counter, saved, session, admin, last>>

DropTable(s) ==
  /\ StartsDdl(s) /\ rows # None
  /\ rows' = None
  /\ identity' = None
  /\ era' = era + 1
  /\ UNCHANGED <<writer, def, counter, saved, session, admin, last>>

-----------------------------------------------------------------------------
(* snapshot(): the catalog, the identities and the sequences, each under    *)
(* its own lock.                                                            *)
AdminAt(a, p) == admin[a].pc = p
SnapshotTables(a) ==
  /\ AdminAt(a, "idle")
  /\ writer = None
  /\ Starts
  /\ admin' = [admin EXCEPT ![a] =
       [pc |-> "identities",
        copy |-> [EmptySnapshot EXCEPT !.def = def, !.rows = rows]]]
  /\ UNCHANGED <<writer, def, rows, counter, identity, saved, session, era, last>>

SnapshotIdentities(a) ==
  /\ AdminAt(a, "identities")
  /\ admin' = [admin EXCEPT ![a].pc = "sequences",
                            ![a].copy.identity = identity, ![a].copy.era = era]
  /\ UNCHANGED <<writer, def, rows, counter, identity, saved, session, era, last, ops>>

(* Mutant: the catalog is read after the identities. *)
SnapshotTablesLast(a) ==
  /\ AdminAt(a, "sequences")
  /\ saved' = [admin[a].copy EXCEPT !.counter = counter, !.def = def, !.rows = rows,
                                    !.era = IF @ = era THEN era ELSE 0]
  /\ admin' = [admin EXCEPT ![a] = [pc |-> "idle", copy |-> EmptySnapshot]]
  /\ UNCHANGED <<writer, def, rows, counter, identity, session, era, last, ops>>

SnapshotSequences(a) ==
  /\ AdminAt(a, "sequences")
  /\ saved' = [admin[a].copy EXCEPT !.counter = counter,
                                    !.era = IF @ = era THEN era ELSE 0]
  /\ admin' = [admin EXCEPT ![a] = [pc |-> "idle", copy |-> EmptySnapshot]]
  /\ UNCHANGED <<writer, def, rows, counter, identity, session, era, last, ops>>

(* restore(): the same three, all while holding the write lock; reset() is  *)
(* the restore of an empty snapshot.  In the new era the rows whose numbers *)
(* are of the snapshot's era count as numbered by the restored counters.    *)
RestoreTables(a) ==
  /\ AdminAt(a, "idle")
  /\ writer = None
  /\ Starts
  /\ \E from \in {saved, EmptySnapshot} :
       /\ def' = from.def
       /\ rows' = from.rows
       /\ admin' = [admin EXCEPT ![a] = [pc |-> "restore", copy |-> from]]
  /\ writer' = a
  /\ era' = era + 1
  /\ UNCHANGED <<counter, identity, saved, session, last>>

RestoreIdentities(a) ==
  /\ AdminAt(a, "restore")
  /\ identity' = admin[a].copy.identity
  /\ admin' = [admin EXCEPT ![a].pc = "counters"]
  /\ UNCHANGED <<writer, def, rows, counter, saved, session, era, last, ops>>

Renew(r, from) == IF r.era = from THEN [r EXCEPT !.era = era + 1] ELSE r
RestoreSequences(a) ==
  LET from == admin[a].copy IN
  /\ AdminAt(a, "counters")
  /\ counter' = from.counter
  /\ rows' = IF rows = None \/ from.era = 0 THEN rows
             ELSE {Renew(r, from.era) : r \in rows}
  /\ era' = era + 1
  /\ last' = None
  /\ writer' = None
  /\ admin' = [admin EXCEPT ![a] = [pc |-> "idle", copy |-> EmptySnapshot]]
  /\ UNCHANGED <<def, identity, saved, session, ops>>

Next ==
  \/ \E s \in Session :
       \/ StartRow(s) \/ ReadDef(s) \/ Advance(s) \/ Refer(s) \/ Subquery(s)
       \/ FinishRow(s) \/ Commit(s) \/ Rollback(s)
       \/ CreateSequence(s) \/ DropSequence(s) \/ CreateTable(s) \/ DropTable(s)
       \/ AlterPeek(s) \/ AlterMove(s) \/ AlterEnd(s)
  \/ \E a \in Admin :
       \/ SnapshotTables(a) \/ SnapshotIdentities(a) \/ SnapshotSequences(a)
       \/ RestoreTables(a) \/ RestoreIdentities(a) \/ RestoreSequences(a)

Spec == Init /\ [][Next]_vars

-----------------------------------------------------------------------------
(* Properties *)

(* Counter c of a sequence defined as d has left v behind.                  *)
Past(d, c, v) ==
  /\ c # None
  /\ IF d.increment > 0 THEN c > v ELSE c < v

(* The counters are past every number of their own era that a committed     *)
(* row holds, so neither NEXTVAL (lib.rs next_sequence) nor an identity     *)
(* column (next_identity) hands a number out again that is in a row, also   *)
(* after restore() has brought rows and counters back from a snapshot that  *)
(* read them under three locks.  Only the last number of an i128 in either  *)
(* direction, where saturating_add stays, may come again.                   *)
NumbersNotReissued ==
  rows # None /\ def # None =>
    \A r \in rows : r.era = era =>
      /\ r.number \notin {None, Saturated, -Saturated - 1} => Past(def, counter, r.number)
      /\ identity # None /\ identity > r.id

(* As long as a row has evaluated no subquery, its NEXTVALs and CURRVALs    *)
(* give one value, that of the session's latest NEXTVAL, whatever other     *)
(* sessions do to the sequence meanwhile (eval.rs start_row and sequence).  *)
(* A subquery takes the value away: see OneValuePerRow.                     *)
RowSeesOneValue ==
  \A s \in Session : ~session[s].nested => session[s].seen \subseteq {session[s].currval}

(* "every NEXTVAL and CURRVAL in the row sees that value.  The values last  *)
(* until the returned guard is dropped", says start_row of all of a row     *)
(* (eval.rs).                                                               *)
OneValuePerRow == \A s \in Session : Cardinality(session[s].seen) <= 1

(* "The next number follows the last one handed out, with the new           *)
(* increment", says ALTER SEQUENCE of itself (session.rs, ddl).             *)
AlterFollowsLast ==
  [][\A s \in Session : AlterEnd(s) /\ ~session[s].alter.restart /\ last # None
       => counter' = last + def'.increment]_vars
=============================================================================
