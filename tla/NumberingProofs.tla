--------------------------- MODULE NumberingProofs ---------------------------
(***************************************************************************)
(* No number comes twice: the proofs of NumbersNotReissued and             *)
(* RowSeesOneValue for any number of sessions and administrators, any      *)
(* option lists and any rows.                                              *)
(*                                                                         *)
(* NumbersNotReissued is about committed rows.  Its inductive invariant    *)
(* also follows a number on its way there: the CURRVAL a session will put  *)
(* into a row, the rows of an open transaction, the rows a snapshot() has  *)
(* copied and not yet paired with both counters, the saved snapshot, and   *)
(* the copy a restore() is installing.  `era` decides which of them count: *)
(* all are of the present era or an earlier one, and a step that moves a   *)
(* counter back or changes the definition begins a new era.                *)
(*                                                                         *)
(* The predicates take the state they are about as parameters: d, c, i, e  *)
(* and w stand for `def`, `counter`, `identity`, `era` and `writer`.       *)
(***************************************************************************)
EXTENDS Numbering, TLAPS

-----------------------------------------------------------------------------
(* The inductive invariant *)

IntOrNone == Int \cup {None}

IsDef(d) == d.increment \in Int \ {0} /\ d.start \in I128 /\ d.min \in I128 /\ d.max \in I128

(* A number the counter is past, if there is a definition to count by.      *)
Numbered(d, c, v) ==
  d # None /\ v \notin {None, Saturated, -Saturated - 1} => Past(d, c, v)
Identified(i, id) == i # None /\ i > id

(* A row of this era or an earlier one; of this era, the counters are past  *)
(* its numbers.  While a restore holds the write lock the identity counter  *)
(* may go back in the middle of an era.                                     *)
IsRow(r) ==
  /\ DOMAIN r = {"number", "id", "era"}
  /\ r.number \in IntOrNone /\ r.id \in Int /\ r.era \in Nat
CountedRow(r, d, c, e) == IsRow(r) /\ r.era <= e /\ (r.era = e => Numbered(d, c, r.number))
FileRow(r, d, c, i, e, w) ==
  CountedRow(r, d, c, e) /\ (r.era = e => w \notin Admin /\ Identified(i, r.id))
TxnRow(r, d, c, i, e, w) ==
  CountedRow(r, d, c, e) /\ (r.era = e /\ w \notin Admin => Identified(i, r.id))

(* The numbers of a session: what its transaction holds and CURRVAL.        *)
Numbers(t, d, c, i, e, w) ==
  /\ t.currval \in IntOrNone
  /\ t.stamp \in Nat /\ t.stamp <= e
  /\ t.stamp = e => Numbered(d, c, t.currval)
  /\ \A r \in t.txn : TxnRow(r, d, c, i, e, w)

Locals(t, d) ==
  /\ DOMAIN t = DOMAIN Fresh
  /\ t.pc \in {"idle", "def", "advance", "eval", "alter", "restart"}
  /\ t.pc = "advance" => IsDef(t.def)
  /\ t.pc \in {"alter", "restart"} =>
       /\ d # None /\ t.alter \in Options /\ t.peeked \in IntOrNone
       /\ sequence_def(d, t.alter) # None

(* A snapshot, and the rows and counters of a complete one.                 *)
IsSnapshot(p, e) ==
  /\ DOMAIN p = DOMAIN EmptySnapshot
  /\ p.def # None => IsDef(p.def)
  /\ p.counter \in IntOrNone /\ p.identity \in IntOrNone
  /\ p.era \in Nat /\ p.era <= e
  /\ p.rows # None => \A r \in p.rows : IsRow(r) /\ r.era <= e
Paired(p) ==
  p.rows # None /\ p.era # 0 =>
    \A r \in p.rows : r.era = p.era =>
      Numbered(p.def, p.counter, r.number) /\ Identified(p.identity, r.id)

(* A snapshot() after its first and after its second lock.                  *)
WithTables(p, d, c, i, e, w) ==
  p.rows # None =>
    \A r \in p.rows : FileRow(r, d, c, i, e, w) /\ (r.era = e => p.def = d)
WithIdentities(p, d, c, e) ==
  p.rows # None =>
    \A r \in p.rows : r.era = p.era =>
      /\ Identified(p.identity, r.id)
      /\ p.era = e => p.def = d /\ Numbered(d, c, r.number)

Copying(m, d, c, i, e, w) ==
  /\ DOMAIN m = {"pc", "copy"}
  /\ m.pc \in {"idle", "identities", "sequences", "restore", "counters"}
  /\ IsSnapshot(m.copy, e)
  /\ m.pc = "identities" => WithTables(m.copy, d, c, i, e, w)
  /\ m.pc = "sequences" => m.copy.era # 0 /\ WithIdentities(m.copy, d, c, e)

(* A restore() between its locks.                                           *)
Installing(m, d, f, i) ==
  /\ m.pc \in {"restore", "counters"} =>
       Paired(m.copy) /\ d = m.copy.def /\ f = m.copy.rows
  /\ m.pc = "counters" =>
       \A id \in Int : Identified(m.copy.identity, id) => Identified(i, id)

Shared ==
  /\ def # None => IsDef(def)
  /\ counter \in IntOrNone /\ identity \in IntOrNone
  /\ era \in Nat \ {0}
  /\ rows # None => \A r \in rows : FileRow(r, def, counter, identity, era, writer)
  /\ IsSnapshot(saved, era) /\ Paired(saved)

Locked ==
  /\ \A s \in Session : session[s].pc \in {"alter", "restart"} <=> writer = s
  /\ \A a \in Admin : admin[a].pc \in {"restore", "counters"} <=> writer = a

Sessions ==
  /\ session = [s \in Session |-> session[s]]
  /\ \A s \in Session : /\ Locals(session[s], def)
                        /\ Numbers(session[s], def, counter, identity, era, writer)
Admins ==
  /\ admin = [a \in Admin |-> admin[a]]
  /\ \A a \in Admin : /\ Copying(admin[a], def, counter, identity, era, writer)
                      /\ Installing(admin[a], def, rows, identity)

IInv == Shared /\ Locked /\ Sessions /\ Admins

-----------------------------------------------------------------------------
(* Counters and definitions *)

(* Whatever options CREATE or ALTER SEQUENCE accepts, the definition counts *)
(* up or down between two i128.                                             *)
LEMMA DefGood ==
  ASSUME NEW o \in Options, NEW old, old # None => IsDef(old),
         sequence_def(old, o) # None
  PROVE  IsDef(sequence_def(old, o))
<1> DEFINE increment == Given(o.increment, IF old = None THEN 1 ELSE old.increment)
           lowest  == IF increment > 0 THEN 1 ELSE MinDefault
           highest == IF increment > 0 THEN MaxDefault ELSE -1
           min == Given(o.min, IF old = None \/ o.nomin THEN lowest ELSE old.min)
           max == Given(o.max, IF old = None \/ o.nomax THEN highest ELSE old.max)
           start == IF old # None THEN old.start
                    ELSE Given(o.start, IF increment > 0 THEN min ELSE max)
<1>1. /\ {o.start, o.increment, o.min, o.max} \subseteq I128 \cup {None}
      /\ MaxDefault \in I128 /\ MinDefault \in I128 /\ 1 \in I128 /\ -1 \in I128
      /\ I128 \subseteq Int
  BY OptionAssumption DEF I128
<1>2. increment \in Int
  BY <1>1, Zenon DEF Given, IsDef
<1>3. lowest \in I128 /\ highest \in I128
  BY <1>1, Zenon
<1>4. min \in I128 /\ max \in I128
  BY <1>1, <1>3, Zenon DEF Given, IsDef
<1>5. start \in I128
  BY <1>1, <1>4, Zenon DEF Given, IsDef
<1>6. increment # 0 /\ sequence_def(old, o) =
        [start |-> start, increment |-> increment, min |-> min, max |-> max,
         cycle |-> IF o.cycle # None THEN o.cycle
                   ELSE IF old # None THEN old.cycle ELSE FALSE]
  BY Zenon DEF sequence_def
<1> HIDE DEF increment, min, max, start
<1> QED
  BY <1>2, <1>4, <1>5, <1>6 DEF IsDef

(* What NEXTVAL returns, if it does, is in range, and is where the counter  *)
(* stood unless the sequence cycled.                                        *)
LEMMA NextInRange ==
  ASSUME NEW d, IsDef(d), NEW c \in IntOrNone, NextValue(d, c) # None
  PROVE  /\ NextValue(d, c) \in I128
         /\ ~Outside(d, Reached(d, c)) => NextValue(d, c) = Reached(d, c)
<1>1. Reached(d, c) \in Int /\ I128 \subseteq Int
  BY OptionAssumption DEF IntOrNone, Reached, Given, IsDef, I128
<1>2. ~Outside(d, Reached(d, c)) => Reached(d, c) \in I128
  BY <1>1, OptionAssumption DEF Outside, IsDef, I128
<1> HIDE DEF Reached, Outside
<1> QED
  BY <1>1, <1>2, Zenon DEF NextValue, IsDef

(* The counter goes past the value handed out, and never back.              *)
LEMMA CounterMoves ==
  ASSUME NEW d, IsDef(d), NEW v \in I128
  PROVE  /\ saturating_add(v, d.increment) \in Int
         /\ d.increment > 0 => v <= saturating_add(v, d.increment)
         /\ ~(d.increment > 0) => saturating_add(v, d.increment) <= v
         /\ v \notin {Saturated, -Saturated - 1} =>
              IF d.increment > 0 THEN saturating_add(v, d.increment) > v
              ELSE saturating_add(v, d.increment) < v
  BY OptionAssumption DEF IsDef, I128, saturating_add

-----------------------------------------------------------------------------
(* What one step does to the counters: it begins a new era, or it keeps the *)
(* definition and moves the counters on.                                    *)
CountsOn(d, c, e, d2, c2, e2) ==
  /\ e2 \in Nat /\ e <= e2
  /\ e2 = e => d2 = d /\ \A v \in IntOrNone : Numbered(d, c, v) => Numbered(d, c2, v)
IdentitiesOn(i, w, e, i2, w2, e2) ==
  e2 = e => /\ w2 \in Admin <=> w \in Admin
            /\ w \notin Admin => \A id \in Int : Identified(i, id) => Identified(i2, id)
Flow == /\ CountsOn(def, counter, era, def', counter', era')
        /\ IdentitiesOn(identity, writer, era, identity', writer', era')

(* Then what held of a number still holds.                                  *)
LEMMA CountedRowFlows ==
  ASSUME NEW d, NEW c, NEW e \in Nat, NEW d2, NEW c2, NEW e2, NEW r,
         CountsOn(d, c, e, d2, c2, e2), CountedRow(r, d, c, e)
  PROVE  CountedRow(r, d2, c2, e2)
  BY DEF CountsOn, CountedRow, IsRow

LEMMA FileRowFlows ==
  ASSUME NEW d, NEW c, NEW i, NEW e \in Nat, NEW w, NEW d2, NEW c2, NEW i2, NEW e2, NEW w2,
         CountsOn(d, c, e, d2, c2, e2), IdentitiesOn(i, w, e, i2, w2, e2),
         NEW r, FileRow(r, d, c, i, e, w)
  PROVE  FileRow(r, d2, c2, i2, e2, w2)
<1>1. CountedRow(r, d2, c2, e2) /\ r.era <= e /\ e <= e2 /\ r.era \in Nat /\ e2 \in Nat /\ r.id \in Int
  BY CountedRowFlows, Zenon DEF FileRow, CountsOn, CountedRow, IsRow
<1>2. r.era = e2 => e2 = e
  BY <1>1
<1> QED
  BY <1>1, <1>2, Zenon DEF FileRow, IdentitiesOn

LEMMA TxnRowFlows ==
  ASSUME NEW d, NEW c, NEW i, NEW e \in Nat, NEW w, NEW d2, NEW c2, NEW i2, NEW e2, NEW w2,
         CountsOn(d, c, e, d2, c2, e2), IdentitiesOn(i, w, e, i2, w2, e2),
         NEW r, TxnRow(r, d, c, i, e, w)
  PROVE  TxnRow(r, d2, c2, i2, e2, w2)
<1>1. CountedRow(r, d2, c2, e2) /\ r.era <= e /\ e <= e2 /\ r.era \in Nat /\ e2 \in Nat /\ r.id \in Int
  BY CountedRowFlows, Zenon DEF TxnRow, CountsOn, CountedRow, IsRow
<1>2. r.era = e2 => e2 = e
  BY <1>1
<1> QED
  BY <1>1, <1>2, Zenon DEF TxnRow, IdentitiesOn

LEMMA NumbersFlow ==
  ASSUME NEW d, NEW c, NEW i, NEW e \in Nat, NEW w, NEW d2, NEW c2, NEW i2, NEW e2, NEW w2,
         CountsOn(d, c, e, d2, c2, e2), IdentitiesOn(i, w, e, i2, w2, e2),
         NEW t, Numbers(t, d, c, i, e, w)
  PROVE  Numbers(t, d2, c2, i2, e2, w2)
<1>1. \A r \in t.txn : TxnRow(r, d2, c2, i2, e2, w2)
  BY TxnRowFlows DEF Numbers
<1>2. /\ t.stamp \in Nat /\ t.stamp <= e /\ e <= e2 /\ e2 \in Nat
      /\ t.currval \in IntOrNone
  BY Zenon DEF Numbers, CountsOn
<1>3. t.stamp <= e2 /\ (t.stamp = e2 => e2 = e)
  BY <1>2
<1>4. t.stamp = e2 => Numbered(d2, c2, t.currval)
  BY <1>2, <1>3, Zenon DEF Numbers, CountsOn
<1> QED
  BY <1>1, <1>2, <1>3, <1>4, Zenon DEF Numbers

LEMMA SnapshotFlows ==
  ASSUME NEW e \in Nat, NEW e2 \in Nat, e <= e2, NEW p, IsSnapshot(p, e)
  PROVE  IsSnapshot(p, e2)
<1>1. p.era \in Nat /\ p.era <= e2
  BY DEF IsSnapshot
<1>2. ASSUME NEW r, IsRow(r), r.era <= e PROVE r.era <= e2
  BY <1>2 DEF IsRow
<1> QED
  BY <1>1, <1>2, Zenon DEF IsSnapshot

LEMMA CopyingFlows ==
  ASSUME NEW d, NEW c, NEW i, NEW e \in Nat, NEW w, NEW d2, NEW c2, NEW i2, NEW e2, NEW w2,
         CountsOn(d, c, e, d2, c2, e2), IdentitiesOn(i, w, e, i2, w2, e2),
         NEW m, Copying(m, d, c, i, e, w)
  PROVE  Copying(m, d2, c2, i2, e2, w2)
<1> DEFINE p == m.copy
<1>1. IsSnapshot(p, e) /\ e2 \in Nat /\ e <= e2
  BY Zenon DEF Copying, CountsOn
<1>2. IsSnapshot(p, e2)
  BY <1>1, SnapshotFlows, Zenon
<1>3. ASSUME WithTables(p, d, c, i, e, w) PROVE WithTables(p, d2, c2, i2, e2, w2)
  <2>1. ASSUME p.rows # None, NEW r \in p.rows
        PROVE  FileRow(r, d2, c2, i2, e2, w2) /\ (r.era = e2 => p.def = d2)
    <3>1. FileRow(r, d, c, i, e, w) /\ (r.era = e => p.def = d)
      BY <1>3, <2>1, Zenon DEF WithTables
    <3>2. r.era \in Nat /\ r.era <= e
      BY <3>1, Zenon DEF FileRow, CountedRow, IsRow
    <3>3. r.era = e2 => e2 = e
      BY <1>1, <3>2
    <3> QED
      BY <3>1, <3>3, FileRowFlows DEF CountsOn
  <2> QED
    BY <2>1, Zenon DEF WithTables
<1>4. ASSUME WithIdentities(p, d, c, e) PROVE WithIdentities(p, d2, c2, e2)
  <2>1. p.era \in Nat /\ p.era <= e
    BY <1>1, Zenon DEF IsSnapshot
  <2>2. p.era = e2 => e2 = e
    BY <1>1, <2>1
  <2>3. p.rows # None => \A r \in p.rows : r.number \in IntOrNone
    BY <1>1, Zenon DEF IsSnapshot, IsRow
  <2> QED
    BY <1>4, <2>2, <2>3, Zenon DEF WithIdentities, CountsOn
<1> QED
  BY <1>2, <1>3, <1>4, Zenon DEF Copying

-----------------------------------------------------------------------------
(* Steps of a session that leave the catalog, the lock and the snapshots as *)
(* they are: only the session and the counters have to be looked at.        *)
CountersTyped == counter' \in IntOrNone /\ identity' \in IntOrNone /\ era' \in Nat \ {0}

LEMMA SavedStays ==
  ASSUME IInv, Flow, UNCHANGED saved
  PROVE  IsSnapshot(saved, era)' /\ Paired(saved)'
<1>1. IsSnapshot(saved, era) /\ Paired(saved) /\ era \in Nat
  BY Zenon DEF IInv, Shared
<1>2. era' \in Nat /\ era <= era'
  BY Zenon DEF Flow, CountsOn
<1> QED
  BY <1>1, <1>2, SnapshotFlows, Zenon

LEMMA FileStays ==
  ASSUME IInv, Flow, NEW f, rows # None => f \subseteq rows
  PROVE  rows # None => \A r \in f : FileRow(r, def', counter', identity', era', writer')
<1>1. rows # None => \A r \in f : FileRow(r, def, counter, identity, era, writer)
  BY Zenon DEF IInv, Shared
<1>2. era \in Nat
  BY Zenon DEF IInv, Shared
<1> QED
  BY <1>1, <1>2, FileRowFlows DEF Flow

LEMMA NumbersStay ==
  ASSUME IInv, Flow, NEW s \in Session
  PROVE  Numbers(session[s], def', counter', identity', era', writer')
<1>1. Numbers(session[s], def, counter, identity, era, writer) /\ era \in Nat
  BY Zenon DEF IInv, Sessions, Shared
<1> QED
  BY <1>1, NumbersFlow DEF Flow

LEMMA CopyingStays ==
  ASSUME IInv, Flow, NEW a \in Admin
  PROVE  Copying(admin[a], def', counter', identity', era', writer')
<1>1. Copying(admin[a], def, counter, identity, era, writer) /\ era \in Nat
  BY Zenon DEF IInv, Admins, Shared
<1> QED
  BY <1>1, CopyingFlows DEF Flow

LEMMA SessionStep ==
  ASSUME IInv, NEW s \in Session, Flow, CountersTyped,
         UNCHANGED <<writer, def, rows, saved, admin>>,
         \A id \in Int : Identified(identity, id) => Identified(identity', id),
         session' = [session EXCEPT ![s] = session'[s]],
         Locals(session'[s], def),
         session'[s].pc \in {"alter", "restart"} <=> session[s].pc \in {"alter", "restart"},
         Numbers(session'[s], def, counter', identity', era', writer)
  PROVE  IInv'
<1>1. Shared'
  <2>1. rows # None => \A r \in rows : FileRow(r, def', counter', identity', era', writer')
    BY FileStays, Zenon
  <2> QED
    BY <2>1, SavedStays, Zenon DEF Shared, IInv, CountersTyped
<1>2. /\ session' = [r \in Session |-> session'[r]]
      /\ \A r \in Session : r # s => session'[r] = session[r]
  <2>1. session = [r \in Session |-> session[r]]
    BY Zenon DEF IInv, Sessions
  <2> QED
    BY <2>1, Zenon
<1>3. Locked'
  BY <1>2, Zenon DEF IInv, Locked
<1>4. Sessions'
  <2>1. ASSUME NEW r \in Session
        PROVE  /\ Locals(session'[r], def')
               /\ Numbers(session'[r], def', counter', identity', era', writer')
    <3>1. CASE r = s
      BY <3>1, Zenon
    <3>2. CASE r # s
      <4>1. session'[r] = session[r] /\ Locals(session[r], def)
        BY <1>2, <3>2, Zenon DEF IInv, Sessions
      <4> QED
        BY <4>1, NumbersStay, Zenon
    <3> QED
      BY <3>1, <3>2, Zenon
  <2> QED
    BY <1>2, <2>1, Zenon DEF Sessions
<1>5. Admins'
  <2>1. ASSUME NEW a \in Admin
        PROVE  /\ Copying(admin'[a], def', counter', identity', era', writer')
               /\ Installing(admin'[a], def', rows', identity')
    <3>1. Installing(admin[a], def, rows, identity)
      BY Zenon DEF IInv, Admins
    <3>2. Installing(admin[a], def, rows, identity')
      BY <3>1, Zenon DEF Installing
    <3> QED
      BY <3>2, CopyingStays, Zenon
  <2> QED
    BY <2>1, Zenon DEF IInv, Admins
<1> QED
  BY <1>1, <1>3, <1>4, <1>5, Zenon DEF IInv

(* Nothing moves: there is nothing to show about the counters.              *)
LEMMA StillFlows ==
  ASSUME IInv, UNCHANGED <<def, counter, identity, era, writer>>
  PROVE  Flow /\ CountersTyped
  BY DEF IInv, Shared, Flow, CountsOn, IdentitiesOn, CountersTyped

-----------------------------------------------------------------------------
(* The rows of a statement *)

LEMMA GotoTo ==
  ASSUME IInv, NEW s \in Session, NEW t, Goto(s, t)
  PROVE  session'[s] = t /\ session' = [session EXCEPT ![s] = session'[s]]
<1>1. session = [r \in Session |-> session[r]]
  BY Zenon DEF IInv, Sessions
<1> QED
  BY <1>1, Zenon DEF Goto

(* A step that only moves the session on.                                   *)
LEMMA LocalStep ==
  ASSUME IInv, NEW s \in Session, NEW t, Goto(s, t),
         UNCHANGED <<writer, def, rows, counter, identity, saved, admin, era>>,
         Locals(t, def), t.pc \notin {"alter", "restart"},
         session[s].pc \notin {"alter", "restart"},
         t.stamp = session[s].stamp, t.currval = session[s].currval,
         t.txn \subseteq session[s].txn
  PROVE  IInv'
<1>1. Flow /\ CountersTyped
  BY StillFlows, Zenon
<1>2. session'[s] = t /\ session' = [session EXCEPT ![s] = session'[s]]
  BY GotoTo, Zenon
<1>3. Numbers(t, def, counter, identity, era, writer)
  <2>1. Numbers(session[s], def, counter, identity, era, writer)
    BY Zenon DEF IInv, Sessions
  <2> QED
    BY <2>1, Zenon DEF Numbers
<1> QED
  BY <1>1, <1>2, <1>3, SessionStep, Zenon

LEMMA SessionFields ==
  ASSUME IInv, NEW s \in Session
  PROVE  DOMAIN session[s] = DOMAIN Fresh /\ Locals(session[s], def)
  BY Zenon DEF IInv, Sessions, Locals

LEMMA EndedFields ==
  ASSUME NEW r, NEW d
  PROVE  /\ Locals(Ended(r), d) /\ Ended(r).pc = "idle"
         /\ Ended(r).stamp = r.stamp /\ Ended(r).currval = r.currval /\ Ended(r).txn = r.txn
  BY Zenon DEF Ended, Fresh, Locals

LEMMA EndRow ==
  ASSUME IInv, NEW s \in Session, Goto(s, Ended(session[s])),
         session[s].pc \notin {"alter", "restart"},
         UNCHANGED <<writer, def, rows, counter, identity, saved, admin, era>>
  PROVE  IInv'
  BY EndedFields, LocalStep, Zenon

LEMMA StartRowPreserves ==
  ASSUME IInv, NEW s \in Session, StartRow(s)
  PROVE  IInv'
<1>1. PICK e \in Exprs : Goto(s, [Ended(session[s]) EXCEPT
                     !.pc = IF MentionsNext(e.refs) THEN "def" ELSE "eval",
                     !.k = IF MentionsNext(e.refs) THEN 0 ELSE 1,
                     !.expr = e.refs, !.insert = e.insert])
  BY Zenon DEF StartRow
<1> DEFINE n == MentionsNext(e.refs)
           t == [Ended(session[s]) EXCEPT !.pc = IF n THEN "def" ELSE "eval",
                     !.k = IF n THEN 0 ELSE 1, !.expr = e.refs, !.insert = e.insert]
<1>2. Locals(t, def) /\ t.pc \notin {"alter", "restart"}
      /\ t.stamp = session[s].stamp /\ t.currval = session[s].currval
      /\ t.txn = session[s].txn
  <2> HIDE DEF n
  <2> QED
    BY DEF Ended, Fresh, Locals
<1>3. session[s].pc \notin {"alter", "restart"}
      /\ UNCHANGED <<writer, def, rows, counter, identity, saved, admin, era>>
  BY Zenon DEF StartRow
<1> HIDE DEF t, n
<1>4. Goto(s, t)
  BY <1>1, Zenon DEF t, n
<1> QED
  BY <1>2, <1>3, <1>4, LocalStep, Zenon

LEMMA ReadDefPreserves ==
  ASSUME IInv, NEW s \in Session, ReadDef(s)
  PROVE  IInv'
<1> DEFINE t == [session[s] EXCEPT !.pc = "advance", !.def = def]
<1>1. session[s].pc \notin {"alter", "restart"}
      /\ UNCHANGED <<writer, def, rows, counter, identity, saved, admin, era>>
  BY Zenon DEF ReadDef
<1>2. CASE def = None
  BY <1>1, <1>2, EndRow, Zenon DEF ReadDef
<1>3. CASE def # None
  <2>1. IsDef(def)
    BY <1>3, Zenon DEF IInv, Shared
  <2>2. Locals(t, def) /\ t.pc = "advance"
        /\ t.stamp = session[s].stamp /\ t.currval = session[s].currval
        /\ t.txn = session[s].txn
    BY <2>1, SessionFields, Zenon DEF Locals, Fresh
  <2>3. Goto(s, t)
    BY <1>3, Zenon DEF ReadDef
  <2> HIDE DEF t
  <2> QED
    BY <1>1, <2>2, <2>3, LocalStep, Zenon
<1> QED
  BY <1>2, <1>3, Zenon

LEMMA ReferPreserves ==
  ASSUME IInv, NEW s \in Session, Refer(s)
  PROVE  IInv'
<1> DEFINE me == session[s]
           gets(v) == [me EXCEPT !.k = @ + 1, !.seen = @ \cup {v}]
           again == [me EXCEPT !.pc = "def"]
<1>1. me.pc = "eval"
      /\ UNCHANGED <<writer, def, rows, counter, identity, saved, admin, era>>
  BY Zenon DEF Refer
<1>2. \/ Goto(s, Ended(me)) \/ Goto(s, again)
      \/ Goto(s, gets(me.cached)) \/ Goto(s, gets(me.currval))
  BY Zenon DEF Refer
<1>3. CASE Goto(s, Ended(me))
  BY <1>1, <1>3, EndRow, Zenon
<1>4. ASSUME NEW v, Goto(s, gets(v)) PROVE IInv'
  <2>1. Locals(gets(v), def) /\ gets(v).pc = "eval"
        /\ gets(v).stamp = me.stamp /\ gets(v).currval = me.currval /\ gets(v).txn = me.txn
    BY <1>1, SessionFields, Zenon DEF Locals, Fresh
  <2> HIDE DEF gets
  <2> QED
    BY <1>1, <1>4, <2>1, LocalStep, Zenon
<1>5. CASE Goto(s, again)
  <2>1. Locals(again, def) /\ again.pc = "def"
        /\ again.stamp = me.stamp /\ again.currval = me.currval /\ again.txn = me.txn
    BY <1>1, SessionFields, Zenon DEF Locals, Fresh
  <2> HIDE DEF again
  <2> QED
    BY <1>1, <1>5, <2>1, LocalStep, Zenon
<1> HIDE DEF gets, again
<1> QED
  BY <1>2, <1>3, <1>4, <1>5, Zenon

LEMMA SubqueryPreserves ==
  ASSUME IInv, NEW s \in Session, Subquery(s)
  PROVE  IInv'
<1> DEFINE me == session[s]
           t == [me EXCEPT !.k = @ + 1, !.cached = None, !.nested = TRUE]
<1>1. me.pc = "eval" /\ Goto(s, t)
      /\ UNCHANGED <<writer, def, rows, counter, identity, saved, admin, era>>
  BY Zenon DEF Subquery
<1>2. Locals(t, def) /\ t.pc = "eval"
      /\ t.stamp = me.stamp /\ t.currval = me.currval /\ t.txn = me.txn
  BY <1>1, SessionFields, Zenon DEF Locals, Fresh
<1> HIDE DEF t
<1> QED
  BY <1>1, <1>2, LocalStep, Zenon

LEMMA RollbackPreserves ==
  ASSUME IInv, NEW s \in Session, Rollback(s)
  PROVE  IInv'
<1> DEFINE me == session[s]
           t == [me EXCEPT !.txn = {}]
<1>1. me.pc = "idle" /\ Goto(s, t)
      /\ UNCHANGED <<writer, def, rows, counter, identity, saved, admin, era>>
  BY Zenon DEF Rollback
<1>2. Locals(t, def) /\ t.pc = "idle"
      /\ t.stamp = me.stamp /\ t.currval = me.currval /\ t.txn = {}
  BY <1>1, SessionFields, Zenon DEF Locals, Fresh
<1> HIDE DEF t
<1> QED
  BY <1>1, <1>2, LocalStep, Zenon

(* A counter that went on in the direction of the definition.               *)
LEMMA FurtherOn ==
  ASSUME NEW d, d # None => IsDef(d), NEW c \in IntOrNone, NEW c2 \in Int,
         d # None /\ c # None => IF d.increment > 0 THEN c <= c2 ELSE c2 <= c
  PROVE  \A v \in IntOrNone : Numbered(d, c, v) => Numbered(d, c2, v)
<1> SUFFICES ASSUME NEW v \in Int, d # None, Past(d, c, v) PROVE Past(d, c2, v)
  BY Zenon DEF Numbered, IntOrNone
<1>1. c \in Int /\ c2 # None
  BY ThreadAssumption, Zenon DEF Past, IntOrNone
<1> QED
  BY <1>1 DEF Past, IsDef

LEMMA AdvancePreserves ==
  ASSUME IInv, NEW s \in Session, Advance(s)
  PROVE  IInv'
<1> DEFINE me == session[s]
           v == NextValue(me.def, counter)
           reached == Reached(me.def, counter)
           turns == Turns(me.def, counter)
           stale == def # None /\ (def.increment > 0) # (me.def.increment > 0)
<1>1. /\ me.pc = "advance" /\ IsDef(me.def) /\ DOMAIN me = DOMAIN Fresh
      /\ UNCHANGED <<writer, def, rows, identity, saved, admin>>
  BY SessionFields, Zenon DEF Advance, Locals
<1>2. /\ counter \in IntOrNone /\ era \in Nat \ {0} /\ identity \in IntOrNone
      /\ def # None => IsDef(def)
  BY Zenon DEF IInv, Shared
<1>3. reached \in Int /\ (counter # None => reached = counter)
  BY <1>1, <1>2, OptionAssumption DEF IsDef, I128, IntOrNone, Reached, Given
<1>4. Numbers(me, def, counter, identity, era, writer)
  BY Zenon DEF IInv, Sessions
<1>5. CASE v = None
  <2>1. counter' = reached /\ Goto(s, Ended(me)) /\ UNCHANGED era
    BY <1>5, Zenon DEF Advance
  <2>2. def # None /\ counter # None =>
          IF def.increment > 0 THEN counter <= counter' ELSE counter' <= counter
    BY <1>2, <1>3, <2>1 DEF IntOrNone
  <2>3. Flow /\ CountersTyped
    <3>1. \A x \in IntOrNone : Numbered(def, counter, x) => Numbered(def, counter', x)
      BY <1>2, <1>3, <2>1, <2>2, FurtherOn, Zenon
    <3> QED
      BY <1>1, <1>2, <1>3, <2>1, <3>1
      DEF Flow, CountsOn, IdentitiesOn, CountersTyped, IntOrNone
  <2>4. session'[s] = Ended(me) /\ session' = [session EXCEPT ![s] = session'[s]]
    BY <2>1, GotoTo, Zenon
  <2>5. Numbers(Ended(me), def, counter', identity', era', writer)
    <3>1. Numbers(me, def', counter', identity', era', writer')
      BY <2>3, NumbersStay, Zenon
    <3> QED
      BY <1>1, <3>1, EndedFields, Zenon DEF Numbers
  <2> HIDE DEF me
  <2>6. session[s].pc = "advance"
    BY <1>1, Zenon DEF me
  <2> QED
    BY <1>1, <2>3, <2>4, <2>5, <2>6, EndedFields, SessionStep, Zenon
<1>6. CASE v # None
  <2> DEFINE t == [me EXCEPT
                     !.pc = "eval", !.k = @ + 1, !.def = None, !.currval = v,
                     !.stamp = IF stale THEN 0 ELSE era',
                     !.cached = IF me.k = 0 THEN v ELSE @,
                     !.seen = IF me.k = 0 THEN @ ELSE @ \cup {v}]
             c2 == saturating_add(v, me.def.increment)
  <2>1. counter' = c2 /\ Goto(s, t) /\ era' = IF turns THEN era + 1 ELSE era
    BY <1>6, Zenon DEF Advance
  <2>2. v \in I128 /\ (~Outside(me.def, reached) => v = reached)
    BY <1>1, <1>2, <1>6, NextInRange, Zenon
  <2>3. /\ c2 \in Int
        /\ me.def.increment > 0 => v <= c2
        /\ ~(me.def.increment > 0) => c2 <= v
        /\ v \notin {Saturated, -Saturated - 1} =>
              IF me.def.increment > 0 THEN c2 > v ELSE c2 < v
    BY <1>1, <2>2, CounterMoves, Zenon
  <2>4. /\ Locals(t, def) /\ t.pc = "eval" /\ t.currval = v /\ t.txn = me.txn
        /\ t.stamp = IF stale THEN 0 ELSE era'
    <3> HIDE DEF stale, v
    <3> QED
      BY <1>1, Zenon DEF Locals, Fresh
  <2> HIDE DEF t, c2, v, reached
  <2>5. era' = era => ~turns
    BY <1>2, <2>1
  <2>6. ~turns => ~stale /\ v = reached
    BY <2>2, Zenon DEF Turns, reached
  <2>7. ~stale /\ def # None => (def.increment > 0 <=> me.def.increment > 0)
    BY <1>1, <1>2, Zenon DEF IsDef
  <2>8. Flow /\ CountersTyped
    <3>1. ASSUME ~turns
          PROVE  \A x \in IntOrNone : Numbered(def, counter, x) => Numbered(def, counter', x)
      <4>1. def # None /\ counter # None =>
              IF def.increment > 0 THEN counter <= counter' ELSE counter' <= counter
        BY <1>3, <2>1, <2>3, <2>6, <2>7, <3>1, Zenon
      <4> QED
        BY <1>2, <2>1, <2>3, <4>1, FurtherOn, Zenon
    <3>2. era' \in Nat \ {0} /\ era <= era'
      BY <1>2, <2>1
    <3> HIDE DEF turns
    <3> QED
      BY <1>1, <1>2, <2>1, <2>3, <2>5, <3>1, <3>2, Zenon
      DEF Flow, CountsOn, IdentitiesOn, CountersTyped, IntOrNone
  <2>9. session'[s] = t /\ session' = [session EXCEPT ![s] = session'[s]]
    BY <2>1, GotoTo, Zenon
  <2>10. Numbers(t, def, counter', identity', era', writer)
    <3>1. Numbers(me, def', counter', identity', era', writer')
      BY <2>8, NumbersStay, Zenon
    <3>2. era' \in Nat /\ era' # 0
      BY <2>8, Zenon DEF CountersTyped
    <3>3. t.stamp = era' => ~stale
      BY <2>4, <3>2, Zenon
    <3>4. ~stale => Numbered(def, counter', v)
      <4> SUFFICES ASSUME ~stale, def # None, v \notin {None, Saturated, -Saturated - 1}
                   PROVE  Past(def, counter', v)
        BY Zenon DEF Numbered
      <4>1. counter' # None
        BY <2>1, <2>3, ThreadAssumption, Zenon
      <4>2. IF def.increment > 0 THEN c2 > v ELSE c2 < v
        BY <2>3, <2>7, Zenon
      <4> QED
        BY <2>1, <4>1, <4>2, Zenon DEF Past
    <3>5. t.stamp \in Nat /\ t.stamp <= era'
      BY <2>4, <3>2
    <3>6. v \in IntOrNone
      BY <2>2, OptionAssumption DEF I128, IntOrNone
    <3> HIDE DEF stale
    <3> QED
      BY <1>1, <2>4, <3>1, <3>3, <3>4, <3>5, <3>6, Zenon DEF Numbers
  <2> HIDE DEF me
  <2>11. session[s].pc = "advance"
    BY <1>1, Zenon DEF me
  <2>12. \A id \in Int : Identified(identity, id) => Identified(identity', id)
    BY <1>1, Zenon
  <2> QED
    BY <1>1, <2>4, <2>8, <2>9, <2>10, <2>11, <2>12, SessionStep, Zenon
<1> QED
  BY <1>5, <1>6, Zenon

LEMMA FinishRowPreserves ==
  ASSUME IInv, NEW s \in Session, FinishRow(s)
  PROVE  IInv'
<1> DEFINE me == session[s]
           row == [number |-> me.currval, id |-> next_identity,
                   era |-> IF me.stamp = era THEN era ELSE 0]
           t == [Ended(me) EXCEPT !.txn = @ \cup {row}]
<1>1. /\ me.pc = "eval"
      /\ UNCHANGED <<writer, def, rows, counter, saved, admin, era>>
  BY Zenon DEF FinishRow
<1>2. CASE ~me.insert
  BY <1>1, <1>2, EndRow, Zenon DEF FinishRow
<1>3. CASE me.insert
  <2>1. identity' = next_identity + 1 /\ Goto(s, t)
    BY <1>3, Zenon DEF FinishRow
  <2>2. /\ counter \in IntOrNone /\ identity \in IntOrNone /\ era \in Nat \ {0}
        /\ next_identity \in Int /\ (identity # None => next_identity = identity)
    BY DEF IInv, Shared, next_identity, Given, IntOrNone
  <2>3. identity' \in Int /\ identity' # None /\ identity' > next_identity
    BY <2>1, <2>2, ThreadAssumption
  <2>4. \A id \in Int : Identified(identity, id) => Identified(identity', id)
    BY <2>2, <2>3 DEF Identified
  <2>5. Flow /\ CountersTyped
    BY <1>1, <2>2, <2>3, <2>4
    DEF Flow, CountsOn, IdentitiesOn, CountersTyped, IntOrNone
  <2>6. Locals(t, def) /\ t.pc = "idle" /\ t.stamp = me.stamp /\ t.currval = me.currval
        /\ t.txn = me.txn \cup {row}
    <3> HIDE DEF row
    <3> QED
      BY Zenon DEF Ended, Fresh, Locals
  <2> HIDE DEF t
  <2>7. session'[s] = t /\ session' = [session EXCEPT ![s] = session'[s]]
    BY <2>1, GotoTo, Zenon
  <2>8. Numbers(t, def, counter', identity', era', writer)
    <3>1. Numbers(me, def', counter', identity', era', writer')
      BY <2>5, NumbersStay, Zenon
    <3>2. TxnRow(row, def, counter, identity', era, writer)
      <4>1. me.currval \in IntOrNone /\ (me.stamp = era => Numbered(def, counter, me.currval))
        BY <1>1, <3>1, Zenon DEF Numbers
      <4>2. row.era \in Nat /\ row.era <= era /\ (row.era = era => me.stamp = era)
        BY <2>2
      <4>3. Identified(identity', row.id)
        BY <2>3, Zenon DEF Identified
      <4> QED
        BY <2>2, <4>1, <4>2, <4>3, Zenon DEF TxnRow, CountedRow, IsRow
    <3> HIDE DEF row
    <3> QED
      BY <1>1, <2>6, <3>1, <3>2, Zenon DEF Numbers
  <2> QED
    BY <1>1, <2>4, <2>5, <2>6, <2>7, <2>8, SessionStep, Zenon
<1> QED
  BY <1>2, <1>3, Zenon

-----------------------------------------------------------------------------
(* Steps that change the catalog.  They take the write lock, so no restore  *)
(* is between its locks and no other session alters the sequence.           *)

LEMMA NobodyHolds ==
  ASSUME IInv, writer = None
  PROVE  /\ \A s \in Session : session[s].pc \notin {"alter", "restart"}
         /\ \A a \in Admin : admin[a].pc \notin {"restore", "counters"}
         /\ writer \notin Admin
  BY ThreadAssumption, Zenon DEF IInv, Locked

LEMMA CommitPreserves ==
  ASSUME IInv, NEW s \in Session, Commit(s)
  PROVE  IInv'
<1> DEFINE me == session[s]
           t == [me EXCEPT !.txn = {}]
<1>1. /\ me.pc = "idle" /\ writer = None /\ Goto(s, t)
      /\ rows' = IF rows = None THEN None ELSE rows \cup me.txn
      /\ UNCHANGED <<writer, def, counter, identity, saved, admin, era>>
  BY Zenon DEF Commit
<1>2. Locals(t, def) /\ t.pc = "idle"
      /\ t.stamp = me.stamp /\ t.currval = me.currval /\ t.txn = {}
  BY <1>1, SessionFields, Zenon DEF Locals, Fresh
<1>3. Numbers(me, def, counter, identity, era, writer)
  BY Zenon DEF IInv, Sessions
<1>4. session'[s] = t /\ \A r \in Session : r # s => session'[r] = session[r]
  <2>1. session = [r \in Session |-> session[r]]
    BY Zenon DEF IInv, Sessions
  <2> HIDE DEF t
  <2> QED
    BY <1>1, <2>1, Zenon DEF Goto
<1>5. session' = [r \in Session |-> session'[r]]
  <2>1. session = [r \in Session |-> session[r]]
    BY Zenon DEF IInv, Sessions
  <2> HIDE DEF t
  <2> QED
    BY <1>1, <2>1, Zenon DEF Goto
<1> HIDE DEF t
<1>6. Shared'
  <2>1. \A r \in me.txn : FileRow(r, def, counter, identity, era, writer)
    BY <1>1, <1>3, NobodyHolds, Zenon DEF Numbers, TxnRow, FileRow
  <2>2. rows' # None => \A r \in rows' : FileRow(r, def, counter, identity, era, writer)
    BY <1>1, <2>1, Zenon DEF IInv, Shared
  <2> QED
    BY <1>1, <2>2, Zenon DEF IInv, Shared
<1>7. Locked'
  BY <1>1, <1>2, <1>4, Zenon DEF IInv, Locked
<1>8. Sessions'
  <2>1. Numbers(t, def, counter, identity, era, writer)
    BY <1>2, <1>3, Zenon DEF Numbers
  <2>2. ASSUME NEW r \in Session
        PROVE  Locals(session'[r], def) /\ Numbers(session'[r], def, counter, identity, era, writer)
    <3>1. Locals(session[r], def) /\ Numbers(session[r], def, counter, identity, era, writer)
      BY Zenon DEF IInv, Sessions
    <3> QED
      BY <1>2, <1>4, <2>1, <3>1, Zenon
  <2> QED
    BY <1>1, <1>5, <2>2, Zenon DEF Sessions
<1>9. Admins'
  BY <1>1, NobodyHolds, Zenon DEF IInv, Admins, Installing
<1> QED
  BY <1>6, <1>7, <1>8, <1>9, Zenon DEF IInv

LEMMA NewEra ==
  ASSUME IInv, era' = era + 1
  PROVE  Flow /\ era' \in Nat \ {0}
<1>1. era \in Nat \ {0}
  BY Zenon DEF IInv, Shared
<1>2. era' # era /\ era <= era' /\ era' \in Nat \ {0}
  BY <1>1
<1> QED
  BY <1>2, Zenon DEF Flow, CountsOn, IdentitiesOn

(* CREATE and DROP: what was there before belongs to the era that is over.  *)
LEMMA CatalogStep ==
  ASSUME IInv, writer = None, UNCHANGED <<writer, saved, session, admin>>,
         era' = era + 1,
         def' # None => IsDef(def'),
         counter' \in IntOrNone, identity' \in IntOrNone,
         UNCHANGED rows \/ rows' = {} \/ rows' = None
  PROVE  IInv'
<1>1. Flow /\ era' \in Nat \ {0}
  BY NewEra, Zenon
<1>2. Shared'
  <2>1. rows' # None => \A r \in rows' : FileRow(r, def', counter', identity', era', writer')
    BY <1>1, FileStays
  <2> QED
    BY <1>1, <2>1, SavedStays, Zenon DEF Shared
<1>3. Locked'
  BY Zenon DEF IInv, Locked
<1>4. Sessions'
  <2>1. ASSUME NEW s \in Session
        PROVE  /\ Locals(session[s], def')
               /\ Numbers(session[s], def', counter', identity', era', writer')
    BY <1>1, NumbersStay, NobodyHolds, Zenon DEF IInv, Sessions, Locals
  <2> QED
    BY <2>1, Zenon DEF IInv, Sessions
<1>5. Admins'
  <2>1. ASSUME NEW a \in Admin
        PROVE  /\ Copying(admin[a], def', counter', identity', era', writer')
               /\ Installing(admin[a], def', rows', identity')
    BY <1>1, CopyingStays, NobodyHolds, Zenon DEF Installing
  <2> QED
    BY <2>1, Zenon DEF IInv, Admins
<1> QED
  BY <1>2, <1>3, <1>4, <1>5, Zenon DEF IInv

LEMMA CreateSequencePreserves ==
  ASSUME IInv, NEW s \in Session, CreateSequence(s)
  PROVE  IInv'
<1>1. PICK o \in Options : sequence_def(None, o) # None /\ def' = sequence_def(None, o)
  BY Zenon DEF CreateSequence
<1>2. IsDef(def')
  BY <1>1, DefGood, Zenon
<1>3. writer = None /\ counter' = None /\ era' = era + 1
      /\ UNCHANGED <<writer, rows, identity, saved, session, admin>>
  BY Zenon DEF CreateSequence, StartsDdl
<1>4. identity' \in IntOrNone /\ counter' \in IntOrNone
  BY <1>3, Zenon DEF IInv, Shared, IntOrNone
<1> QED
  BY <1>2, <1>3, <1>4, CatalogStep, Zenon

LEMMA DropSequencePreserves ==
  ASSUME IInv, NEW s \in Session, DropSequence(s)
  PROVE  IInv'
<1>3. writer = None /\ def' = None /\ counter' = None /\ era' = era + 1
      /\ UNCHANGED <<writer, rows, identity, saved, session, admin>>
  BY Zenon DEF DropSequence, StartsDdl
<1>4. identity' \in IntOrNone /\ counter' \in IntOrNone
  BY <1>3, Zenon DEF IInv, Shared, IntOrNone
<1> QED
  BY <1>3, <1>4, CatalogStep, Zenon

LEMMA TablePreserves ==
  ASSUME IInv, NEW s \in Session, CreateTable(s) \/ DropTable(s)
  PROVE  IInv'
<1>1. /\ writer = None /\ identity' = None /\ era' = era + 1
      /\ rows' = {} \/ rows' = None
      /\ UNCHANGED <<writer, def, counter, saved, session, admin>>
  BY Zenon DEF CreateTable, DropTable, StartsDdl
<1>2. identity' \in IntOrNone /\ counter' \in IntOrNone /\ (def' # None => IsDef(def'))
  BY <1>1, Zenon DEF IInv, Shared, IntOrNone
<1> QED
  BY <1>1, <1>2, CatalogStep, Zenon

(* ALTER SEQUENCE: the steps of the session that takes, holds or gives back *)
(* the write lock.                                                          *)
LEMMA WriterStep ==
  ASSUME IInv, NEW s \in Session, writer \in {None, s}, writer' \in {None, s},
         Flow, CountersTyped, def' # None => IsDef(def'),
         UNCHANGED <<rows, identity, saved, admin>>,
         session' = [session EXCEPT ![s] = session'[s]],
         Locals(session'[s], def'),
         session'[s].pc \in {"alter", "restart"} <=> writer' = s,
         Numbers(session'[s], def', counter', identity', era', writer')
  PROVE  IInv'
<1>1. /\ session' = [r \in Session |-> session'[r]]
      /\ \A r \in Session : r # s => session'[r] = session[r]
  <2>1. session = [r \in Session |-> session[r]]
    BY Zenon DEF IInv, Sessions
  <2> QED
    BY <2>1, Zenon
<1>2. /\ \A r \in Session : r # s => session[r].pc \notin {"alter", "restart"}
      /\ \A a \in Admin : admin[a].pc \notin {"restore", "counters"}
      /\ \A a \in Admin : a # writer'
      /\ \A r \in Session : r = writer' => r = s
  BY ThreadAssumption DEF IInv, Locked
<1>3. Shared'
  <2>1. rows # None => \A r \in rows : FileRow(r, def', counter', identity', era', writer')
    BY FileStays, Zenon
  <2> QED
    BY <2>1, SavedStays, Zenon DEF Shared, CountersTyped
<1>4. Locked'
  BY <1>1, <1>2, Zenon DEF Locked
<1>5. Sessions'
  <2>1. ASSUME NEW r \in Session
        PROVE  /\ Locals(session'[r], def')
               /\ Numbers(session'[r], def', counter', identity', era', writer')
    <3>1. CASE r = s
      BY <3>1, Zenon
    <3>2. CASE r # s
      <4>1. session'[r] = session[r] /\ Locals(session[r], def)
        BY <1>1, <3>2, Zenon DEF IInv, Sessions
      <4>2. Locals(session[r], def')
        BY <1>2, <3>2, <4>1, Zenon DEF Locals
      <4> QED
        BY <4>1, <4>2, NumbersStay, Zenon
    <3> QED
      BY <3>1, <3>2, Zenon
  <2> QED
    BY <1>1, <2>1, Zenon DEF Sessions
<1>6. Admins'
  <2>1. ASSUME NEW a \in Admin
        PROVE  /\ Copying(admin[a], def', counter', identity', era', writer')
               /\ Installing(admin[a], def', rows', identity')
    BY <1>2, CopyingStays, Zenon DEF Installing
  <2> QED
    BY <2>1, Zenon DEF IInv, Admins
<1> QED
  BY <1>3, <1>4, <1>5, <1>6, Zenon DEF IInv

LEMMA AlterPeekPreserves ==
  ASSUME IInv, NEW s \in Session, AlterPeek(s)
  PROVE  IInv'
<1> DEFINE me == session[s]
<1>1. PICK o \in Options :
        /\ sequence_def(def, o) # None
        /\ Goto(s, [me EXCEPT !.pc = "alter", !.alter = o, !.peeked = counter])
  BY Zenon DEF AlterPeek
<1> DEFINE t == [me EXCEPT !.pc = "alter", !.alter = o, !.peeked = counter]
<1>2. /\ writer = None /\ def # None /\ writer' = s
      /\ UNCHANGED <<def, rows, counter, identity, saved, admin, era>>
  BY Zenon DEF AlterPeek, StartsDdl
<1>3. counter \in IntOrNone /\ era \in Nat \ {0} /\ identity \in IntOrNone
      /\ (def # None => IsDef(def))
  BY Zenon DEF IInv, Shared
<1>4. Locals(t, def) /\ t.pc = "alter"
      /\ t.stamp = me.stamp /\ t.currval = me.currval /\ t.txn = me.txn
  BY <1>1, <1>2, <1>3, SessionFields, Zenon DEF Locals, Fresh
<1> HIDE DEF t
<1>5. Goto(s, t)
  BY <1>1, Zenon DEF t
<1>6. session'[s] = t /\ session' = [session EXCEPT ![s] = session'[s]]
  BY <1>5, GotoTo, Zenon
<1>7. writer' \notin Admin /\ writer \notin Admin
  BY <1>2, ThreadAssumption, Zenon
<1>8. Flow /\ CountersTyped
  BY <1>2, <1>3, <1>7 DEF Flow, CountersTyped, CountsOn, IdentitiesOn
<1>9. Numbers(t, def', counter', identity', era', writer')
  BY <1>4, <1>8, NumbersStay, Zenon DEF Numbers
<1> QED
  BY <1>2, <1>3, <1>4, <1>6, <1>8, <1>9, WriterStep, Zenon

LEMMA AlterMovePreserves ==
  ASSUME IInv, NEW s \in Session, AlterMove(s)
  PROVE  IInv'
<1> DEFINE me == session[s]
           t == [me EXCEPT !.pc = "restart"]
<1>1. /\ me.pc = "alter" /\ Goto(s, t) /\ era' = era + 1
      /\ counter' = IF me.peeked = None THEN counter
                    ELSE me.peeked - def.increment + Altered(s).increment
      /\ UNCHANGED <<writer, def, rows, identity, saved, admin>>
  BY Zenon DEF AlterMove
<1>2. /\ counter \in IntOrNone /\ identity \in IntOrNone
      /\ me.alter \in Options /\ me.peeked \in IntOrNone /\ IsDef(def)
      /\ sequence_def(def, me.alter) # None
      /\ DOMAIN me = DOMAIN Fresh
  BY <1>1, SessionFields, Zenon DEF IInv, Shared, Locals
<1>3. IsDef(Altered(s))
  BY <1>2, DefGood, Zenon DEF Altered
<1>4. Flow /\ CountersTyped
  <2>1. counter' \in IntOrNone
    BY <1>1, <1>2, <1>3 DEF IntOrNone, IsDef
  <2> QED
    BY <1>1, <1>2, <2>1, NewEra, Zenon DEF CountersTyped
<1>5. Locals(t, def) /\ t.pc = "restart"
      /\ t.stamp = me.stamp /\ t.currval = me.currval /\ t.txn = me.txn
  BY <1>1, SessionFields, Zenon DEF Locals, Fresh
<1> HIDE DEF t
<1>6. session'[s] = t /\ session' = [session EXCEPT ![s] = session'[s]]
  BY <1>1, GotoTo, Zenon
<1>7. Numbers(t, def', counter', identity', era', writer')
  BY <1>4, <1>5, NumbersStay, Zenon DEF Numbers
<1>8. writer = s
  BY <1>1, Zenon DEF IInv, Locked
<1> QED
  BY <1>1, <1>2, <1>4, <1>5, <1>6, <1>7, <1>8, WriterStep, Zenon

LEMMA AlterEndPreserves ==
  ASSUME IInv, NEW s \in Session, AlterEnd(s)
  PROVE  IInv'
<1> DEFINE me == session[s]
           o == me.alter
           new == Altered(s)
<1>1. /\ me.pc = "restart" /\ Goto(s, Ended(me)) /\ era' = era + 1
      /\ counter' = IF ~o.restart THEN counter
                    ELSE Given(o.at, IF new.increment > 0 THEN new.min ELSE new.max)
      /\ def' = new /\ writer' = None
      /\ UNCHANGED <<rows, identity, saved, admin>>
  BY Zenon DEF AlterEnd
<1>2. /\ counter \in IntOrNone /\ identity \in IntOrNone
      /\ o \in Options /\ IsDef(def) /\ sequence_def(def, o) # None
  BY <1>1, SessionFields, Zenon DEF IInv, Shared, Locals
<1>3. IsDef(new)
  BY <1>2, DefGood, Zenon DEF Altered
<1>4. Flow /\ CountersTyped
  <2>1. /\ o.at \in I128 \cup {None} /\ I128 \subseteq Int
        /\ new.min \in I128 /\ new.max \in I128
    BY <1>2, <1>3, OptionAssumption DEF IsDef, I128
  <2> HIDE DEF new, o
  <2>2. counter' \in IntOrNone
    BY <1>1, <1>2, <2>1, Zenon DEF IntOrNone, Given
  <2> QED
    BY <1>1, <1>2, <2>2, NewEra, Zenon DEF CountersTyped
<1>5. session'[s] = Ended(me) /\ session' = [session EXCEPT ![s] = session'[s]]
  BY <1>1, GotoTo, Zenon
<1>6. Numbers(Ended(me), def', counter', identity', era', writer')
  BY <1>4, EndedFields, NumbersStay, Zenon DEF Numbers
<1>7. writer = s /\ writer' # s
  BY <1>1, ThreadAssumption, Zenon DEF IInv, Locked
<1> HIDE DEF new, me
<1> QED
  BY <1>1, <1>3, <1>4, <1>5, <1>6, <1>7, EndedFields, WriterStep

-----------------------------------------------------------------------------
(* snapshot(): only the copy and the saved snapshot change.                 *)

LEMMA EmptyGood ==
  ASSUME NEW e \in Nat
  PROVE  IsSnapshot(EmptySnapshot, e) /\ Paired(EmptySnapshot)
  BY DEF IsSnapshot, Paired, EmptySnapshot, IntOrNone

LEMMA AdminStep ==
  ASSUME IInv, NEW a \in Admin,
         UNCHANGED <<writer, def, rows, counter, identity, session, era>>,
         admin' = [admin EXCEPT ![a] = admin'[a]],
         Copying(admin'[a], def, counter, identity, era, writer),
         admin[a].pc \notin {"restore", "counters"},
         admin'[a].pc \notin {"restore", "counters"},
         IsSnapshot(saved', era), Paired(saved')
  PROVE  IInv'
<1>1. /\ admin' = [b \in Admin |-> admin'[b]]
      /\ \A b \in Admin : b # a => admin'[b] = admin[b]
  <2>1. admin = [b \in Admin |-> admin[b]]
    BY Zenon DEF IInv, Admins
  <2> QED
    BY <2>1, Zenon
<1>2. Shared' /\ Sessions'
  BY Zenon DEF IInv, Shared, Sessions
<1>3. Locked'
  BY <1>1, Zenon DEF IInv, Locked
<1>4. Admins'
  <2>1. ASSUME NEW b \in Admin
        PROVE  /\ Copying(admin'[b], def, counter, identity, era, writer)
               /\ Installing(admin'[b], def, rows, identity)
    <3>1. CASE b = a
      BY <3>1, Zenon DEF Installing
    <3>2. CASE b # a
      BY <1>1, <3>2, Zenon DEF IInv, Admins
    <3> QED
      BY <3>1, <3>2, Zenon
  <2> QED
    BY <1>1, <2>1, Zenon DEF Admins
<1> QED
  BY <1>2, <1>3, <1>4, Zenon DEF IInv

LEMMA AdminTo ==
  ASSUME IInv, NEW a \in Admin, NEW m, admin' = [admin EXCEPT ![a] = m]
  PROVE  admin'[a] = m /\ admin' = [admin EXCEPT ![a] = admin'[a]]
<1>1. admin = [b \in Admin |-> admin[b]]
  BY Zenon DEF IInv, Admins
<1> QED
  BY <1>1, Zenon

LEMMA SnapshotTablesPreserves ==
  ASSUME IInv, NEW a \in Admin, SnapshotTables(a)
  PROVE  IInv'
<1> DEFINE p == [EmptySnapshot EXCEPT !.def = def, !.rows = rows]
           m == [pc |-> "identities", copy |-> p]
<1>1. /\ admin[a].pc = "idle" /\ admin' = [admin EXCEPT ![a] = m]
      /\ UNCHANGED <<writer, def, rows, counter, identity, saved, session, era>>
  BY Zenon DEF SnapshotTables, AdminAt
<1>2. /\ DOMAIN p = DOMAIN EmptySnapshot
      /\ p.def = def /\ p.rows = rows /\ p.counter = None /\ p.identity = None /\ p.era = 0
  BY Zenon DEF EmptySnapshot
<1>3. m.pc = "identities" /\ m.copy = p /\ DOMAIN m = {"pc", "copy"}
  BY Zenon
<1> HIDE DEF m, p
<1>4. IsSnapshot(p, era) /\ WithTables(p, def, counter, identity, era, writer)
  <2>1. /\ def # None => IsDef(def)
        /\ era \in Nat
        /\ rows # None => \A r \in rows : FileRow(r, def, counter, identity, era, writer)
    BY Zenon DEF IInv, Shared
  <2> QED
    BY <1>2, <2>1 DEF IsSnapshot, WithTables, FileRow, CountedRow, IntOrNone
<1>5. Copying(m, def, counter, identity, era, writer)
  BY <1>3, <1>4, Zenon DEF Copying
<1>6. IsSnapshot(saved', era) /\ Paired(saved')
  BY <1>1, Zenon DEF IInv, Shared
<1>7. admin'[a] = m /\ admin' = [admin EXCEPT ![a] = admin'[a]]
  BY <1>1, AdminTo, Zenon
<1> QED
  BY <1>1, <1>3, <1>5, <1>6, <1>7, AdminStep, Zenon

LEMMA SnapshotIdentitiesPreserves ==
  ASSUME IInv, NEW a \in Admin, SnapshotIdentities(a)
  PROVE  IInv'
<1> DEFINE old == admin[a]
           p == [old.copy EXCEPT !.identity = identity, !.era = era]
           m == [old EXCEPT !.pc = "sequences", !.copy = p]
<1>1. /\ old.pc = "identities"
      /\ UNCHANGED <<writer, def, rows, counter, identity, saved, session, era>>
  BY Zenon DEF SnapshotIdentities, AdminAt
<1>2. Copying(old, def, counter, identity, era, writer)
  BY Zenon DEF IInv, Admins
<1>3. /\ DOMAIN old = {"pc", "copy"} /\ DOMAIN old.copy = DOMAIN EmptySnapshot
      /\ IsSnapshot(old.copy, era) /\ WithTables(old.copy, def, counter, identity, era, writer)
  BY <1>1, <1>2, Zenon DEF Copying, IsSnapshot
<1>4. admin' = [admin EXCEPT ![a] = m]
  <2>1. admin = [b \in Admin |-> admin[b]]
    BY Zenon DEF IInv, Admins
  <2> QED
    BY <2>1, <1>3, Zenon DEF SnapshotIdentities
<1>5. /\ DOMAIN p = DOMAIN EmptySnapshot /\ p.identity = identity /\ p.era = era
      /\ p.def = old.copy.def /\ p.rows = old.copy.rows /\ p.counter = old.copy.counter
  BY <1>3, Zenon DEF EmptySnapshot
<1>6. m.pc = "sequences" /\ m.copy = p /\ DOMAIN m = {"pc", "copy"}
  BY <1>3, Zenon
<1> HIDE DEF m, p
<1>7. era \in Nat \ {0} /\ identity \in IntOrNone
  BY Zenon DEF IInv, Shared
<1>8. IsSnapshot(p, era) /\ WithIdentities(p, def, counter, era)
  BY <1>3, <1>5, <1>7 DEF IsSnapshot, WithTables, WithIdentities, FileRow, CountedRow
<1>9. Copying(m, def, counter, identity, era, writer)
  BY <1>5, <1>6, <1>7, <1>8, Zenon DEF Copying
<1>10. IsSnapshot(saved', era) /\ Paired(saved')
  BY <1>1, Zenon DEF IInv, Shared
<1>11. admin'[a] = m /\ admin' = [admin EXCEPT ![a] = admin'[a]]
  BY <1>4, AdminTo, Zenon
<1> QED
  BY <1>1, <1>6, <1>9, <1>10, <1>11, AdminStep, Zenon

LEMMA SnapshotSequencesPreserves ==
  ASSUME IInv, NEW a \in Admin, SnapshotSequences(a)
  PROVE  IInv'
<1> DEFINE q == admin[a].copy
           p == [q EXCEPT !.counter = counter, !.era = IF q.era = era THEN era ELSE 0]
           m == [pc |-> "idle", copy |-> EmptySnapshot]
<1>1. /\ admin[a].pc = "sequences" /\ admin' = [admin EXCEPT ![a] = m]
      /\ UNCHANGED <<writer, def, rows, counter, identity, session, era>>
  BY Zenon DEF SnapshotSequences, AdminAt
<1>2. Copying(admin[a], def, counter, identity, era, writer)
  BY Zenon DEF IInv, Admins
<1>3. /\ DOMAIN q = DOMAIN EmptySnapshot
      /\ IsSnapshot(q, era) /\ WithIdentities(q, def, counter, era)
  BY <1>1, <1>2, Zenon DEF Copying, IsSnapshot
<1>4. saved' = p
  BY <1>3, Zenon DEF SnapshotSequences, EmptySnapshot
<1>5. /\ DOMAIN p = DOMAIN EmptySnapshot /\ p.counter = counter
      /\ p.era = IF q.era = era THEN era ELSE 0
      /\ p.def = q.def /\ p.rows = q.rows /\ p.identity = q.identity
  BY <1>3, Zenon DEF EmptySnapshot
<1>6. m.pc = "idle" /\ m.copy = EmptySnapshot /\ DOMAIN m = {"pc", "copy"}
  BY Zenon
<1> HIDE DEF m, p
<1>7. era \in Nat \ {0} /\ counter \in IntOrNone
  BY Zenon DEF IInv, Shared
<1>8. IsSnapshot(p, era)
  BY <1>3, <1>5, <1>7 DEF IsSnapshot
<1>9. Paired(p)
  BY <1>3, <1>5, <1>7, Zenon DEF Paired, WithIdentities
<1>10. Copying(m, def, counter, identity, era, writer)
  BY <1>6, <1>7, EmptyGood, Zenon DEF Copying
<1>11. admin'[a] = m /\ admin' = [admin EXCEPT ![a] = admin'[a]]
  BY <1>1, AdminTo, Zenon
<1> QED
  BY <1>1, <1>4, <1>6, <1>8, <1>9, <1>10, <1>11, AdminStep, Zenon

-----------------------------------------------------------------------------
(* restore(): it holds the write lock, so no session alters the sequence    *)
(* and no other administrator restores.                                     *)

LEMMA RestoreStep ==
  ASSUME IInv, NEW a \in Admin, writer \in {None, a}, writer' \in {None, a},
         Flow, CountersTyped, def' # None => IsDef(def'),
         rows' # None => \A r \in rows' : FileRow(r, def', counter', identity', era', writer'),
         UNCHANGED <<saved, session>>,
         admin' = [admin EXCEPT ![a] = admin'[a]],
         admin'[a].pc \in {"restore", "counters"} <=> writer' = a,
         Copying(admin'[a], def', counter', identity', era', writer'),
         Installing(admin'[a], def', rows', identity')
  PROVE  IInv'
<1>1. /\ admin' = [b \in Admin |-> admin'[b]]
      /\ \A b \in Admin : b # a => admin'[b] = admin[b]
  <2>1. admin = [b \in Admin |-> admin[b]]
    BY Zenon DEF IInv, Admins
  <2> QED
    BY <2>1, Zenon
<1>2. /\ \A s \in Session : session[s].pc \notin {"alter", "restart"} /\ s # writer'
      /\ \A b \in Admin : b # a => admin[b].pc \notin {"restore", "counters"}
      /\ \A b \in Admin : b = writer' => b = a
  BY ThreadAssumption DEF IInv, Locked
<1>3. Shared'
  BY SavedStays, Zenon DEF Shared, CountersTyped
<1>4. Locked'
  BY <1>1, <1>2, Zenon DEF Locked
<1>5. Sessions'
  <2>1. ASSUME NEW s \in Session
        PROVE  /\ Locals(session[s], def')
               /\ Numbers(session[s], def', counter', identity', era', writer')
    BY <1>2, NumbersStay, Zenon DEF IInv, Sessions, Locals
  <2> QED
    BY <2>1, Zenon DEF IInv, Sessions
<1>6. Admins'
  <2>1. ASSUME NEW b \in Admin
        PROVE  /\ Copying(admin'[b], def', counter', identity', era', writer')
               /\ Installing(admin'[b], def', rows', identity')
    <3>1. CASE b = a
      BY <3>1, Zenon
    <3>2. CASE b # a
      <4>1. admin'[b] = admin[b] /\ admin[b].pc \notin {"restore", "counters"}
        BY <1>1, <1>2, <3>2, Zenon
      <4> QED
        BY <4>1, CopyingStays, Zenon DEF Installing
    <3> QED
      BY <3>1, <3>2, Zenon
  <2> QED
    BY <1>1, <2>1, Zenon DEF Admins
<1> QED
  BY <1>3, <1>4, <1>5, <1>6, Zenon DEF IInv

LEMMA RestoreTablesPreserves ==
  ASSUME IInv, NEW a \in Admin, RestoreTables(a)
  PROVE  IInv'
<1>1. PICK p \in {saved, EmptySnapshot} :
        /\ def' = p.def /\ rows' = p.rows
        /\ admin' = [admin EXCEPT ![a] = [pc |-> "restore", copy |-> p]]
  BY Zenon DEF RestoreTables
<1> DEFINE m == [pc |-> "restore", copy |-> p]
<1>2. /\ writer = None /\ writer' = a /\ era' = era + 1
      /\ UNCHANGED <<counter, identity, saved, session>>
  BY Zenon DEF RestoreTables
<1>3. era \in Nat \ {0} /\ counter \in IntOrNone /\ identity \in IntOrNone
  BY Zenon DEF IInv, Shared
<1>4. IsSnapshot(p, era) /\ Paired(p)
  BY <1>1, <1>3, EmptyGood, Zenon DEF IInv, Shared
<1>5. Flow /\ CountersTyped
  BY <1>2, <1>3, NewEra, Zenon DEF CountersTyped
<1>6. m.pc = "restore" /\ m.copy = p /\ DOMAIN m = {"pc", "copy"}
  BY Zenon
<1> HIDE DEF m
<1>7. admin'[a] = m /\ admin' = [admin EXCEPT ![a] = admin'[a]]
  <2>1. admin' = [admin EXCEPT ![a] = m]
    BY <1>1, Zenon DEF m
  <2> QED
    BY <2>1, AdminTo, Zenon
<1>8. IsSnapshot(p, era')
  BY <1>2, <1>3, <1>4, SnapshotFlows
<1>9. Copying(m, def', counter', identity', era', writer')
      /\ Installing(m, def', rows', identity')
  BY <1>1, <1>4, <1>6, <1>8, Zenon DEF Copying, Installing
<1>10. ASSUME rows' # None, NEW r \in rows'
       PROVE  FileRow(r, def', counter', identity', era', writer')
  <2>1. IsRow(r) /\ r.era <= era /\ r.era \in Nat
    BY <1>1, <1>4, <1>10, Zenon DEF IsSnapshot, IsRow
  <2>2. r.era <= era' /\ r.era # era'
    BY <1>2, <1>3, <2>1
  <2> QED
    BY <2>1, <2>2, Zenon DEF FileRow, CountedRow
<1>11. def' # None => IsDef(def')
  BY <1>1, <1>4, Zenon DEF IsSnapshot
<1> QED
  BY <1>2, <1>5, <1>6, <1>7, <1>9, <1>10, <1>11, RestoreStep

LEMMA RestoreIdentitiesPreserves ==
  ASSUME IInv, NEW a \in Admin, RestoreIdentities(a)
  PROVE  IInv'
<1> DEFINE old == admin[a]
           m == [old EXCEPT !.pc = "counters"]
<1>1. /\ old.pc = "restore" /\ identity' = old.copy.identity
      /\ UNCHANGED <<writer, def, rows, counter, saved, session, era>>
  BY Zenon DEF RestoreIdentities, AdminAt
<1>2. writer = a
  BY <1>1, Zenon DEF IInv, Locked
<1>3. /\ Copying(old, def, counter, identity, era, writer)
      /\ Installing(old, def, rows, identity)
      /\ DOMAIN old = {"pc", "copy"}
  BY Zenon DEF IInv, Admins, Copying
<1>4. admin' = [admin EXCEPT ![a] = m]
  <2>1. admin = [b \in Admin |-> admin[b]]
    BY Zenon DEF IInv, Admins
  <2> QED
    BY <2>1, Zenon DEF RestoreIdentities
<1>5. m.pc = "counters" /\ m.copy = old.copy /\ DOMAIN m = {"pc", "copy"}
  BY <1>3, Zenon
<1> HIDE DEF m
<1>6. admin'[a] = m /\ admin' = [admin EXCEPT ![a] = admin'[a]]
  BY <1>4, AdminTo, Zenon
<1>7. Flow /\ CountersTyped
  <2>1. era \in Nat \ {0} /\ counter \in IntOrNone /\ identity' \in IntOrNone
    BY <1>1, <1>3, Zenon DEF IInv, Shared, Copying, IsSnapshot
  <2> QED
    BY <1>1, <1>2, <2>1 DEF Flow, CountersTyped, CountsOn, IdentitiesOn
<1>8. Copying(m, def', counter', identity', era', writer')
  BY <1>1, <1>3, <1>5, Zenon DEF Copying
<1>9. Installing(m, def', rows', identity')
  BY <1>1, <1>3, <1>5, Zenon DEF Installing
<1>10. rows # None => \A r \in rows : FileRow(r, def', counter', identity', era', writer')
  BY <1>7, FileStays, Zenon
<1>11. def' # None => IsDef(def')
  BY <1>1, Zenon DEF IInv, Shared
<1> QED
  BY <1>1, <1>2, <1>5, <1>6, <1>7, <1>8, <1>9, <1>10, <1>11, RestoreStep, Zenon

LEMMA RestoreSequencesPreserves ==
  ASSUME IInv, NEW a \in Admin, RestoreSequences(a)
  PROVE  IInv'
<1> DEFINE p == admin[a].copy
           m == [pc |-> "idle", copy |-> EmptySnapshot]
<1>1. /\ admin[a].pc = "counters" /\ counter' = p.counter
      /\ rows' = IF rows = None \/ p.era = 0 THEN rows ELSE {Renew(r, p.era) : r \in rows}
      /\ era' = era + 1 /\ writer' = None
      /\ admin' = [admin EXCEPT ![a] = m]
      /\ UNCHANGED <<def, identity, saved, session>>
  BY Zenon DEF RestoreSequences, AdminAt
<1>2. writer = a
  BY <1>1, Zenon DEF IInv, Locked
<1>3. /\ IsSnapshot(p, era) /\ Paired(p) /\ def = p.def /\ rows = p.rows
      /\ \A id \in Int : Identified(p.identity, id) => Identified(identity, id)
  <2>1. Copying(admin[a], def, counter, identity, era, writer)
        /\ Installing(admin[a], def, rows, identity)
    BY Zenon DEF IInv, Admins
  <2> QED
    BY <1>1, <2>1, Zenon DEF Copying, Installing
<1>4. era \in Nat \ {0} /\ identity \in IntOrNone /\ p.counter \in IntOrNone
      /\ (def # None => IsDef(def))
  BY <1>3, Zenon DEF IInv, Shared, IsSnapshot
<1>5. Flow /\ CountersTyped
  BY <1>1, <1>4, NewEra, Zenon DEF CountersTyped
<1>6. m.pc = "idle" /\ m.copy = EmptySnapshot /\ DOMAIN m = {"pc", "copy"}
  BY Zenon
<1> HIDE DEF m
<1>7. admin'[a] = m /\ admin' = [admin EXCEPT ![a] = admin'[a]]
  BY <1>1, AdminTo, Zenon
<1>8. Copying(m, def', counter', identity', era', writer')
      /\ Installing(m, def', rows', identity')
  <2>1. era' \in Nat
    BY <1>5, Zenon DEF CountersTyped
  <2> QED
    BY <1>6, <2>1, EmptyGood, Zenon DEF Copying, Installing
<1>9. ASSUME rows # None, NEW r \in rows
      PROVE  IsRow(r) /\ r.era <= era /\ r.era < era' /\ r.era \in Nat
  <2>1. IsRow(r) /\ r.era <= era /\ r.era \in Nat
    BY <1>3, <1>9, Zenon DEF IsSnapshot, IsRow
  <2> QED
    BY <1>1, <1>4, <2>1
<1>10. ASSUME NEW r, IsRow(r), r.era \in Nat, r.era < era'
       PROVE  FileRow(r, def', counter', identity', era', writer')
  <2>1. era' \in Nat
    BY <1>5, Zenon DEF CountersTyped
  <2>2. r.era <= era' /\ r.era # era'
    BY <1>10, <2>1
  <2> QED
    BY <1>10, <2>2, Zenon DEF FileRow, CountedRow
<1>11. ASSUME rows # None, p.era # 0, NEW r \in rows
       PROVE  FileRow(Renew(r, p.era), def', counter', identity', era', writer')
  <2>1. CASE r.era # p.era
    <3>1. Renew(r, p.era) = r
      BY <2>1, Zenon DEF Renew
    <3> QED
      BY <1>9, <1>10, <1>11, <3>1, Zenon
  <2>2. CASE r.era = p.era
    <3> DEFINE x == Renew(r, p.era)
    <3>1. IsRow(r)
      BY <1>9, <1>11, Zenon
    <3>2. DOMAIN x = {"number", "id", "era"} /\ x.number = r.number /\ x.id = r.id
          /\ x.era = era'
      BY <1>1, <2>2, <3>1, Zenon DEF Renew, IsRow
    <3> HIDE DEF x
    <3>3. Numbered(p.def, p.counter, r.number) /\ Identified(p.identity, r.id)
      BY <1>3, <1>11, <2>2, Zenon DEF Paired
    <3>4. Identified(identity, r.id)
      BY <1>3, <3>1, <3>3, Zenon DEF IsRow
    <3>5. IsRow(x) /\ era' <= era'
      BY <1>5, <3>1, <3>2 DEF IsRow, CountersTyped
    <3>6. writer' \notin Admin
      BY <1>1, ThreadAssumption, Zenon
    <3>7. FileRow(x, def', counter', identity', era', writer')
      BY <1>1, <1>3, <3>2, <3>3, <3>4, <3>5, <3>6, Zenon DEF FileRow, CountedRow
    <3> QED
      BY <3>7, Zenon DEF x
  <2> QED
    BY <2>1, <2>2, Zenon
<1>12. rows' # None => \A r \in rows' : FileRow(r, def', counter', identity', era', writer')
  <2>1. CASE rows = None \/ p.era = 0
    BY <1>1, <1>9, <1>10, <2>1, Zenon
  <2>2. CASE rows # None /\ p.era # 0
    BY <1>1, <1>11, <2>2, Zenon
  <2> QED
    BY <2>1, <2>2, Zenon
<1>13. a # None /\ writer' # a
  BY <1>1, ThreadAssumption, Zenon
<1> QED
  BY <1>1, <1>2, <1>4, <1>5, <1>6, <1>7, <1>8, <1>12, <1>13, RestoreStep, Zenon

-----------------------------------------------------------------------------
(* From the actions to the specification *)

LEMMA InitIInv ==
  ASSUME Init
  PROVE  IInv
<1>1. PICK o \in Options : sequence_def(None, o) # None /\ def = sequence_def(None, o)
  BY Zenon DEF Init
<1>2. IsDef(def)
  BY <1>1, DefGood, Zenon
<1>3. Shared
  BY <1>2, EmptyGood DEF Init, Shared, IntOrNone
<1>4. Locals(Fresh, def) /\ Numbers(Fresh, def, counter, identity, era, writer)
      /\ Fresh.pc = "idle"
  BY DEF Init, Locals, Numbers, Fresh, IntOrNone
<1>5. \A s \in Session : session[s] = Fresh
  BY Zenon DEF Init
<1>6. Sessions
  BY <1>4, <1>5, Zenon DEF Init, Sessions
<1> DEFINE m == [pc |-> "idle", copy |-> EmptySnapshot]
<1>7. m.pc = "idle" /\ m.copy = EmptySnapshot /\ DOMAIN m = {"pc", "copy"}
  BY Zenon
<1> HIDE DEF m
<1>8. \A a \in Admin : admin[a] = m
  BY Zenon DEF Init, m
<1>9. Copying(m, def, counter, identity, era, writer) /\ Installing(m, def, rows, identity)
  BY <1>7, EmptyGood, Zenon DEF Init, Copying, Installing
<1>10. Admins
  BY <1>8, <1>9, Zenon DEF Init, Admins, m
<1>11. Locked
  BY <1>4, <1>5, <1>7, <1>8, ThreadAssumption, Zenon DEF Init, Locked
<1> QED
  BY <1>3, <1>6, <1>10, <1>11, Zenon DEF IInv

LEMMA NextIInv ==
  ASSUME IInv, [Next]_vars
  PROVE  IInv'
<1>1. ASSUME NEW s \in Session,
             \/ StartRow(s) \/ ReadDef(s) \/ Advance(s) \/ Refer(s) \/ Subquery(s)
             \/ FinishRow(s) \/ Commit(s) \/ Rollback(s)
      PROVE  IInv'
  BY <1>1, StartRowPreserves, ReadDefPreserves, AdvancePreserves, ReferPreserves,
     SubqueryPreserves, FinishRowPreserves, CommitPreserves, RollbackPreserves, Zenon
<1>2. ASSUME NEW s \in Session,
             \/ CreateSequence(s) \/ DropSequence(s) \/ CreateTable(s) \/ DropTable(s)
             \/ AlterPeek(s) \/ AlterMove(s) \/ AlterEnd(s)
      PROVE  IInv'
  BY <1>2, CreateSequencePreserves, DropSequencePreserves, TablePreserves,
     AlterPeekPreserves, AlterMovePreserves, AlterEndPreserves, Zenon
<1>3. ASSUME NEW a \in Admin,
             \/ SnapshotTables(a) \/ SnapshotIdentities(a) \/ SnapshotSequences(a)
             \/ RestoreTables(a) \/ RestoreIdentities(a) \/ RestoreSequences(a)
      PROVE  IInv'
  BY <1>3, SnapshotTablesPreserves, SnapshotIdentitiesPreserves, SnapshotSequencesPreserves,
     RestoreTablesPreserves, RestoreIdentitiesPreserves, RestoreSequencesPreserves, Zenon
<1>4. CASE UNCHANGED vars
  BY <1>4, Zenon DEF vars, IInv, Shared, Locked, Sessions, Admins
<1> QED
  BY <1>1, <1>2, <1>3, <1>4, Zenon DEF Next

(* In every reachable state every number of the present era, in a row, in a *)
(* transaction, as a CURRVAL or in a snapshot under way, is behind the      *)
(* counter that gave it.                                                    *)
THEOREM NumberingInvariant == Spec => []IInv
<1>1. Init => IInv
  BY InitIInv, Zenon
<1>2. IInv /\ [Next]_vars => IInv'
  BY NextIInv, Zenon
<1> QED
  BY <1>1, <1>2, PTL DEF Spec

(* NumbersNotReissued for any number of sessions and administrators and any *)
(* option lists: next_sequence and next_identity (lib.rs) never return a    *)
(* number a committed row of their era holds, although snapshot() and       *)
(* restore() copy rows and counters under different locks.                  *)
THEOREM NumbersAreNotReissued == Spec => []NumbersNotReissued
<1>1. IInv => NumbersNotReissued
  BY Zenon DEF IInv, Shared, FileRow, CountedRow, Numbered, Identified, NumbersNotReissued
<1> QED
  BY <1>1, NumberingInvariant, PTL

-----------------------------------------------------------------------------
(* One value per row.  `cached` is what start_row fetched; it stands for    *)
(* every NEXTVAL of the row until a subquery clears it, so before a         *)
(* subquery NEXTVAL is never asked a second time.                           *)
OneValue(t) ==
  /\ t.k \in Nat
  /\ ~t.nested => t.seen \subseteq {t.currval}
  /\ t.k = 0 => t.seen = {}
  /\ ~t.nested => t.cached \in {None, t.currval}
  /\ t.pc \in {"def", "advance"} => t.nested \/ t.k = 0
  /\ t.pc = "eval" => /\ t.k # 0
                      /\ ~t.nested /\ MentionsNext(t.expr) => t.cached # None
  /\ t.pc \in {"def", "advance", "eval"} => t.expr \in Seq({"next", "curr", "sub"})

RowInv == IInv /\ \A s \in Session : OneValue(session[s])

LEMMA OneValueStep ==
  ASSUME RowInv, NEW s \in Session, NEW t, Goto(s, t), OneValue(t)
  PROVE  \A r \in Session : OneValue(session'[r])
<1>1. session = [r \in Session |-> session[r]]
  BY Zenon DEF RowInv, IInv, Sessions
<1>2. session'[s] = t /\ \A r \in Session : r # s => session'[r] = session[r]
  BY <1>1, Zenon DEF Goto
<1> QED
  BY <1>2, Zenon DEF RowInv

LEMMA EndedOneValue ==
  ASSUME NEW r
  PROVE  OneValue(Ended(r))
  BY Zenon DEF Ended, Fresh, OneValue

(* A session outside a row keeps what the last one left.                    *)
LEMMA OutsideRow ==
  ASSUME NEW t, NEW u, OneValue(t), u.pc \in {"idle", "alter", "restart"},
         u.k = t.k, u.seen = t.seen, u.nested = t.nested, u.cached = t.cached,
         u.currval = t.currval
  PROVE  OneValue(u)
  BY Zenon DEF OneValue

LEMMA StartRowOneValue ==
  ASSUME RowInv, NEW s \in Session, StartRow(s)
  PROVE  \A r \in Session : OneValue(session'[r])
<1>1. PICK e \in Exprs : Goto(s, [Ended(session[s]) EXCEPT
                     !.pc = IF MentionsNext(e.refs) THEN "def" ELSE "eval",
                     !.k = IF MentionsNext(e.refs) THEN 0 ELSE 1,
                     !.expr = e.refs, !.insert = e.insert])
  BY Zenon DEF StartRow
<1> DEFINE n == MentionsNext(e.refs)
           t == [Ended(session[s]) EXCEPT !.pc = IF n THEN "def" ELSE "eval",
                     !.k = IF n THEN 0 ELSE 1, !.expr = e.refs, !.insert = e.insert]
<1>2. /\ t.pc = IF n THEN "def" ELSE "eval"
      /\ t.k = IF n THEN 0 ELSE 1
      /\ t.expr = e.refs /\ t.seen = {} /\ t.cached = None /\ t.nested = FALSE
  <2> HIDE DEF n
  <2> QED
    BY Zenon DEF Ended, Fresh
<1> HIDE DEF t
<1>3. OneValue(t)
  BY <1>2, ExprAssumption DEF OneValue
<1>4. Goto(s, t)
  BY <1>1, Zenon DEF t
<1> QED
  BY <1>3, <1>4, OneValueStep, Zenon

LEMMA ReadDefOneValue ==
  ASSUME RowInv, NEW s \in Session, ReadDef(s)
  PROVE  \A r \in Session : OneValue(session'[r])
<1> DEFINE me == session[s]
           t == [me EXCEPT !.pc = "advance", !.def = def]
<1>1. /\ me.pc = "def" /\ OneValue(me) /\ DOMAIN me = DOMAIN Fresh
      /\ Goto(s, Ended(me)) \/ Goto(s, t)
  BY SessionFields, Zenon DEF RowInv, ReadDef
<1>2. /\ t.pc = "advance" /\ t.k = me.k /\ t.seen = me.seen /\ t.nested = me.nested
      /\ t.cached = me.cached /\ t.currval = me.currval /\ t.expr = me.expr
  BY <1>1, Zenon DEF Fresh
<1> HIDE DEF t
<1>3. OneValue(t)
  BY <1>1, <1>2, Zenon DEF OneValue
<1> QED
  BY <1>1, <1>3, EndedOneValue, OneValueStep, Zenon

LEMMA AdvanceOneValue ==
  ASSUME RowInv, NEW s \in Session, Advance(s)
  PROVE  \A r \in Session : OneValue(session'[r])
<1> DEFINE me == session[s]
           v == NextValue(me.def, counter)
           stale == def # None /\ (def.increment > 0) # (me.def.increment > 0)
           t == [me EXCEPT
                   !.pc = "eval", !.k = @ + 1, !.def = None, !.currval = v,
                   !.stamp = IF stale THEN 0 ELSE era',
                   !.cached = IF me.k = 0 THEN v ELSE @,
                   !.seen = IF me.k = 0 THEN @ ELSE @ \cup {v}]
<1>1. me.pc = "advance" /\ OneValue(me) /\ DOMAIN me = DOMAIN Fresh
  BY SessionFields, Zenon DEF RowInv, Advance
<1>2. CASE v = None
  BY <1>2, EndedOneValue, OneValueStep, Zenon DEF Advance
<1>3. CASE v # None
  <2>1. Goto(s, t)
    BY <1>3, Zenon DEF Advance
  <2>2. /\ t.pc = "eval" /\ t.k = me.k + 1 /\ t.nested = me.nested /\ t.expr = me.expr
        /\ t.cached = IF me.k = 0 THEN v ELSE me.cached
        /\ t.seen = IF me.k = 0 THEN me.seen ELSE me.seen \cup {v}
        /\ t.currval = v
    <3> HIDE DEF v, stale
    <3> QED
      BY <1>1, Zenon DEF Fresh
  <2> HIDE DEF t, v
  <2>3. OneValue(t)
    BY <1>1, <1>3, <2>2 DEF OneValue
  <2> QED
    BY <2>1, <2>3, OneValueStep, Zenon
<1> QED
  BY <1>2, <1>3, Zenon

LEMMA ReferOneValue ==
  ASSUME RowInv, NEW s \in Session, Refer(s)
  PROVE  \A r \in Session : OneValue(session'[r])
<1> DEFINE me == session[s]
           gets(v) == [me EXCEPT !.k = @ + 1, !.seen = @ \cup {v}]
           again == [me EXCEPT !.pc = "def"]
<1>1. /\ me.pc = "eval" /\ OneValue(me) /\ DOMAIN me = DOMAIN Fresh
      /\ me.k <= Len(me.expr)
  BY SessionFields, Zenon DEF RowInv, Refer
<1>2. \/ Goto(s, Ended(me))
      \/ me.cached = None /\ me.expr[me.k] = "next" /\ Goto(s, again)
      \/ me.cached # None /\ Goto(s, gets(me.cached))
      \/ Goto(s, gets(me.currval))
  BY Zenon DEF Refer
<1>3. CASE Goto(s, Ended(me))
  BY <1>3, EndedOneValue, OneValueStep, Zenon
<1>4. ASSUME NEW v, Goto(s, gets(v)), ~me.nested => v = me.currval
      PROVE  \A r \in Session : OneValue(session'[r])
  <2> DEFINE t == gets(v)
  <2>1. /\ t.pc = me.pc /\ t.k = me.k + 1 /\ t.nested = me.nested /\ t.expr = me.expr
        /\ t.cached = me.cached /\ t.currval = me.currval
        /\ t.seen = me.seen \cup {v}
    BY <1>1, Zenon DEF Fresh
  <2> HIDE DEF t
  <2>2. OneValue(t)
    BY <1>1, <1>4, <2>1 DEF OneValue
  <2> QED
    BY <1>4, <2>2, OneValueStep, Zenon DEF t
<1>5. CASE me.cached # None /\ Goto(s, gets(me.cached))
  <2>1. ~me.nested => me.cached = me.currval
    BY <1>1, <1>5, Zenon DEF OneValue
  <2> HIDE DEF gets
  <2> QED
    BY <1>4, <1>5, <2>1, Zenon
<1>6. CASE me.cached = None /\ me.expr[me.k] = "next" /\ Goto(s, again)
  <2>1. MentionsNext(me.expr)
    <3>1. me.k \in 1..Len(me.expr)
      BY <1>1 DEF OneValue
    <3>2. DOMAIN me.expr = 1..Len(me.expr)
      BY <1>1 DEF OneValue
    <3> QED
      BY <1>6, <3>1, <3>2, Zenon DEF MentionsNext
  <2>2. me.nested
    BY <1>1, <1>6, <2>1, Zenon DEF OneValue
  <2>3. /\ again.pc = "def" /\ again.k = me.k /\ again.nested = me.nested
        /\ again.cached = me.cached /\ again.currval = me.currval
        /\ again.seen = me.seen /\ again.expr = me.expr
    BY <1>1, Zenon DEF Fresh
  <2> HIDE DEF again
  <2>4. OneValue(again)
    BY <1>1, <2>2, <2>3, Zenon DEF OneValue
  <2> QED
    BY <1>6, <2>4, OneValueStep, Zenon
<1> HIDE DEF gets, again
<1> QED
  BY <1>2, <1>3, <1>4, <1>5, <1>6, Zenon

LEMMA SubqueryOneValue ==
  ASSUME RowInv, NEW s \in Session, Subquery(s)
  PROVE  \A r \in Session : OneValue(session'[r])
<1> DEFINE me == session[s]
           t == [me EXCEPT !.k = @ + 1, !.cached = None, !.nested = TRUE]
<1>1. me.pc = "eval" /\ Goto(s, t) /\ OneValue(me) /\ DOMAIN me = DOMAIN Fresh
  BY SessionFields, Zenon DEF RowInv, Subquery
<1>2. /\ t.pc = "eval" /\ t.k = me.k + 1 /\ t.nested = TRUE /\ t.expr = me.expr
  BY <1>1, Zenon DEF Fresh
<1> HIDE DEF t
<1>3. OneValue(t)
  BY <1>1, <1>2 DEF OneValue
<1> QED
  BY <1>1, <1>3, OneValueStep, Zenon

LEMMA FinishRowOneValue ==
  ASSUME RowInv, NEW s \in Session, FinishRow(s)
  PROVE  \A r \in Session : OneValue(session'[r])
<1>1. CASE ~session[s].insert
  BY <1>1, EndedOneValue, OneValueStep, Zenon DEF FinishRow
<1>2. CASE session[s].insert
  <2> DEFINE e == Ended(session[s])
             row == [number |-> session[s].currval, id |-> next_identity,
                     era |-> IF session[s].stamp = era THEN era ELSE 0]
             t == [e EXCEPT !.txn = @ \cup {row}]
  <2>1. Goto(s, t)
    BY <1>2, Zenon DEF FinishRow
  <2>2. /\ t.pc = "idle" /\ t.k = e.k /\ t.seen = e.seen /\ t.nested = e.nested
        /\ t.cached = e.cached /\ t.currval = e.currval
    <3> HIDE DEF row
    <3> QED
      BY Zenon DEF Ended, Fresh
  <2> HIDE DEF t
  <2>3. OneValue(t)
    BY <2>2, EndedOneValue, OutsideRow, Zenon
  <2> QED
    BY <2>1, <2>3, OneValueStep, Zenon
<1> QED
  BY <1>1, <1>2, Zenon

LEMMA TransactionOneValue ==
  ASSUME RowInv, NEW s \in Session, Commit(s) \/ Rollback(s)
  PROVE  \A r \in Session : OneValue(session'[r])
<1> DEFINE me == session[s]
           t == [me EXCEPT !.txn = {}]
<1>1. me.pc = "idle" /\ Goto(s, t) /\ OneValue(me) /\ DOMAIN me = DOMAIN Fresh
  BY SessionFields, Zenon DEF RowInv, Commit, Rollback
<1>2. /\ t.pc = "idle" /\ t.k = me.k /\ t.seen = me.seen /\ t.nested = me.nested
      /\ t.cached = me.cached /\ t.currval = me.currval
  BY <1>1, Zenon DEF Fresh
<1> HIDE DEF t
<1>3. OneValue(t)
  BY <1>1, <1>2, OutsideRow, Zenon
<1> QED
  BY <1>1, <1>3, OneValueStep, Zenon

LEMMA AlterOneValue ==
  ASSUME RowInv, NEW s \in Session, AlterPeek(s) \/ AlterMove(s) \/ AlterEnd(s)
  PROVE  \A r \in Session : OneValue(session'[r])
<1> DEFINE me == session[s]
<1>1. OneValue(me) /\ DOMAIN me = DOMAIN Fresh
  BY SessionFields, Zenon DEF RowInv
<1>2. CASE AlterPeek(s)
  <2>1. PICK o \in Options :
          Goto(s, [me EXCEPT !.pc = "alter", !.alter = o, !.peeked = counter])
    BY <1>2, Zenon DEF AlterPeek
  <2> DEFINE t == [me EXCEPT !.pc = "alter", !.alter = o, !.peeked = counter]
  <2>2. /\ t.pc = "alter" /\ t.k = me.k /\ t.seen = me.seen /\ t.nested = me.nested
        /\ t.cached = me.cached /\ t.currval = me.currval
    BY <1>1, Zenon DEF Fresh
  <2> HIDE DEF t
  <2>3. OneValue(t)
    BY <1>1, <2>2, OutsideRow, Zenon
  <2>4. Goto(s, t)
    BY <2>1, Zenon DEF t
  <2> QED
    BY <2>3, <2>4, OneValueStep, Zenon
<1>3. CASE AlterMove(s)
  <2> DEFINE t == [me EXCEPT !.pc = "restart"]
  <2>1. Goto(s, t)
    BY <1>3, Zenon DEF AlterMove
  <2>2. /\ t.pc = "restart" /\ t.k = me.k /\ t.seen = me.seen /\ t.nested = me.nested
        /\ t.cached = me.cached /\ t.currval = me.currval
    BY <1>1, Zenon DEF Fresh
  <2> HIDE DEF t
  <2>3. OneValue(t)
    BY <1>1, <2>2, OutsideRow, Zenon
  <2> QED
    BY <2>1, <2>3, OneValueStep, Zenon
<1>4. CASE AlterEnd(s)
  BY <1>4, EndedOneValue, OneValueStep, Zenon DEF AlterEnd
<1> QED
  BY <1>2, <1>3, <1>4, Zenon

(* RowSeesOneValue for any number of sessions and any rows: sequence()      *)
(* (eval.rs) gives every reference of a row, as long as the row has         *)
(* evaluated no subquery, the one value start_row fetched, whatever the     *)
(* other sessions do meanwhile.                                             *)
THEOREM RowsSeeOneValue == Spec => []RowSeesOneValue
<1>1. Init => RowInv
  <2>1. ASSUME Init, NEW s \in Session PROVE OneValue(session[s])
    BY <2>1, Zenon DEF Init, OneValue, Fresh
  <2> QED
    BY <2>1, InitIInv, Zenon DEF RowInv
<1>2. RowInv /\ [Next]_vars => RowInv'
  <2> SUFFICES ASSUME RowInv, [Next]_vars PROVE \A r \in Session : OneValue(session'[r])
    BY NextIInv, Zenon DEF RowInv
  <2>1. ASSUME UNCHANGED session PROVE \A r \in Session : OneValue(session'[r])
    BY <2>1, Zenon DEF RowInv
  <2>2. ASSUME NEW s \in Session,
               \/ StartRow(s) \/ ReadDef(s) \/ Advance(s) \/ Refer(s) \/ Subquery(s)
               \/ FinishRow(s) \/ Commit(s) \/ Rollback(s)
        PROVE  \A r \in Session : OneValue(session'[r])
    BY <2>2, StartRowOneValue, ReadDefOneValue, AdvanceOneValue, ReferOneValue,
       SubqueryOneValue, FinishRowOneValue, TransactionOneValue
  <2>3. ASSUME NEW s \in Session,
               \/ CreateSequence(s) \/ DropSequence(s) \/ CreateTable(s) \/ DropTable(s)
        PROVE  UNCHANGED session
    BY <2>3, Zenon DEF CreateSequence, DropSequence, CreateTable, DropTable
  <2>4. ASSUME NEW a \in Admin,
               \/ SnapshotTables(a) \/ SnapshotIdentities(a) \/ SnapshotSequences(a)
               \/ RestoreTables(a) \/ RestoreIdentities(a) \/ RestoreSequences(a)
        PROVE  UNCHANGED session
    BY <2>4, Zenon DEF SnapshotTables, SnapshotIdentities, SnapshotSequences,
                RestoreTables, RestoreIdentities, RestoreSequences
  <2>5. CASE UNCHANGED vars
    BY <2>1, <2>5, Zenon DEF vars
  <2> QED
    BY <2>1, <2>2, <2>3, <2>4, <2>5, AlterOneValue, Zenon DEF Next
<1>3. RowInv => RowSeesOneValue
  BY Zenon DEF RowInv, OneValue, RowSeesOneValue
<1> QED
  BY <1>1, <1>2, <1>3, PTL DEF Spec

=============================================================================
