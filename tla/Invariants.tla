---------------------------- MODULE Invariants -----------------------------
(***************************************************************************)
(* The inductive invariants of Transactions: IInv, from which TypeOK and   *)
(* UniqueKeysHold follow, and Strong, from which ForeignKeysHaveKeys,      *)
(* InsertsAreFresh and AlterKeepsRows follow.                              *)
(*                                                                         *)
(* Neither TypeOK nor UniqueKeysHold is inductive. UniqueKeysHold needs    *)
(* the index of every enforced constraint to cover the rows, in every      *)
(* catalog that may yet be published; undo needs every logged change to    *)
(* fit the copy it is undone in. IInv says both.                           *)
(*                                                                         *)
(* Strong adds three parts. KeysHeld: in every catalog that may yet be     *)
(* published a foreign key references a key; COMMIT, replay and the        *)
(* restore of a snapshot publish catalogs made earlier. DraftsFit: a draft *)
(* of the newest version has the committed rows. Fresh: a row id a         *)
(* transaction inserted under is in no catalog but its own, so replay      *)
(* finds it free, and so is the id of a row that undo brings back.         *)
(***************************************************************************)
EXTENDS Transactions

(* A transaction whose log can be undone in its copy. *)
GoodTxn(x) == IsTxn(x) /\ LogFits(x) /\ GoodCatalog(x.work)

(* What holds of one session: its transaction x, its step p, its locals f,  *)
(* its savepoint sp and its draft d.                                        *)
LocalOK(x, p, f, sp, d) ==
  /\ x # None => GoodTxn(x)
  /\ IsFrame(f)
  /\ sp = None \/ IsSavepoint(sp)
  /\ p \in {"inserting", "parents", "children", "undoing", "replaying"} => GoodTxn(x)
  /\ p \in {"inserting", "parents", "children", "undoing"} => f.saved <= Len(x.log)
  /\ p = "replaying" => GoodCatalog(f.next)
  /\ p = "altering" => GoodCatalog(d.cat) /\ d.action \in Alter
  /\ p = "inserting" =>
       /\ f.table \in DOMAIN x.work
       /\ f.rows # << >>
       /\ \A i \in DOMAIN f.rows : Len(f.rows[i]) = x.work[f.table].columns

SharedOK ==
  /\ GoodCatalog(tables)
  /\ version \in Nat
  /\ next_row_id \in Nat
  /\ snapshot = None \/ GoodCatalog(snapshot)

LockOK ==
  /\ lock \in Session \cup {None}
  /\ \A s \in Session : lock = s <=> pc[s] = "replaying"

Domains ==
  /\ DOMAIN txn = Session /\ DOMAIN frame = Session
  /\ DOMAIN savepoint = Session /\ DOMAIN draft = Session
  /\ pc \in [Session -> Steps]

Locals ==
  \A s \in Session : LocalOK(txn[s], pc[s], frame[s], savepoint[s], draft[s])

(* The inductive invariant of types and unique keys. *)
IInv == SharedOK /\ LockOK /\ Domains /\ Locals

(* A step that changes the locals of session s only. *)
OnlySession(s) ==
  \A r \in Session \ {s} :
    /\ txn'[r] = txn[r] /\ pc'[r] = pc[r] /\ frame'[r] = frame[r]
    /\ savepoint'[r] = savepoint[r] /\ draft'[r] = draft[r]

-----------------------------------------------------------------------------

(* A session that has a transaction. *)
InTxn(s) ==
  txn[s] # None \/ pc[s] \in {"inserting", "parents", "children", "undoing", "replaying"}

(* What enforce_foreign_keys relies on, foreign key by foreign key. *)
Referenced(cat, fk) ==
  fk.parent \in DOMAIN cat /\ has_referenced_key(cat[fk.parent], fk.parent_columns)

KeysExist(cat) ==
  \A n \in DOMAIN cat : \A f \in DOMAIN cat[n].fks : Referenced(cat, cat[n].fks[f])

(* Every foreign key of every catalog references a key that exists. *)
KeysHeld ==
  /\ KeysExist(tables)
  /\ snapshot # None => KeysExist(snapshot)
  /\ \A s \in Session :
       /\ InTxn(s) => KeysExist(txn[s].work)
       /\ pc[s] = "replaying" => KeysExist(frame[s].next)
       /\ pc[s] = "altering" => KeysExist(draft[s].cat)

(* The same rows in the same tables. *)
SameRows(new, old) ==
  DOMAIN new = DOMAIN old /\ \A n \in DOMAIN old : new[n].rows = old[n].rows

(* A draft of the newest version has the rows of the committed catalog. *)
DraftsFit ==
  \A s \in Session :
    pc[s] = "altering" =>
      /\ draft[s].version \in Nat /\ draft[s].version <= version
      /\ draft[s].version = version => SameRows(draft[s].cat, tables)

(* The row ids a catalog holds. *)
Ids(cat) == UNION {DOMAIN cat[n].rows : n \in DOMAIN cat}

(* The row ids a log mentions, and those it inserted. *)
LogIds(log) == {log[i].id : i \in DOMAIN log}

InsertIds(log) == {log[i].id : i \in {j \in DOMAIN log : log[j].op = "insert"}}

(* The row ids a transaction may yet write. *)
Seen(x) == Ids(x.work) \cup LogIds(x.log)

(* A deleted row is gone and was deleted once; a row id is inserted once. *)
Sound(x) ==
  /\ \A i \in DOMAIN x.log :
       x.log[i].op = "delete" => x.log[i].id \notin DOMAIN x.work[x.log[i].table].rows
  /\ \A i, j \in DOMAIN x.log :
       /\ x.log[i].op = "delete" /\ x.log[j].op = "delete"
       /\ x.log[i].table = x.log[j].table /\ x.log[i].id = x.log[j].id
       => i = j
  /\ \A i, j \in DOMAIN x.log :
       x.log[i].op = "insert" /\ x.log[j].op = "insert" /\ x.log[i].id = x.log[j].id => i = j

(* The row ids handed out so far. *)
Given == 0..(next_row_id - 1)

(* The row ids of the catalogs that any session may come to read. *)
Public ==
  Ids(tables) \cup (IF snapshot = None THEN {} ELSE Ids(snapshot))
    \cup UNION {Ids(draft[s].cat) : s \in {r \in Session : pc[r] = "altering"}}

(* The row ids of the catalogs and the log that session s alone holds. *)
Private(s) ==
  (IF InTxn(s) THEN Seen(txn[s]) ELSE {})
    \cup (IF pc[s] = "replaying" THEN Ids(frame[s].next) ELSE {})

(* A row id that a transaction inserted under is in no catalog but its own, *)
(* and what a replay has yet to insert is not in what it has replayed.      *)
Fresh ==
  /\ Public \subseteq Given
  /\ \A s \in Session :
       /\ Private(s) \subseteq Given
       /\ InTxn(s) =>
            /\ Sound(txn[s])
            /\ InsertIds(txn[s].log) \cap Public = {}
            /\ \A r \in Session \ {s} : InsertIds(txn[s].log) \cap Private(r) = {}
       /\ pc[s] = "replaying" =>
            \A i \in DOMAIN txn[s].log :
              i >= frame[s].k /\ txn[s].log[i].op = "insert"
                => txn[s].log[i].id \notin Ids(frame[s].next)

(* The inductive invariant of foreign keys, drafts and row ids. *)
Strong == IInv /\ KeysHeld /\ DraftsFit /\ Fresh

=============================================================================
