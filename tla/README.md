# A TLA+ model of mock-oracle

mock-oracle is an in-memory stand-in for an Oracle database. Test programs talk
to it over Oracle's wire protocol, or embed it in a Node process. These modules
model its storage and transaction engine, its counters, its PL/SQL interpreter,
the connections and the life of the server, and the pure algorithms underneath:
conditions, queries, keys, dates, encodings, script splitting. TLC checks them
on small instances; TLAPS proves the central safety properties for all.

Paths below are relative to the repository root, `src/`; `core/` stands for
`crates/mock-oracle-core/src/` and `server/` for `crates/mock-oracle-server/src/`.

## The system and its parts

| Part | Where | Modelled in |
| --- | --- | --- |
| Tables, rows, unique indexes | `core/catalog.rs` | `Table` |
| Catalog, change log, undo, replay, foreign keys | `core/catalog.rs`, `core/session.rs` | `Catalog` |
| DDL: tables, indexes, constraints | `core/session.rs` (`ddl`, `alter_table`, `add_constraint`) | `Ddl` |
| Sessions: DML, transactions, savepoints, commit | `core/session.rs` (`dml`, `commit`, `rollback_to`) | `Transactions` |
| Snapshot, restore, reset | `core/lib.rs` (`Database`) | `Transactions` (tables), `Numbering` (counters) |
| Sequences and identity columns | `core/lib.rs`, `core/eval.rs`, `core/session.rs` | `Numbering` |
| PL/SQL interpreter | `core/plsql/exec.rs` | `PlSql` |
| Connection protocol, cursors, login | `server/session.rs`, `server/tns.rs` | `Connection`, which implements `RequestReply` |
| Server and binding lifecycle | `server/lib.rs`, `server/main.rs`, `crates/mock-oracle-node` | `Server` |
| Conditions, comparison, keys of values | `core/eval.rs`, `core/value.rs` | `Conditions` |
| Queries | `core/eval.rs` | `Queries` |
| TNS, TTC and NUMBER encodings | `server/tns.rs`, `server/ttc.rs`, `server/oranum.rs`, `server/session.rs` | `Encoding` |
| Script splitting, lexer | `core/lib.rs`, `core/lexer.rs` | `Scripts` |
| Date formats and arithmetic | `core/datetime.rs`, `core/functions.rs` | `Dates`, over `Calendar` (the chrono crate) |
| Values as a column stores them | `core/session.rs` (`store_value`) | `Storage` |
| Parsers, other functions, cryptography | `core/parser.rs`, `core/plsql/parse.rs`, `core/functions.rs`, `server/auth.rs` | not modelled |

How the parts interact. Every connection has a `Session`; all sessions share a
`Database`, whose committed catalog sits behind a read-write lock. A session's
first DML statement copies the catalog. Its statements change the copy and log
each change; a statement that fails undoes its log entries, and so does a PL/SQL
block that an exception leaves. COMMIT takes the write lock. If no version was
published since the copy was made, the copy becomes the committed catalog;
otherwise the log is replayed onto the newer catalog, change by change. DDL
commits first and then changes the committed catalog under the lock, except
ALTER TABLE, which works on a copy without the lock and starts over if it finds
another version. The embedding program can take and restore snapshots at any
moment. Sequences and identity counters belong to no transaction and have locks
of their own. A server gives every TCP connection a task, which reads a request,
runs it on the connection's `Session` and writes the reply; the accept loop ends
when someone calls `stop()`.

## Modules

`Table` has the methods of `Table` as operators. A row is a sequence of cells;
`Option<key>` is a set of at most one key; an index is the set of its keys (the
row ids it maps them to are written and never read). `Table_update` is the batch
update with its three phases: take the old keys out of the indexes, look for a
conflict, put new or old keys back. A row may occur twice in a batch, as `undo`
can make it.

`Catalog` has what one logged change does when it is replayed (`replay_change`)
or reverted (`undo_run`, `undo_change`), and the set algebra of
`enforce_foreign_keys`.

`Ddl` has one operator per DDL statement, returning `[ok, cat]`.

`Transactions` is the state machine. Its variables are the fields of `Database`
(`tables`, `version`, `next_row_id`, the lock and the last snapshot) and, for
each session, `txn`, its position `pc` in the statement it runs, the locals
`frame`, the `savepoint` of the block it is in and the `draft` of an ALTER TABLE.
Two fields named `origin` are history: what the session saw when the statement,
or block, began.

| Action | Code |
| --- | --- |
| `Insert`, `InsertRow`, `Update`, `Delete` | `insert`, `update`, `delete`; an INSERT stores a row a step |
| `Parents`, `EnforceParent`, `Children` | `enforce_foreign_keys`, one foreign key a step, in rounds |
| `UndoStep`, `UndoDone` | `undo`, one batch a step |
| `BeginBlock`, `EndBlock`, `FailBlock` | `savepoint`, `block`, `rollback_to` |
| `Commit`, `Replay`, `ReplayDone`, `Rollback` | `commit`, `rollback` |
| `CreateTable` ... `OtherDdl` | the arms of `ddl` |
| `AlterTable`, `AlterInstall`, `AlterRetry` | the loop of ALTER TABLE |
| `Snapshot`, `RestoreSnapshot`, `Reset` | `Database::snapshot`, `restore`, `reset` |

`Numbering` takes a step per lock acquisition: the catalog's lock (`def`,
`rows`), the Mutex of the identity counters and the Mutex of the sequences. A
row of a statement starts by advancing the sequences it mentions (`StartRow`,
`ReadDef`, `Advance`), then its references are evaluated (`Refer`), and its
subqueries, which start rows of their own (`Subquery`), and it is stored
(`FinishRow`). ALTER SEQUENCE is `AlterPeek`, `AlterMove`, `AlterEnd`,
a snapshot and a restore are three steps each. `era` is history; it says after
which events a number may come again by design.

`PlSql` runs one anonymous block as a machine over an explicit stack of the
interpreter's Rust calls. The program is not fixed: any statement may come next
and conditions have any outcome, so the behaviours are those of all programs
within the bounds. `flow` is what the last statement returned.

`Server` has the seeds, the listener, and the calls of `stop()`, with the Mutex
and the `Option` they share. `Connection` extends it with the connections. A
step of a connection runs from one await, or one call into the database, to the
next: `Handshake`, `ReadPacket`, `Dispatch`, `Execute` (once per bind row),
`Finish`, `WriteReply`. A request is a record of what its bytes mean. A login
may carry a statement (AUTH_ALTER_SESSION), of any kind, which is executed in the
session it opens (`Opened`), after its reply was put together. Of the
database session a connection observes the number of uncommitted changes;
whether a COMMIT fails, which `Transactions` is about, is open here.

`RequestReply` is what a connection promises: requests are handled one at a
time, in order, none twice, each answered before the next is handled and in the
end unless the connection ends. `Connection` instantiates it as `Promise` with
the requests sent completely, the serial number of the last one dispatched, the
replies written, and the connections not closed.

`Conditions`, `Queries`, `Encoding`, `Scripts`, `Dates` and `Storage` translate
the pure code as operators, and each has a reference definition of its result
after them: Kleene's truth values, a set-based denotation of queries, round
trips, the tokens of the other scanner, the calendar's laws, the shape of a
stored value. `Algorithms` picks one input a step and compares the two.

Choices a reader may wonder about:

- A replaying COMMIT holds `lock`; actions that read or write the committed
  catalog wait for it. Other uses of the lock cover one action.
- `commits` is only compared with its value at a savepoint, so the savepoint
  records whether it changed (`committed`).
- A statement that fails before it changes anything is a stuttering step.
- `FkOrder` is the order in which `enforce_foreign_keys` visits foreign keys:
  by table name, then in the order the table's constraints were added.
- Numbers in `Queries` are even, so that the mean of two is whole, and rows are
  compared as wholes where the code compares key strings; that those tell rows
  apart is `KeysTellRowsApart`.
- In `Encoding` integers are byte sequences, since TLC's are 32 bits wide.
- The definitions marked "Mutant" are wrong versions of the definition after
  them. Nothing uses them; replacing the definition by its mutant must make TLC
  report the property it is paired with in `PROJECT.json`.

## Runs

| Run | Instance | Checks |
| --- | --- | --- |
| `unique` | two sessions, one table, two unique constraints, statements of up to two rows | `UniqueKeysHold`, `IndexesExact`, `InsertsAreFresh`, `FailureUndoesChanges`, `CommitPublishesItsLog` |
| `foreign` | one session, departments, employees, badges; all three ON DELETE rules, a self-reference | `UniqueKeysHold`, `IndexesExact`, `FailureUndoesChanges`, `StatementKeepsForeignKeys`, `StatementsEnd` |
| `ddl` | two sessions, parent and child, every DDL statement | `TypeOK`, `UniqueKeysHold`, `IndexesExact`, `ForeignKeysHaveKeys`, `CommitPublishesItsLog`, `AlterKeepsRows` |
| `restore` | two sessions, an empty table, blocks, snapshots | `IndexesExact`, `InsertsAreFresh`, `FailureUndoesChanges`, `CommitPublishesItsLog` |
| `sequences` | two sessions, a thread that snapshots, a sequence that counts up or cycles down | `NumbersNotReissued`, `RowSeesOneValue` |
| `plsql` | blocks, loops and calls nested three deep | `StacksMatchControl`, `FailedBlockUndone`, `InnermostHandlerRuns`, `QueriesChangeNothing` |
| `connection` | one connection, five requests, two callers of `stop()` | `LoggedInHasSession`, `StatusTellsTransaction`, `CountsKeptRows`, `FetchFollowsExecute`, `StopReturnsStopped`, `KeepsPromise`, `StopReturns` |
| `algorithms` | every input of small sets | `ConditionsAreKleene`, `QueriesAnswer`, `KeysTellRowsApart`, `WireRoundTrips`, `ScriptsSplitAtTokens`, `DatesHold`, `StoredValuesFit` |
| `undo` | one session, a block with updates | violates `FailedBlockRestoresRows` |
| `orphan` | two sessions, parent and child | violates `CommittedForeignKeysHold` |
| `alter` | two sessions, one sequence | violates `AlterFollowsLast` |
| `row` | rows of up to four references and subqueries | violates `OneValuePerRow` |

What they show:

- `UniqueKeysHold`: no catalog that exists at any moment, committed or private,
  half replayed or drafted, has two rows with one unique key.
- `IndexesExact`: an index holds the keys of the rows and nothing else, so no
  insert fails for a row that is gone and no foreign key finds one. It is checked
  in instances without blocks that update: see the first finding.
- `FailureUndoesChanges`: a failing statement leaves the working copy, indexes
  included, as it was. In `restore` it covers failing blocks that insert, delete
  and commit.
- `InsertsAreFresh`: neither replay nor undo stores a row over another.
- `CommitPublishesItsLog`: of the committed rows, COMMIT changes those in its log
  and no others, and it takes back no DDL and no restore.
- `AlterKeepsRows`: ALTER TABLE takes back no commit.
- `ForeignKeysHaveKeys`: the parent table and key that `enforce_foreign_keys`
  unwraps are there, in every catalog.
- `StatementKeepsForeignKeys`: a successful statement leaves no orphan, whatever
  cascades it set off.
- `StatementsEnd`: a statement ends, whatever rounds of cascades and undo it
  takes. (`foreign`, which checks it, has no COMMIT and so no replay.)
- `NumbersNotReissued`: the counters stay past every number a committed row
  holds, also when rows and counters come back from a snapshot that read them
  under three locks while others went on.
- `RowSeesOneValue`: a row's NEXTVALs and CURRVALs are one value, as long as the
  row evaluates no subquery; for rows that do, see the fourth finding.
- `StacksMatchControl`: every way out of a block, loop, handler or call takes
  back exactly what the way in put on the interpreter's stacks.
- `InnermostHandlerRuns`: an exception runs the innermost handler that can see
  it, where "innermost" and "can see" are defined on the stack and not by the
  search the code makes.
- `FailedBlockUndone`, `QueriesChangeNothing`: a failed block leaves the changes
  made before it, or none after a COMMIT inside; a function called from a query
  changes nothing, whatever it calls.
- `LoggedInHasSession`: no call finds a connection logged in without a database
  session, which `db()` would panic over.
- `StatusTellsTransaction`, `CountsKeptRows`: the transaction flag and the row
  count of a reply are true after errors, undone executions and failed COMMITs.
  The flag in the reply to a login that carries a statement is the exception:
  see the fifth finding.
- `FetchFollowsExecute`: a fetch gets the next rows of the last execution on the
  id the client was given, while ids fit the 16 bits they are sent in. The
  instance lets them run over, and of what a fetch gets from then on nothing is
  said.
- `KeepsPromise`: `Connection` implements `RequestReply`, liveness included.
- `StopReturnsStopped`, `StopReturns`: `stop()` returns, and not before the
  accept loop has ended, whichever of several calls stopped it. Connections that
  were accepted go on; that is the code's choice, and the model's.
- `algorithms`: conditions have Kleene's truth value, or fail if an operand that
  matters does; queries return the rows of their denotation in an order their
  ORDER BY allows; keys are equal exactly when rows are; what is written to the
  wire reads back and leaves what follows in place; scripts are cut only between
  the lexer's tokens; formatted dates read back, month arithmetic keeps its laws,
  and ROUND goes to the nearest minute, hour or day, to the next month from its
  sixteenth day and the next year from July on, and to the start of a quarter or
  week, which it never rounds up; a stored value fits its column and is as close
  to the value as rounding allows. Findings 6 to 9 are exceptions to four of
  these. The properties state them exactly: on which inputs the code departs from
  the reference, and what it returns there.

### Findings

1. A failed block can keep its changes (`undo`). `undo` (`core/session.rs:787`)
   reverts consecutive UPDATEs of one table as one batch, not only "the rows of
   one UPDATE" its comment speaks of. When two UPDATEs changed the same row and
   left its unique key alone, the batch holds the key twice, `Table::update`
   refuses it and the error is dropped. The README says "A block that fails
   undoes its own changes." One statement can do the same: two SET NULL foreign
   keys on one child row put that row into the log, and so into the batch, twice.
2. Orphans can be committed (`orphan`). Foreign keys are enforced in the
   transaction's copy and not when its log is replayed, so one session's DELETE
   of a parent and another's INSERT of its child both commit. The README lists
   FOREIGN KEY among what is enforced.
3. ALTER SEQUENCE can forget a number (`alter`). It reads the counter and stores
   it moved under two acquisitions of the Mutex (`core/session.rs:596`). A NEXTVAL
   in between is lost, and its number comes again. The comment above says "The
   next number follows the last one handed out, with the new increment."
4. A row can see two values of a sequence (`row`). `start_row` clears the one map
   of row values (`core/eval.rs:902`), also for the rows of a subquery, and the
   row around it draws again. Its comment says "every NEXTVAL and CURRVAL in the
   row sees that value. The values last until the returned guard is dropped."
5. The reply to a login can deny a transaction (`connection`,
   `StatusTellsTransaction`). `auth_phase_two` writes status 0 and then executes
   the statement that came with the login (`server/session.rs:401`), which may be
   DML. The flag is "telling the client a transaction is open" (line 54).
6. NULL IN a subquery without rows is UNKNOWN (`algorithms`,
   `ConditionsAreKleene`). `in_values` (`core/eval.rs:1380`) returns before it
   looks for candidates; "with SQL NULL semantics", which its comment promises, IN
   nothing is FALSE and NOT IN nothing TRUE.
7. Rows can share a key (`algorithms`, `KeysTellRowsApart`). `key_string`
   (`core/value.rs:124`) does not escape its separator in texts, so a text that
   holds it can be cut in two ways. Its comment says "equal for two values exactly
   when they are the same value".
8. Numbers from 1e126 on can be sent as others (`algorithms`, `WireRoundTrips`).
   `encode` looks at the exponent of the last digit, so 1.1e126 passes and the
   exponent byte overflows (`server/oranum.rs:47`). The test `round_trips` says
   that decoding gives back what was encoded.
9. A column NUMBER(p,s) with s above p stores nothing (`algorithms`,
   `StoredValuesFit`). `store_value` compares the digits before the point with
   p - s (`core/session.rs:884`) and refuses even 0, as "larger than specified
   precision", although the parser accepts the column.

One more corner is left out of a property, because no line of the repository says
what should happen: a format with RR before other digits does not read back
(`Readable` in `Dates`).

### Bounds

Two sessions are enough for every race here: a session meets the others only
through the committed catalog, its version and the row id counter, and a second
session can bring those to any state in several steps. `MaxRows = 2` gives
batches that conflict within themselves and inserts that fail half way.
`MaxLog`, tested when a statement starts, lets a transaction hold changes of
several statements, and cascades exceed it. `MaxVersion` counts publications,
those in flight included, so a session that has begun to publish is never
blocked by the bound; two let the other session publish before a commit, three
(`restore`) let a restore come before both, and the `ddl` run needs four because
DDL publishes twice. `MaxRowId` bounds INSERTs; in `restore` the table starts
empty, so that the two ids it allows are enough to be handed out twice if a
restore took the counter back. The rows and definitions offered
to statements are chosen in each MC module so that keys collide. Sessions are
symmetric where more than one is used; `foreign` and `connection`, which check
liveness, use no symmetry.

`sequences`: `MaxOps` bounds the rows, DDL statements, snapshots and restores
together; four let two sessions, a snapshot and a restore meet. The sequence's
bounds are within reach of that, and so is `Saturated`, the largest integer.
`plsql`: `MaxStack` three lets a handler, a loop and a call stand inside each
other in any order. `connection`: connections share nothing but the server, so
one is checked in depth, and the proofs are for any number; five requests let a
client log in (two), execute, and fetch or execute again twice; the third
cursor exceeds `IdLimit`. After a call of `stop()` a connection makes at most
`MaxAtStop` requests: the two meet only while it is accepted. `algorithms`: the
constants of the encodings are small (`MAX_SHORT_LENGTH` 3, `CHUNK_SIZE` 4,
`MAX_DIGITS` 4) so that inputs reach beyond each of them, exponents of numbers
lie on both sides of the limits of `encode`, and columns have scales below, at and
above their precision; tables have up to three
rows; scripts are grown character by character from starts that hold the
keywords; dates are ends of months and years, leap days, noon and midnight.

### Fairness

`FairSpec` asks that a session which is inside a statement goes on with it
(`WF_vars(Continue(s))`): it runs on a thread of its own and no step of
`Continue` waits for anyone. Nothing is assumed of starting statements, of
waiting for the lock, or of the retry loop of ALTER TABLE, which can lose to
other commits for ever.

`Connection` asks for weak fairness of each connection's task, of the accept
loop's break and of every call of `stop()`: tokio polls a task that can go on,
and its Mutex is handed on in turn. Clients owe nothing: they may fall silent or
hang up in any state. They do await a reply before the next request, and a write
to a client completes or fails.

## Proofs

For any number of sessions, tables, rows and versions, any seed catalog that is
well formed and any statements, TLAPS proves in `TransactionsProofs`:

- `TypeCorrect`: `Spec => []TypeOK`. Beyond the types, this says that the lock
  is held exactly by the session that replays, that a session in mid-statement
  has a transaction, and that its log fits its copy, so that undo is defined.
- `UniqueKeys`: `Spec => []UniqueKeysHold`.
- `Invariance`: `Spec => []IInv`, from which both follow.

`UniqueKeysHold` is not inductive, since `insert` looks at the index and not at
the rows. `IInv` adds that in every catalog that exists the index of each
enforced constraint covers the keys of the rows (`GoodCatalog`). It does not
need the index to be exact: finding 1 leaves stale keys in an index, which can
refuse rows and never admits a duplicate. That is why unique keys survive even
where undo goes wrong. `IInv` also says what every session's locals satisfy in
every step of a statement.

The invariants are in `Invariants`. `CatalogProofs` shows that `insert`, `delete`
and the batch `update` keep a table good, also when update fails, and when a row
occurs twice in the batch; so do replay, undo and every DDL statement, for a
catalog. `TransactionsProofs` shows that INSERT, UPDATE and DELETE preserve
`IInv`, and so do the rounds of `enforce_foreign_keys` and of `undo`, blocks,
COMMIT and its replay, DDL and the test helpers, with one lemma per action.
`LocalStep` reduces the invariant to the session that takes the step.

For the same instances `MoveProofs` proves from a stronger invariant, `Strong`
(`StrongInvariance`):

- `ForeignKeys`: `Spec => []ForeignKeysHaveKeys`.
- `FreshInserts`: `Spec => []InsertsAreFresh`.
- `AlterKeeps`: `Spec => AlterKeepsRows`, an action property.

`Strong` is `IInv` and three parts:

- `KeysHeld`: a foreign key references a key that exists in every catalog, not
  only in the committed one. COMMIT, the end of a replay, ALTER TABLE and
  `restore` publish catalogs that were made earlier, so the copies of open
  transactions, the catalog a replay is building, the drafts of ALTER TABLE and
  the snapshot have to satisfy it too.
- `DraftsFit`: a draft made of the newest version has the committed rows. Each
  publication moves the version on, so a draft that missed one is not current.
- `Fresh`: a row id under which a transaction inserted is in no committed
  catalog, snapshot, draft or copy of another session, the ids in use have all
  been handed out, a log inserts under an id once, and a row it deleted is gone
  and was deleted once. `Fresh` is what makes replay find the ids of its inserts
  free, and what makes undo's re-insertion of a deleted row harmless.

An action of a session is first shown to be one of four moves: it works on its
own copy (`Works`), publishes a catalog (`Publishes`), takes one step of a
replay (`Replays`) or makes a draft (`Drafts`). `KeyProofs` proves once that the
moves preserve the parts of `Strong` (`MovesKeepKeys`, `MovesKeepDrafts`,
`MovesKeepFresh`), what the table and catalog operations do to keys and ids, and
that undo, replay and DDL are moves; `MoveProofs` shows it of the actions that
need the lemmas of `TransactionsProofs`, and combines them (`SessionMoves`).

`ConnectionProofs` proves for any number of connections, callers, requests,
cursors and executions: `LoggedInSession`, `TrueStatus`, `TrueCounts` and
`StoppedAtReturn`, which say that `LoggedInHasSession`, `StatusTellsTransaction`,
`CountsKeptRows` and `StopReturnsStopped` always hold, from its own `Invariance`.
`TrueStatus` exempts what `StatusTellsTransaction` does, the silence of the reply
to a login that carries a statement. The last two are not inductive. For the counts, `IInv` adds what holds while a
call runs: the changes of the connection, committed or not, are those before the
call and the rows counted so far, and the savepoint of the call is where they
began. For `stop()` it adds that whoever finds the `Option` empty and the Mutex
free comes after the accept loop.

The second half of `ConnectionProofs` proves `PromiseKept`: `Connection`
implements the safety part of `RequestReply`, for any number of connections and
requests. The simulation needs an invariant on the packets (`Input`): while its
connection reads, a client either awaits nothing, and no packet that ends a
request is on the wire, or awaits one answer, and the pieces of exactly that
request are in the buffer and at the front of the wire; behind them may come
only what a client that has hung up left. While a call runs, the buffer is
empty. Every action of one connection then becomes one step of `RequestReply` or
none (`Simulates`), and the end of the accept loop ends several connections
together.

`CursorProofs` proves `FetchesFollow`, that `FetchFollowsExecute` always holds:
the rows a FETCH returns are the next rows of the query that the client executed
under that cursor id, as long as the ids of the connection fit the bits a reply
has for them. The client's view and the session's cursors are two records of one
thing, updated at different times. `Tracks` relates them in every phase of a
call: of a cursor with rows left the client knows the execution and how many
rows it got, except for the cursors it has asked to close while the request is
under way; once there is a reply, the session agrees with the view that the
client will have when it has read it. `TInv` is `Tracks` for each connection and
the invariant of `PromiseKept`, which says that the request handled is the one
the client sent last.

`NumberingProofs` proves `NumbersAreNotReissued` and `RowsSeeOneValue`, which say
that `NumbersNotReissued` and `RowSeesOneValue` always hold, for any number of
sessions and of threads that snapshot and restore, any sequence options and any
rows; the second is about rows that have evaluated no subquery. The first is about
committed rows; its `IInv` follows a number on its way
there and back: the CURRVAL a session will put into a row, the rows of open
transactions, the rows a snapshot has copied and not yet paired with both
counters, the saved snapshot, and the copy a restore is installing. The counter
need only be past the numbers of the present `era`. One exception came out of the
proof: at the ends of an i128 `saturating_add` stays where it is, so there, and
only there, a number can come again, and the property says so.

`PlSqlProofs` proves for blocks, loops and handlers nested to any depth, any
`MAX_CALL_DEPTH` and any number of changes: `FramesMatchCalls`,
`FailedBlocksAreUndone`, `InnermostHandlersRun` and `QueriesChangeNothingEver`,
which say that the four properties of the `plsql` run hold. `StacksMatchControl`
counts, and a count is not inductive. `Stacks` says which entry
put down which frame and which exception: the positions of those entries, in
order, are a sequence that the frames of an Interp follow one by one. A lemma for
each way to put down or take back an entry keeps it (`PushBody`, `SwapBody`,
`PopBody`, `OpenerStep`, `CloserStep`). From it follows that the search of `find`
through the frames and the lexical scope on the stack agree (`ScopeTop`), and with
that `IInv` can carry an exception's destination: taking an entry that does not
catch off the stack leaves the block that ought to catch where it was
(`CatcherBelow`), also where the exception loses its name on the way out of a
function called from SQL.

The assumptions are the named `ASSUME`s of `Table`, `Transactions`, `Connection`,
`Numbering` and `PlSql`, on the shape of the inputs and of the seed; each run
evaluates them. The seed is assumed to be well formed and its foreign keys to
reference keys: in the code it is what a script of the same DDL statements left.
`IdLimit`, the number of cursor ids a reply can tell apart, is not 0. The bounds `MaxStack`, `MaxLog`, `MaxOps` and the like are
constants without assumptions: the theorems hold for every value.

Only model-checked, and why:

- Liveness (`StatementsEnd`, `StopReturns`, the fairness part of `KeepsPromise`)
  is out of the prover's reach, and so is induction over data, which the
  recursive algorithms need.
- `IndexesExact`, `FailureUndoesChanges`, `CommitPublishesItsLog` and
  `StatementKeepsForeignKeys` are false in general: finding 1 leaves stale keys
  in an index and rows that were not undone, and `enforce_foreign_keys` looks for
  the parent's key in the index. They hold in instances whose blocks do not
  update a row twice, and no assumption on the constants says that.

## Not modelled

- The SQL and PL/SQL parsers. They are pure, and a reference definition of what
  they return would be the grammar they spell out already.
- The cryptography of the login (`server/auth.rs`): a small instance of AES says
  nothing of the real one.
- CREATE TABLE AS SELECT, CHECK constraints, several constraints in one ADD,
  and the order of a table's constraints. The order matters in two corners of
  `alter_table`, named in the header of `Ddl`.
- Which rows a WHERE clause selects and which values an expression computes in
  `Transactions`: statements take any rows of the table's width.
- Subqueries, arithmetic and the string and number functions: one-line
  conversions without interaction, over numbers of 38 digits TLC cannot hold.
- The values of PL/SQL variables, records and collections, and the DBMS_OUTPUT
  buffer.
- The fixed fields of the ACCEPT, describe and parameter messages, and the
  reading of a date format string into its elements: layout.
- The text of errors, and RETURNING.
