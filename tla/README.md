# A TLA+ model of fsql

fsql is an embedded SQL database: one process, tables in memory, one text file
rewritten on every commit, and a pool of connections with row-locking
transactions. These modules model its storage engine, its transactions, its
logs, the way its file is written, its connection pool and its C interface; TLC
checks them on small instances, and TLAPS proves all of their safety properties
for every instance.

## The system

| Part | State | Operations | Interacts with |
|---|---|---|---|
| `storage/table.rs` | rows by id, `next_row_id`, primary, secondary and full-text maps | insert, update, delete, select, create index, rebuild | called on a catalog |
| `storage/catalog.rs`, `codec.rs` | tables by name; the file format | encode, decode | read and written by the engine |
| `engine.rs` (`Database`) | committed catalog, at most one staged catalog, file, options | `execute`: statements, BEGIN, COMMIT, ROLLBACK, EXPLAIN; open | logs, file |
| `logging.rs` | redo, undo, binlog, slow and error streams | append | called before and after a statement |
| `pool.rs` | one shared `Database`, row locks, transaction ids; per connection a staged catalog and its locks; permits | `get`, `try_get`, drop, `execute` | two mutexes and a condition variable |
| `sql/parser.rs`, statement cache | parsed statements by text | parse | produces statements |
| `ffi.rs` | handles | C calls | wraps the two APIs |

What is hard here:

* **Critical sections.** `Connection::execute` locks the shared mutex several
  times in one call: for the undo snapshot, for the DDL check, for the row
  locks, for the statement. Other connections run in between.
* **Optimistic copies.** A transaction works on the catalog as it was at BEGIN;
  COMMIT merges the rows it locked into what the others have made of the
  committed catalog since.
* **Row ids.** An INSERT in a transaction reserves an id in the committed table,
  in memory only; the file does not keep `next_row_id`.
* **Failure.** Saving can fail after memory has changed; a log append can fail
  after the statement was applied; an update can find its clash only when the
  maps are rebuilt; the process or the machine can stop anywhere, between the
  write, the sync and the rename of the file too; a thread can panic while it
  holds the shared mutex.
* **Waiting.** Checkout waits on a condition variable, is woken by `notify_one`,
  and takes the shared mutex while it holds the permits mutex.
* **Ownership.** A C caller frees what it was given, in any order and at
  addresses that come back; a pool's state is shared by handles it does not see.

PROJECT.json lists these hazards line by line, with the properties that would
catch each of them.

## Modules

| Module | Models | How |
|---|---|---|
| `Table` | `table.rs`, `value.rs` | a table is a record; each method is an operator that returns `[ok, table]` |
| `Scoring` | `table.rs`: ORDER BY VECTOR_DISTANCE, LIMIT | chunks of rows are scored apart, joined, sorted and cut; a distance is an exact rational that orders the rows as `f64::total_cmp` orders the distances, but for rounding |
| `Catalog` | `catalog.rs`, `codec.rs`, `execute_statement_with_options` | a catalog is a function from names to tables; `encode` keeps what the file keeps |
| `Logs` | `logging.rs` | each append is the set of its outcomes: written, failed, failed with the line written |
| `Database` | `engine.rs` | one action per kind of statement; a call is atomic, since `execute` takes `&mut self`; `Replay` executes a binlog |
| `Store` | - | abstract: durable data changed by whole statements and whole transactions |
| `Pool` | `pool.rs`, transactions | one action per critical section of the shared mutex; the phase of a call is in `call[c].at` |
| `Permits` | `pool.rs`, `get`, `try_get`, `Drop` | threads, the permits mutex, the condition variable, and the shared mutex with its poisoning |
| `Semaphore` | - | abstract: at most `Size` holders |
| `Persist` | `persist`, `persist_catalog`, `sync_file` | one action per system call; files have cached contents and contents on disk, a name has the files it may name after power loss |
| `StatementCache` | `ParsedStatementCache`, `parse_with_cache` | a function from trimmed texts to statements |
| `Ffi` | `ffi.rs` | one action per call that allocates or frees; `heap` is what lives, `owned` what the caller believes |
| `CatalogProofs`, `DataProofs` | - | lemmas about the operators of `Table`, `Scoring` and `Catalog` |
| `DatabaseProofs`, `PoolProofs`, `PoolDataProofs`, `PermitsProofs`, `PersistProofs`, `FfiProofs` | - | theorems about the module of that name |
| `MCDatabase`, `MCPool`, `MCPermits`, `MCPersist`, `MCFfi` | - | statements, files and symmetry for TLC |

`Table` <- `Scoring` <- `Catalog` <- `Logs` <- `Database` and `Pool`;
`StatementCache` <- `Ffi`. `Database` and `Pool` replace the file in one step
that succeeds or fails; `Persist` has the steps, and its properties say that
this is what they amount to. The definitions keep the
source's names; where one Rust function became several operators (its errors,
its result) they stand together.

Abstractions. A value is a kind and a datum. Floats keep their sign and
magnitude, so that `-0.0` and `0.0` have different bits and are equal, and
non-finite values exist; a dot product that is zero keeps its sign, because
`total_cmp` puts `-0.0` before `0.0` (the constant `NegativeZeroSum` says whether
`sum` of an iterator starts at `-0.0`, as in recent releases of the standard
library, or at `0.0`); texts are words in whitespace-separated chunks, enough
to tell the three tokenizers apart; a geo filter carries the set of points in
range. The file is what `encode` writes up to line syntax. Names are already
normalised; an `Option` is a sequence of no or one element (`NoColumn`, a table
without a primary key, is the empty one). A lock key is a tuple instead of a string; because table names may
contain a colon, the constant `NameExtends` says which names are prefixes of
which, and `merge_catalogs` fails on those as the code does (the configurations
leave it empty).
`base` in a transaction is a history field that no action reads. Definitions
marked "(mutant)" are plausible bugs: replacing the definition that follows by
one of them must break a property.

Undefined outcomes are choices: whether a save succeeds (`PersistFaults`),
whether an append does (`LogFaults`, the streams whose appends may fail), when
the process ends (`Restarts`, `Die`), what power loss leaves of contents that
were not synced (`PowerLoss`: any length and any pages, of the old contents, the
new or holes; a path or a temporary name that names any file it was given since
the directory was synced), where a statement panics (`Panic`),
which waiter is notified, and when a wait ends by itself.

The C interface's caller has one pointer `out` that it passes to every call. On
status `Ok` it takes what `out` points to, unless that is null, and an error
string if it asked for one, and it frees each handle once: the rules of the
comments in `ffi.rs`. One of them it does not keep: it uses connections of a pool
whose handle it has freed (see below). Freed
addresses are handed out again, lowest first, so a stale pointer would be taken
for another object. What a statement returns is left open (some rows, or an
error); that it is right is the other modules' business. An SQL text in
`StatementCache` is a body and its tail of blanks and semicolons, because the key
and the parser trim only that.

## Runs

| Run | Shows | Bounds, and why they are enough | States |
|---|---|---|---|
| `db_core` | the maps, filters and vector order of a table, atomicity, `ImplementsStore` | one table of three kinds (`MaxTables = 1`), row ids up to 3: two rows that clash, one more to reuse an id, three to share between two workers; vectors at equal and at different distances and of two dimensions, with and without a filter; four sets of options to reopen with | 54,000 |
| `db_logs` | `RedoBracketed`, `BinlogReplays`, `UndoReverts` | calls stop at 5 lines of a stream: a transaction with two statements and one that fails; undo appends and saves may fail | 807,545 |
| `pool_keys` | locks, write sets, merges, unique keys, file, row ids, with restarts and failed saves | two connections, two transactions; FLOAT keys written four ways, an UPDATE that locks two rows and makes the same key; two inserts in flight at the bound | 420,667 |
| `pool_ddl` | definitions survive old transactions; `RedoBalanced` | one transaction beside DDL on either connection; calls start below 4 lines, two calls in flight | 1,068,388 |
| `permits` | conservation, wakeups, `ImplementsSemaphore`, progress, with a panic | six threads for three permits: several waiters and a barging thread, connections dropped with and without a transaction | 135,942 |
| `ffi` | ownership, the pool's inner state, the statement cache | three handles: a pool, a connection and one more, or a result and what is copied from it; a cache of one entry and four texts, so that it evicts | 71,024 |
| `persist` | the file is whole, memory agrees with it, acknowledged saves last | two databases, two saves each of two chunks (a first file and its replacement), two crashes. `DataOnly` is left out: it writes the contents as `Always` does; of a database that never syncs only the case with a parent directory is kept (`OneNever`), since it does not look at it | 706,895 |

Two connections suffice for the pool's properties because each is about a pair
of transactions, or about one and the committed state; `Conn` is symmetric, and
the configurations of `pool_*` use that. A bound sits in a guard (`Room`,
`RowRoom`, `LogRoom`) that keeps a call from starting, never in the middle of
one. Deadlock is checked in every run but those of `Persist`, where a process
that has made its `MaxSaves` saves has nothing left to do.

What the properties say:

* `IndexesExact`, `FullTextExact`, `CatalogsConsistent`: keys are unique and
  non-NULL and each map is what the rows say, in the committed and in every
  staged catalog, on every path including failures, merges and reloads.
* `LookupExact`: an equality filter served from a map finds only rows that a
  scan finds and misses none with the same bits; no map yields an id without a
  row (`update_with_options` would panic).
* `FailureChangesNothing`: an error leaves data, row ids and file as before.
* `FileIsCommitted`: memory and file never drift apart, whatever fails.
* `NewRowsTakeNewIds`: in the embedded database an id enters the committed rows
  only at or above `next_row_id`, so no id of a committed row, deleted or not, is
  given again while the database is open (ids staged and rolled back are). In a
  pool it is new, or reserved by the committing transaction, or the id of a row
  that the transaction had in its copy at BEGIN and has locked: an autocommit
  DELETE, which looks at no lock, may have removed that row, and COMMIT brings it
  back.
* `ReservedOnce`: an id that a transaction's INSERT reserved is in no committed row
  and in no other transaction's copy.
* `ImplementsStore`: statements and transactions are atomic and durable.
* `LocksHeld`, `LocksRecorded`, `LocksExclusive`, `WriteSetLocked`,
  `CommitMergesLocked`: a granted lock stays until the transaction ends, is on the
  transaction's list even if the statement that took it then failed, and has one
  owner; whatever a transaction wrote it holds the lock for; COMMIT changes
  exactly those rows.
* `DefinitionsKept`: committing an older copy drops no index.
* `OrderExact`: ordering by distance gives every matching row once, nearer ones
  first and equally near ones by id,
  and LIMIT keeps the first of them, however the rows were divided among workers;
  it fails exactly when a matching vector cannot be compared.
* `RedoBracketed`, `RedoBalanced`, `BinlogReplays`, `UndoReverts`: the streams
  tell what happened.
* `PermitsConserved`, `NoLostWakeup`, `FreePermitIsTaken`,
  `ImplementsSemaphore`: the checkout neither loses permits nor sleeps beside a
  free one. After a panic has poisoned the shared mutex, `get` does lose the
  permit it took before it met the error (`pool.rs:123`): from then on
  `PermitsConserved` only says that permits are not multiplied.
* `FileWhole`, `MemoryIsStored`, `SavedIsStored`: what `persist` promises the
  engine, on every path and after every crash. With `FsyncMode::Never` power
  loss may leave a part of a file; without a parent directory that can be
  synced (a bare file name has none) it may take an acknowledged save back.
* `OwnedIsLive`: nothing leaks and no stale pointer is taken for a handle.
  `InnerShared`: a pool lives as long as its last connection, in whatever order
  handles are freed. `CacheTransparent`: a cached statement is the one the
  parser would return.

### Where code and documents disagree

Five runs end in a counterexample; each states what a document or a comment
says (quoted in PROJECT.json).

* `pool_autocommit`: a statement outside a transaction ignores row locks
  (`pool.rs:471`), although conflicting DML should fail.
* `pool_orphan`: COMMIT returns on a failed merge (`pool.rs:383`) after it has
  taken the transaction: its locks stay for good, and with them DDL is blocked
  until the process ends. It takes a transaction that inserts a key and an
  autocommit statement that makes the same key before it commits.
* `pool_ddl_race`: the check for row locks and the DDL are two critical
  sections (`pool.rs:459`).
* `db_tokenizer`: `create_index` rebuilds full-text maps with default options
  (`table.rs:124`). `merge_catalogs` does the same on every commit
  (`pool.rs:627`).
* `persist_tmp`: the temporary name is the path with its extension replaced by
  `<pid>.tmp` (`engine.rs:451`), so `a.db` and `a.bak` of one process share it.
  Two threads that save at the same time mix the two files. The run is `persist`
  with that naming and no crash.

One more rule of a comment is stricter than the code, and needs no run:
`ffi.rs:413` says of `fsql_pool_free` that "callers must no longer use connection
handles that depend on that pool lifetime". A connection shares the pool's inner
state through an `Arc`, so that it works until it is freed itself. The caller in
`Ffi` makes use of that, which is more than the comment allows; `InnerShared`
shows that it is safe.

### Fairness

Only `permits` has a liveness property, under weak fairness of `resume`,
`ReadCapacity`, `CapacityError`, `Executed` or `Panic`, and `ReturnPermit`: a thread that is inside the
pool's own code and can run does run, which the operating system's scheduler
gives. Nothing is assumed about callers (nobody has to call `get`, execute or
drop) nor about the order in which a mutex is granted: `std::sync::Mutex`
promises none. That is why the property is that a free permit is *taken*, by
some thread: that a particular waiter gets one does not follow from the code.

## Proofs

| Theorem | Statement |
|---|---|
| `PermitsTypeOK` | `Spec => []TypeOK` |
| `PermitsAreConserved` | `Spec => []PermitsConserved` (also after a panic) |
| `WakeupsAreNotLost` | `Spec => []NoLostWakeup` |
| `CheckoutIsSemaphore` | `Spec => ImplementsSemaphore` |
| `LocksAreHeld` | `Spec => []LocksHeld` |
| `LocksAreRecorded` | `Spec => []LocksRecorded` |
| `LocksAreExclusive` | `Spec => []LocksExclusive` |
| `PoolTypes` | `FileFits => (Spec => []TypeOK)` |
| `RedoIsBalanced` | `RedoKept => (Spec => []RedoBalanced)` |
| `WritesAreLocked` | `Spec => []WriteSetLocked` |
| `ReservedIdsHaveOneOwner` | `Spec => []ReservedOnce` |
| `NewRowsHaveNewIds` | `Spec => NewRowsTakeNewIds` (pool) |
| `FileHoldsCommitted` | `Spec => []FileIsCommitted` (pool) |
| `PoolCatalogsConsistent` | `Spec => []CatalogsConsistent` |
| `CommitsMergeLocked` | `Spec => CommitMergesLocked` |
| `DefinitionsAreKept` | `Spec => DefinitionsKept` |
| `DbInvariant` | `Spec => []DbInv` |
| `DatabaseTypes` | `Spec => []TypeOK` |
| `LookupMapsExact` | `Spec => []IndexesExact` |
| `FileHoldsCatalog` | `Spec => []FileIsCommitted` (database) |
| `RowIdsAreNew` | `Spec => NewRowsTakeNewIds` (database) |
| `ErrorsChangeNothing` | `OnlyUndoFails => (Spec => FailureChangesNothing)` |
| `DatabaseIsAtomic` | `FileBacked => (Spec => ImplementsStore)` |
| `EqualityAnswersExact` | `Spec => []LookupExact` |
| `TextMapsExact` | `OneTokenizer => (Spec => []FullTextExact)` |
| `RedoIsBracketed` | `OnlyUndoFails => (Spec => []RedoBracketed)` |
| `BinlogIsHistory` | `OnlyUndoFails /\ OneTokenizer /\ ~Restarts => (Spec => []BinlogReplays)` |
| `UndoIsInverse` | `OnlyUndoFails /\ OneTokenizer /\ ~Restarts => (Spec => []UndoReverts)` |
| `AnswersInOrder` | `Spec => []OrderExact` |
| `WorkersAgree` | `vector_scores` is `vector_scores_chunk` of all rows, for any number of workers |
| `PersistTypes`, `PathsNameWholeFiles`, `MemoryMatchesFile`, `AcknowledgedSavesSurvive` | `TmpDistinct => (Spec => []P)` for `TypeOK`, `FileWhole`, `MemoryIsStored`, `SavedIsStored` |
| `CallersKnowEveryHandle`, `PermitsBounded`, `InnerLivesWithItsUsers`, `CachesAreTransparent` | `Spec => []P` for `OwnedIsLive`, `TypeOK`, `InnerShared`, `CacheTransparent` |

Each inductive invariant named below was first an invariant of a TLC run on the
instance of a configuration.

*Assumed of the constants* (and evaluated by TLC in every run): bounds are
natural numbers; the statements are what the parser builds (`StatementsParsed`:
their lists are sequences, their values and ORDER BY targets are of the types of
`value.rs`, their filters of the four kinds, their LIMIT is a natural number);
options have one of the three metrics and a number of workers (`OptionsTyped`);
the file a pool is opened on was written by this
program and opens (`StoredFileOpens`, `Written`): index definitions name
columns, rows have every column, values are finite, row ids are natural. The
last is needed because `decode_with_options` checks little of what it reads.
SQL texts are a body and a tail (`TextsAssumption`). Everything else is
arbitrary: connections, threads, databases, statements, options, faults, crashes
and restarts.

*Conditions in the statements.* Where a theorem has a hypothesis, the property
fails without it or a bound of the model makes no sense without it:

* `OnlyUndoFails`: an append after the statement can fail when the statement is
  done (see "Not modelled"), which is an error that changed something and a
  BEGIN without an answer. `RedoKept` is the same for the pool, with finitely
  many connections, and no end of the process between BEGIN and COMMIT.
* `OneTokenizer`: every tokenizer in use is the default one, or no table gets a
  full-text and another index. `db_tokenizer` is the counterexample without it.
  The binlog needs it too: after such a CREATE INDEX an UPDATE that fails, and
  is not logged, fills the full-text maps again, with the tokenizer in use.
* `~Restarts`, for the binlog: reopening ends the open transaction without a line
  that says so, and hands out row ids again that the file does not remember.
  These three conditions hold in the run `db_logs`; saves may fail at any time.
* `TmpDistinct`: no two databases share a temporary name. `persist_tmp` is the
  counterexample without it.
* `FileBacked`: without a file there is nothing durable to refine `Store` with.
* `FileFits`: finitely many connections and a `MaxRowId` that leaves room for
  the stored rows, for the bounds in `TypeOK`.

*Checkout.* Finitely many threads, a pool of at least one connection
(`from_database` refuses 0). The inductive invariant `PermitsInv` is the type of
`pc`, conservation and `NoLostWakeup`; conservation alone gives the bounds on
`permits`, and with them every step is a step or a stutter of `Semaphore`. The
cardinality lemmas (`Enter`, `Leave`, `Stay`) carry the counting.

*Pool, locks.* `LocksHeld` is not inductive: `reserve_insert_row_id` writes the
lock of the reserved row without looking at it, so one must know that nobody
locked a row id the committed table has not handed out. `PoolInv` therefore adds

* `LocksBelow`: locked row ids are below the committed table's `next_row_id`;
* `StagedBelow`: a staged table's `next_row_id` does not run ahead of
  the committed table's;
* `CatalogsSound`: in every catalog the row ids, and the ids in the maps, are
  those of existing rows below `next_row_id` (so UPDATE and DELETE lock only such);
* `FileRows`: the file's row ids are the committed ones, for the restart;
* `TransactionIds`, `LockedKeys`, `Shapes`: transaction ids are distinct and
  below the next one; the shapes of keys and records.

`CatalogProofs` shows once, for every operation of a table, that it keeps a
sound table sound and adds a row only at the old `next_row_id`; `PoolProofs`
then has one lemma per action. `LocksRecorded` needs besides that nobody holds a
lock under the id of a transaction that has not begun (`LockOwners`).

*Pool, data.* `PoolDataInv`, on top of `PoolInv`: every catalog is typed and
exact (`Catalogs`), a staged table has the columns of the committed one
(`StagedColumns`: a merged row must fit its table), row locks are on tables the
transaction sees (`LockedTables`), `WriteSetLocked` and `FileIsCommitted`.
`WriteSetLocked` needs that UPDATE and DELETE change matching rows only and that
an INSERT adds the reserved row only; `CommitMergesLocked` then is about
`merge_catalogs` alone. The file stays equal to the committed catalog when an id
is reserved because `encode` does not write `next_row_id`.

*Pool, reserved ids.* `ReservedInv`: the rows a copy has beyond those of BEGIN
have ids between the `next_row_id` of BEGIN and the committed one and are neither
in the committed table nor in another copy; and the `next_row_id` of BEGIN does not
run ahead of the committed one (`BaseBelow`), so that a reserved id, which is the
committed `next_row_id`, is above it. COMMIT adds locked ids only, and
each is then such a row or one of BEGIN, which is `NewRowsTakeNewIds`.

*Pool, bounds.* A call checks the bound when it starts and takes its id later,
so the bound on `next_row_id` alone is not inductive. `BoundsInv` counts the
calls under way: `next_row_id` and the INSERTs in flight on that table stay
within `MaxRowId + 1 + |Conn|`, transaction ids and the BEGINs likewise. A step
takes at most one id, for a call that has then returned (`IdsMove`). `RedoInv`
counts redo lines the same way: of each logged statement, BEGINs less COMMITs
and ABORTs are the calls that run it.

*Database.* `DbInv`: committed and staged catalogs are sound, typed, exact and
bounded; a staged catalog is ahead of the committed one (it has its tables, and
rows that are new in it have ids the committed table has not handed out), which
is what COMMIT needs for `NewRowsTakeNewIds`; the file is the encoded catalog.
`DataProofs` has the lemmas per operation: a failed UPDATE rebuilds to the same
maps, decoding what was encoded gives a catalog with the same data. `Moves`
says how one call may change the catalogs and the file; the refinement of `Store`
follows from it, step by step. `EqualityAnswersExact` rests on `index_key`
telling values of one type apart exactly by their bits (`KeyInjective`).
`TextInv` adds the full-text maps, and that only tables some statement gives a
full-text index have one.

*Binlog and undo.* `BinInv` is `BinlogReplays` and `UndoReverts` with the shape
that execution keeps (`Shaped`: tables have their fields and nothing else). With
exact maps that makes a rebuild of the same rows the same table, so a statement
that fails leaves the catalog as it was, which is what leaving its line out of
the binlog amounts to. One step of `Replay` is
`ReplayLine` (`ReplayAppend`, shown from the fold's defining recursion); each
operation of the engine then is a line replayed or nothing (`Replays`), in the
order in which `execute_inner` writes undo, runs the statement and writes binlog.

*Answers in order.* What `OrderExact` compares are sums over vectors, so the
proof first shows that such a sum is an integer, and not negative if its terms
are: the subsets of a finite set on which the recursion of the sum has a solution
include every subset, because a smallest size without one leads to a smaller
(`SumsExist`, `SumsIn`). Distances are then fractions with positive denominators
(`DistanceRational`; a cosine is compared only if both vectors are not zero),
comparing them by cross products is transitive (`LessTransitive`), and with the
row id it is a strict total order (`BeforeTotal`), the one of the property
(`BeforeListed`). In such an order the rank of an
element, the number of those before it, is a bijection onto the positions, so
`sort_by`, which takes the element of each rank, lists every score once and in
order (`RankSorts`), and what LIMIT keeps comes before what it cuts
(`PrefixSorted`). The invariant beyond `DbInv` is `KindInv`: the cells of a VECTOR
column are vectors or NULL in both catalogs, after a reopening too.

*Write path.* `PersistInv` says per database which files are its own, what a save
in progress has written of its temporary file, that each file its path may name
is complete once synced, and what memory and acknowledged saves correspond to.
A temporary name never names a file that the path may name, also after power loss.

*C interface.* `FfiInv`: every live object is well-formed and its cache sound
(`Objects`), `OwnedIsLive`, and for each inner state that it has a user and that
its permits and connections add up to its size (`Inners`). The cache lemmas show
that a text and its trimmed key are parsed alike.

*Only model-checked*: liveness (`FreePermitIsTaken`), which is out of this
prover's reach. The five statements that documents make and the code does not
keep have counterexamples, not proofs.

## Not modelled

Parsing of SQL text, which keeps no state; rounding of `f64` and the haversine
formula; the line syntax of file and logs and the errors of malformed files;
slow-SQL and error logs, which influence nothing; validation of options; the C
calls that only read a number, a tag or a borrowed pointer. Binlog and redo
appends that fail after their statement: the mutation then stands without its
COMMIT record (`engine.rs:195`), and nothing in the program reads the streams
back. A panic in a C call ends the process, so `Ffi` has no poisoned pool.

## Plan

1. `Table`, `Catalog`, `Logs`, `Database` with `Store`: done.
2. `Pool` and `Permits` with `Semaphore`, first theorems: done.
3. `Persist`, `StatementCache`, `Scoring`, `Ffi`, poisoning in `Permits`: done.
4. Theorems for every component and every safety property of the runs: done.
5. Left: the line syntax, escaping and its inverse on separators, and names with
   colons in lock keys (`NameExtends` non-empty).
