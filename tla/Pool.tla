-------------------------------- MODULE Pool --------------------------------
(***************************************************************************)
(* pool.rs: connections that share one Database.  A transaction works on   *)
(* its own copy of the catalog, takes row locks in a shared table as it    *)
(* writes, and merges the locked rows back when it commits.                *)
(*                                                                         *)
(* An action is one critical section of the shared mutex, with the private *)
(* work next to it; between two sections of one call the other connections *)
(* run.  A call goes through the phases                                    *)
(*    execute -> (ddl ->) binlog -> redo -> idle                           *)
(* and one connection runs one call at a time (its transaction mutex).     *)
(*                                                                         *)
(* A lock key is <<"row", table, row id>>, <<"insert", table, index key>>  *)
(* or <<"next", table, next row id>>.                                      *)
(***************************************************************************)
EXTENDS Logs

CONSTANTS Conn,             \* connection identities, reused after a drop
          MaxConnections,   \* the pool's size
          Statements,       \* the parsed statements callers execute
          Options,          \* the database's runtime options
          StoredFile,       \* the database file the pool is opened on
          FileBacked, PersistFaults, Restarts,   \* as in Database
          NameExtends,      \* pairs <<a, b>>: table name b starts with a and ":"
          MaxTx,            \* bound: BEGINs between two restarts
          MaxRowId,         \* bound: inserts stop here
          MaxLog            \* bound: logged calls stop at this many lines of a stream

ASSUME PoolAssumption ==
    /\ MaxConnections \in Nat \ {0}
    /\ MaxTx \in Nat /\ MaxRowId \in Nat /\ MaxLog \in Nat
    /\ FileBacked \in BOOLEAN /\ PersistFaults \in BOOLEAN /\ Restarts \in BOOLEAN

\* The stored file was written by this program, and opens.
ASSUME StoredFileOpens == Written(StoredFile) /\ decode_with_options(StoredFile, Options).ok

ASSUME StatementsParsed == \A s \in Statements : IsStatement(s)

VARIABLES catalog,              \* the committed catalog, in memory
          file,                 \* the database file, encoded
          row_locks,            \* lock key -> id of the transaction that holds it
          next_transaction_id,
          permits,              \* free permits
          open,                 \* connections checked out
          transaction,          \* connection -> its TransactionState
          call,                 \* connection -> the call it is in
          log

vars == <<catalog, file, row_locks, next_transaction_id, permits, open, transaction, call, log>>

\* TransactionState; id 0 stands for None.  base, the catalog copied at
\* BEGIN, is a history field no action reads.
NoTransaction ==
    [id |-> 0, catalog |-> EmptyCatalog, locked_rows |-> {}, base |-> EmptyCatalog]
Active(c) == transaction[c].id # 0

\* The phase a connection's call is in, its statement, and what it returned.
Idle == [at |-> "idle", stmt |-> [op |-> "None"], ok |-> TRUE]

Opened == decode_with_options(StoredFile, Options).catalog

Init ==
    /\ catalog = Opened
    /\ file = StoredFile
    /\ row_locks = EmptyMap
    /\ next_transaction_id = 1
    /\ permits = MaxConnections
    /\ open = {}
    /\ transaction = [c \in Conn |-> NoTransaction]
    /\ call = [c \in Conn |-> Idle]
    /\ log = EmptyLog

-----------------------------------------------------------------------------
(* Checkout and drop *)

get(c) ==
    /\ c \notin open /\ permits > 0
    /\ permits' = permits - 1
    /\ open' = open \cup {c}
    /\ UNCHANGED <<catalog, file, row_locks, next_transaction_id, transaction, call, log>>

\* (mutant) Releases everybody's locks.
release_all(locks, tx) == EmptyMap

\* release_locks: only the keys this transaction still owns.
release_locks(locks, tx) ==
    LET kept == {k \in DOMAIN locks : ~(k \in tx.locked_rows /\ locks[k] = tx.id)}
    IN [k \in kept |-> locks[k]]

drop(c) ==
    /\ c \in open /\ call[c].at = "idle"
    /\ row_locks' = release_locks(row_locks, transaction[c])
    /\ transaction' = [transaction EXCEPT ![c] = NoTransaction]
    /\ permits' = permits + 1
    /\ open' = open \ {c}
    /\ UNCHANGED <<catalog, file, next_transaction_id, call, log>>

-----------------------------------------------------------------------------
(* A call: its start and its end *)

\* The bounds of the model: no call starts that would pass them.
Room(s) ==
    /\ s.op = "Begin" => next_transaction_id <= MaxTx
    /\ (s.op = "Insert" /\ s.table \in DOMAIN catalog) =>
           catalog[s.table].next_row_id <= MaxRowId
    /\ (mutates_catalog(s) \/ transaction_control(s)) =>
           \A stream \in Streams : Len(log[stream]) < MaxLog

\* The start of execute_inner, under the shared lock for a mutation.
Start(c, s) ==
    LET seen == IF Active(c) THEN transaction[c].catalog ELSE catalog
    IN /\ c \in open /\ call[c].at = "idle" /\ Room(s)
       /\ \E before \in LogBefore(log, s, encode(seen)) :
             /\ log' = before.log
             /\ call' = IF before.ok
                        THEN [call EXCEPT ![c] = [at |-> "execute", stmt |-> s, ok |-> TRUE]]
                        ELSE call
       /\ UNCHANGED <<catalog, file, row_locks, next_transaction_id, permits, open, transaction>>

At(c, phase, op) == call[c].at = phase /\ call[c].stmt.op = op

\* execute_statement returned: log lines are next, if there are any to write.
Returns(c, ok) ==
    call' = [call EXCEPT ![c] =
                IF Streams = {} THEN Idle
                ELSE [call[c] EXCEPT !.at = IF ok THEN "binlog" ELSE "redo", !.ok = ok]]

WriteBinlog(c) ==
    /\ call[c].at = "binlog"
    /\ \E after \in append_binlog(log, call[c].stmt) :
          /\ log' = after.log
          /\ call' = [call EXCEPT ![c] = IF after.ok THEN [call[c] EXCEPT !.at = "redo"] ELSE Idle]
    /\ UNCHANGED <<catalog, file, row_locks, next_transaction_id, permits, open, transaction>>

WriteRedo(c) ==
    /\ call[c].at = "redo"
    /\ \E after \in LogOutcome(log, call[c].stmt, call[c].ok) : log' = after.log
    /\ call' = [call EXCEPT ![c] = Idle]
    /\ UNCHANGED <<catalog, file, row_locks, next_transaction_id, permits, open, transaction>>

-----------------------------------------------------------------------------
(* Transaction control *)

\* A transaction statement in the wrong state returns an error.
ControlError(c) ==
    /\ call[c].at = "execute"
    /\ \/ call[c].stmt.op = "Begin" /\ Active(c)
       \/ call[c].stmt.op \in {"Commit", "Rollback"} /\ ~Active(c)
    /\ Returns(c, FALSE)
    /\ UNCHANGED <<catalog, file, row_locks, next_transaction_id, permits, open, transaction, log>>

begin(c) ==
    /\ At(c, "execute", "Begin") /\ ~Active(c)
    /\ transaction' = [transaction EXCEPT ![c] =
            [id |-> next_transaction_id, catalog |-> catalog, locked_rows |-> {},
             base |-> catalog]]
    /\ next_transaction_id' = next_transaction_id + 1
    /\ Returns(c, TRUE)
    /\ UNCHANGED <<catalog, file, row_locks, permits, open, log>>

LockedIds(locked, n) == {k[3] : k \in {k \in locked : k[1] = "row" /\ k[2] = n}}

\* (mutant) The staged rows replace the committed ones.
StagedRows(target, staged, ids) == staged.rows

\* The rows of one table after the merge: locked ones as staged, the staged
\* ones from the committed next_row_id on, the rest as committed.
MergedRows(target, staged, ids) ==
    LET appended == target.next_row_id..(staged.next_row_id - 1)
        taken == (ids \cup appended) \cap DOMAIN staged.rows
    IN [r \in (DOMAIN target.rows \ ids) \cup taken |->
            IF r \in taken THEN staged.rows[r] ELSE target.rows[r]]

\* (mutant) The definitions are the staged ones too.
StagedDefinitions(target, staged, ids) ==
    [staged EXCEPT !.rows = MergedRows(target, staged, ids),
                   !.next_row_id = Max({target.next_row_id, staged.next_row_id})]

MergedTable(target, staged, ids) ==
    [target EXCEPT
        !.rows = MergedRows(target, staged, ids),
        !.next_row_id = IF target.next_row_id < staged.next_row_id
                        THEN staged.next_row_id ELSE target.next_row_id]

\* merge_catalogs rebuilds with the default options, and fails on a table
\* name that a locked key only seems to start with.
merge_catalogs(base, staged, locked) ==
    LET both == DOMAIN base \cap DOMAIN staged
        result == [n \in both |->
                      Rebuilt(MergedTable(base[n], staged[n], LockedIds(locked, n)),
                              DefaultOptions)]
    IN [ok |-> /\ \A n \in both : result[n].ok
               /\ \A n \in both : \A k \in locked :
                      ~(k[1] = "row" /\ <<n, k[2]>> \in NameExtends),
        catalog |-> [n \in DOMAIN base \cup DOMAIN staged |->
                        IF n \in both THEN result[n].table
                        ELSE IF n \in DOMAIN base THEN base[n] ELSE staged[n]]]

Merged(c) == merge_catalogs(catalog, transaction[c].catalog, transaction[c].locked_rows)

\* (mutant) The error of a failed save is dropped.
PersistUnchecked(c, saved) ==
    saved /\ (file' = encode(c) \/ (PersistFaults /\ UNCHANGED file))

\* persist_catalog: the new file, or an error and the old one.
Persist(c, saved) ==
    IF FileBacked
    THEN \/ saved /\ file' = encode(c)
         \/ PersistFaults /\ ~saved /\ UNCHANGED file
    ELSE saved /\ UNCHANGED file

\* COMMIT takes the transaction first.  Without a merged catalog it returns
\* before it has released a lock; without a saved one it restores and releases.
commit(c) ==
    /\ At(c, "execute", "Commit") /\ Active(c)
    /\ transaction' = [transaction EXCEPT ![c] = NoTransaction]
    /\ \E saved \in BOOLEAN :
          IF Merged(c).ok
          THEN /\ Persist(Merged(c).catalog, saved)
               /\ catalog' = IF saved THEN Merged(c).catalog ELSE catalog
               /\ row_locks' = release_locks(row_locks, transaction[c])
               /\ Returns(c, saved)
          ELSE /\ UNCHANGED <<catalog, file, row_locks>>
               /\ Returns(c, FALSE)
    /\ UNCHANGED <<next_transaction_id, permits, open, log>>

rollback(c) ==
    /\ At(c, "execute", "Rollback") /\ Active(c)
    /\ transaction' = [transaction EXCEPT ![c] = NoTransaction]
    /\ row_locks' = release_locks(row_locks, transaction[c])
    /\ Returns(c, TRUE)
    /\ UNCHANGED <<catalog, file, next_transaction_id, permits, open, log>>

-----------------------------------------------------------------------------
(* Statements outside a transaction *)

\* The first critical section of DDL only looks.
DdlCheck(c) ==
    /\ call[c].at = "execute" /\ is_ddl_statement(call[c].stmt)
    /\ IF Active(c) \/ row_locks # EmptyMap
       THEN Returns(c, FALSE)
       ELSE call' = [call EXCEPT ![c].at = "ddl"]
    /\ UNCHANGED <<catalog, file, row_locks, next_transaction_id, permits, open, transaction, log>>

\* Executes on the committed catalog and persists it, whatever the statement;
\* no row lock is looked at.
Autocommit(c) ==
    LET s == call[c].stmt
        done == execute_statement(catalog, s, Options)
    IN /\ \/ call[c].at = "ddl"
          \/ call[c].at = "execute" /\ ~is_ddl_statement(s) /\ ~transaction_control(s)
       /\ ~Active(c)
       /\ \E saved \in BOOLEAN :
             IF done.ok
             THEN /\ Persist(done.catalog, saved)
                  /\ catalog' = IF saved THEN done.catalog ELSE catalog
                  /\ Returns(c, saved)
             ELSE /\ UNCHANGED <<catalog, file>>
                  /\ Returns(c, FALSE)
       /\ UNCHANGED <<row_locks, next_transaction_id, permits, open, transaction, log>>

-----------------------------------------------------------------------------
(* Statements inside a transaction *)

Lock(locks, keys, id) ==
    [k \in DOMAIN locks \cup keys |-> IF k \in keys THEN id ELSE locks[k]]
\* (mutant) A lock is granted whoever holds it.
NeverConflicts(k, id) == FALSE

Conflicts(k, id) == k \in DOMAIN row_locks /\ row_locks[k] # id

\* (mutant) The transaction does not record the locks it took.
StagedUnrecorded(c, staged, keys) ==
    transaction' = [transaction EXCEPT ![c] = [transaction[c] EXCEPT !.catalog = staged]]

\* (mutant) Only the locks of a statement that wrote something are recorded.
StagedIfWritten(c, staged, keys) ==
    transaction' = [transaction EXCEPT ![c] =
        [transaction[c] EXCEPT !.catalog = staged,
                               !.locked_rows =
                                   IF staged = transaction[c].catalog THEN @ ELSE @ \cup keys]]

\* The staged catalog after the statement, and the locks it added.
Staged(c, staged, keys) ==
    transaction' = [transaction EXCEPT ![c] =
        [transaction[c] EXCEPT !.catalog = staged,
                               !.locked_rows = transaction[c].locked_rows \cup keys]]

\* UPDATE and DELETE lock the rows that match in their own snapshot, in row-id
\* order, and keep the locks granted before a conflict.
LockAndWrite(c) ==
    LET s == call[c].stmt
        tx == transaction[c]
        found == s.table \in DOMAIN tx.catalog /\ FilterOk(tx.catalog[s.table], s.filter, Options)
        ids == IF found THEN matching_row_ids(tx.catalog[s.table], s.filter, Options) ELSE {}
        blocked == {r \in ids : Conflicts(<<"row", s.table, r>>, tx.id)}
        granted == {<<"row", s.table, r>> : r \in {r \in ids : \A q \in blocked : r < q}}
        done == execute_statement(tx.catalog, s, Options)
    IN /\ call[c].at = "execute" /\ s.op \in {"Update", "Delete"} /\ Active(c)
       /\ row_locks' = Lock(row_locks, granted, tx.id)
       /\ Staged(c, IF found /\ blocked = {} THEN done.catalog ELSE tx.catalog, granted)
       /\ Returns(c, found /\ blocked = {} /\ done.ok)
       /\ UNCHANGED <<catalog, file, next_transaction_id, permits, open, log>>

\* insert_lock_key: the primary-key value as written in the statement, from
\* the first column that names it; else the staged table's next row id.
insert_lock_key(t, s) ==
    LET target == Target(t, s.columns)
        at == {i \in DOMAIN target \cap DOMAIN s.values : t.primary_key = <<target[i]>>}
    IN IF at = {} THEN <<"next", s.table, t.next_row_id>>
       ELSE <<"insert", s.table, index_key(s.values[Min(at)])>>

KeyError(t, s) ==
    LET target == Target(t, s.columns)
        at == {i \in DOMAIN target \cap DOMAIN s.values : t.primary_key = <<target[i]>>}
    IN at # {} /\ ~Indexable(s.values[Min(at)])

\* An INSERT whose key cannot be built, or is another transaction's.
InsertRefused(c) ==
    LET s == call[c].stmt
        tx == transaction[c]
    IN /\ At(c, "execute", "Insert") /\ Active(c)
       /\ s.table \in DOMAIN tx.catalog =>
              \/ KeyError(tx.catalog[s.table], s)
              \/ Conflicts(insert_lock_key(tx.catalog[s.table], s), tx.id)
       /\ Returns(c, FALSE)
       /\ UNCHANGED <<catalog, file, row_locks, next_transaction_id, permits, open,
                      transaction, log>>

\* (mutant) The id is read and not taken.
reserve_nothing(cat, n) == cat

\* reserve_insert_row_id takes the committed table's next row id, in memory only.
reserve_insert_row_id(cat, n) ==
    Put(cat, n, [cat[n] EXCEPT !.next_row_id = cat[n].next_row_id + 1])

\* An INSERT that gets its key: it reserves a row id, and locks that row too.
InsertStaged(c) ==
    LET s == call[c].stmt
        tx == transaction[c]
        mine == tx.catalog[s.table]
        key == insert_lock_key(mine, s)
        reserved == catalog[s.table].next_row_id
        ready == [mine EXCEPT !.next_row_id = IF @ < reserved THEN reserved ELSE @]
        keys == {key, <<"row", s.table, reserved>>}
        done == execute_statement(Put(tx.catalog, s.table, ready), s, Options)
    IN /\ At(c, "execute", "Insert") /\ Active(c)
       /\ s.table \in DOMAIN tx.catalog
       /\ ~KeyError(mine, s) /\ ~Conflicts(key, tx.id)
       /\ s.table \in DOMAIN catalog
       /\ catalog' = reserve_insert_row_id(catalog, s.table)
       /\ row_locks' = Lock(row_locks, keys, tx.id)
       /\ Staged(c, done.catalog, keys)
       /\ Returns(c, done.ok)
       /\ UNCHANGED <<file, next_transaction_id, permits, open, log>>

\* SELECT locks nothing; ParsedOnly and EXPLAIN fail in execute_statement.
ReadStaged(c) ==
    /\ call[c].at = "execute" /\ Active(c)
    /\ call[c].stmt.op \in {"Select", "ParsedOnly", "Explain"}
    /\ Returns(c, execute_statement(transaction[c].catalog, call[c].stmt, Options).ok)
    /\ UNCHANGED <<catalog, file, row_locks, next_transaction_id, permits, open, transaction, log>>

-----------------------------------------------------------------------------

\* The process ends, at any point of any call, and the pool is opened again.
Restart ==
    /\ FileBacked /\ Restarts
    /\ decode_with_options(file, Options).ok
    /\ catalog' = decode_with_options(file, Options).catalog
    /\ row_locks' = EmptyMap
    /\ next_transaction_id' = 1
    /\ permits' = MaxConnections
    /\ open' = {}
    /\ transaction' = [c \in Conn |-> NoTransaction]
    /\ call' = [c \in Conn |-> Idle]
    /\ UNCHANGED <<file, log>>

Step(c) ==
    \/ get(c) \/ drop(c)
    \/ \E s \in Statements : Start(c, s)
    \/ WriteBinlog(c) \/ WriteRedo(c)
    \/ ControlError(c) \/ begin(c) \/ commit(c) \/ rollback(c)
    \/ DdlCheck(c) \/ Autocommit(c)
    \/ LockAndWrite(c) \/ InsertRefused(c) \/ InsertStaged(c) \/ ReadStaged(c)

Next == Restart \/ \E c \in Conn : Step(c)

Spec == Init /\ [][Next]_vars

-----------------------------------------------------------------------------
(* Properties *)

\* The state's types: connections in use hold the missing permits, a
\* connection that is not checked out has neither a call nor a transaction,
\* and staged and committed row ids lie below their table's next_row_id.
RowIdsOK(cat) ==
    \A n \in DOMAIN cat :
        /\ cat[n].next_row_id \in 1..(MaxRowId + 1 + Cardinality(Conn))
        /\ DOMAIN cat[n].rows \subseteq 1..(cat[n].next_row_id - 1)
TypeOK ==
    /\ permits = MaxConnections - Cardinality(open)
    /\ open \subseteq Conn
    /\ DOMAIN transaction = Conn /\ DOMAIN call = Conn
    /\ next_transaction_id \in 1..(MaxTx + Cardinality(Conn))
    /\ \A k \in DOMAIN row_locks : row_locks[k] \in 1..(next_transaction_id - 1)
    /\ \A c \in Conn :
          /\ call[c].at \in {"idle", "execute", "ddl", "binlog", "redo"}
          /\ transaction[c].id \in 0..(next_transaction_id - 1)
          /\ c \notin open => transaction[c] = NoTransaction /\ call[c] = Idle
          /\ RowIdsOK(transaction[c].catalog)
    /\ RowIdsOK(catalog)

\* A transaction keeps every lock it was granted until it ends: neither a
\* conflict, a reserved row id nor another transaction's release takes one.
LocksHeld ==
    \A c \in Conn : \A k \in transaction[c].locked_rows :
        k \in DOMAIN row_locks /\ row_locks[k] = transaction[c].id

\* A lock that an open transaction holds is on its list, so that its end will
\* release it: also those granted before a conflict stopped the statement, and
\* those of a statement that failed.
LocksRecorded ==
    \A c \in Conn : \A k \in DOMAIN row_locks :
        row_locks[k] = transaction[c].id => k \in transaction[c].locked_rows

\* Two open transactions have different ids and no lock in common.
LocksExclusive ==
    \A c, d \in Conn : (c # d /\ Active(c) /\ Active(d)) =>
        /\ transaction[c].id # transaction[d].id
        /\ transaction[c].locked_rows \cap transaction[d].locked_rows = {}

\* Whatever a transaction wrote in its copy since BEGIN, it holds the row's
\* lock for: rows updated, deleted or inserted under a reserved id.
SameRow(t, u, r) ==
    /\ r \in DOMAIN t.rows <=> r \in DOMAIN u.rows
    /\ r \in DOMAIN t.rows => t.rows[r] = u.rows[r]
WriteSetLocked ==
    \A c \in Conn : \A n \in DOMAIN transaction[c].catalog :
        LET mine == transaction[c].catalog[n]
            old == transaction[c].base[n]
        IN \A r \in DOMAIN mine.rows \cup DOMAIN old.rows :
               SameRow(mine, old, r) \/ <<"row", n, r>> \in transaction[c].locked_rows

\* A COMMIT that changes the committed data changes exactly the rows its
\* transaction locked, to what it staged: nobody else's row is lost, no
\* staged row is left behind (merge_catalogs).
CommitMergesLocked ==
    [][\A c \in Conn :
          (Active(c) /\ transaction'[c].id = 0 /\ encode(catalog') # encode(catalog)) =>
              \A n \in DOMAIN catalog :
                  \A r \in 1..(catalog[n].next_row_id - 1) :
                      IF <<"row", n, r>> \in transaction[c].locked_rows
                      THEN SameRow(catalog'[n], transaction[c].catalog[n], r)
                      ELSE SameRow(catalog'[n], catalog[n], r)]_vars

\* Primary keys stay unique and the lookup maps exact in the committed and in
\* every staged catalog, although the insert locks are taken on the value as
\* written (1 and 1.0 are different keys) and outside statements take none.
IndexesExact(cat) ==
    \A n \in DOMAIN cat :
        /\ CanRebuild(cat[n])
        /\ cat[n].primary = PrimaryMap(cat[n])
        /\ \A i \in DOMAIN cat[n].indexes :
               cat[n].indexes[i].map = IndexMap(cat[n], cat[n].indexes[i].column)
CatalogsConsistent ==
    IndexesExact(catalog) /\ \A c \in Conn : IndexesExact(transaction[c].catalog)

\* The file always holds the committed rows and definitions: a crash between
\* two calls, or inside one, loses no acknowledged commit.
FileIsCommitted == FileBacked => file = encode(catalog)

\* A reserved row id has one owner: the rows that a transaction adds to its copy
\* have ids handed out since its BEGIN, which no committed row and no other
\* transaction's copy has, whatever failed, committed or rolled back meanwhile.
ReservedOnce ==
    \A c \in Conn : \A n \in DOMAIN transaction[c].catalog :
        LET old == transaction[c].base[n]
        IN \A r \in DOMAIN transaction[c].catalog[n].rows \ DOMAIN old.rows :
               /\ old.next_row_id <= r /\ r < catalog[n].next_row_id
               /\ r \notin DOMAIN catalog[n].rows
               /\ \A d \in Conn \ {c} : n \in DOMAIN transaction[d].catalog =>
                      r \notin DOMAIN transaction[d].catalog[n].rows

\* A row id enters the committed rows in one of three ways: it is new; the
\* transaction that commits reserved it, for it holds the row's lock and the id
\* was handed out after its BEGIN; or that transaction saw the row at BEGIN and
\* locked it, and an autocommit DELETE that looked at no lock had removed it.
RowsAreNewOrReserved ==
    \A n \in DOMAIN catalog \cap DOMAIN catalog' :
        \A r \in DOMAIN catalog'[n].rows \ DOMAIN catalog[n].rows :
            \/ r >= catalog[n].next_row_id
            \/ \E c \in Conn :
                  /\ transaction'[c].id = 0 /\ <<"row", n, r>> \in transaction[c].locked_rows
                  /\ \/ r >= transaction[c].base[n].next_row_id
                     \/ r \in DOMAIN transaction[c].base[n].rows
NewRowsTakeNewIds == [][RowsAreNewOrReserved]_vars

\* Nothing takes a table or an index away: a transaction that began before
\* CREATE INDEX ran commits into a table that keeps the index.
DefinitionsKept ==
    [][\A n \in DOMAIN catalog :
          /\ n \in DOMAIN catalog'
          /\ DOMAIN catalog[n].indexes \subseteq DOMAIN catalog'[n].indexes
          /\ DOMAIN catalog[n].fulltext_indexes \subseteq DOMAIN catalog'[n].fulltext_indexes]_vars

\* The redo stream of interleaved calls: of each statement, the BEGINs not
\* yet answered by a COMMIT or an ABORT are those of the calls still running.
RedoBalanced ==
    LET lines(events, s) == {i \in DOMAIN log.redo : log.redo[i][1] \in events /\ log.redo[i][2] = s}
    IN "redo" \in Streams => \A s \in Statements :
          (mutates_catalog(s) \/ commits(s)) =>
              Cardinality(lines({"BEGIN"}, s)) - Cardinality(lines({"COMMIT", "ABORT"}, s)) =
                  Cardinality({c \in Conn : call[c].at # "idle" /\ call[c].stmt = s})

-----------------------------------------------------------------------------
(* What the documentation says and the code does not do *)

\* A row that an open transaction has locked is changed by nobody else.
LockedRowsUntouched ==
    [][\A c \in Conn : \A k \in transaction[c].locked_rows :
          (k[1] = "row" /\ transaction'[c].id = transaction[c].id) =>
              SameRow(catalog'[k[2]], catalog[k[2]], k[3])]_vars

\* A lock ends with its transaction: no lock without an open owner.
NoOrphanLocks ==
    \A k \in DOMAIN row_locks : \E c \in Conn : transaction[c].id = row_locks[k]

\* No table or index is created while a transaction holds row locks.
Shape(cat) == [n \in DOMAIN cat |-> <<DOMAIN cat[n].indexes, DOMAIN cat[n].fulltext_indexes>>]
NoDdlUnderLocks == [][Shape(catalog') # Shape(catalog) => row_locks = EmptyMap]_vars
=============================================================================
