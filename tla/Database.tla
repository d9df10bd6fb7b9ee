------------------------------ MODULE Database ------------------------------
(***************************************************************************)
(* engine.rs: the embedded, single-threaded Database.  One call of execute *)
(* is one action; a database is closed (or its process dies) and opened    *)
(* again between two calls.                                                *)
(***************************************************************************)
EXTENDS Logs, SequencesExt

CONSTANTS Statements,     \* the parsed statements callers execute
          OptionSet,      \* the runtime options a database may be opened with
          FileBacked,     \* opened on a path, or in memory
          PersistFaults,  \* TRUE iff writing the database file may fail
          Restarts,       \* TRUE iff the database is ever closed and reopened
          MaxTables,      \* bound: no more tables than this are created
          MaxRowId,       \* bound: inserts stop here
          MaxLog          \* bound: logged calls stop at this many lines of a stream

ASSUME DatabaseAssumption ==
    /\ FileBacked \in BOOLEAN /\ PersistFaults \in BOOLEAN /\ Restarts \in BOOLEAN
    /\ MaxTables \in Nat /\ MaxRowId \in Nat /\ MaxLog \in Nat

ASSUME StatementsParsed == \A s \in Statements : IsStatement(s)

\* DatabaseOptions: a VectorMetric and a usize.
ASSUME OptionsTyped ==
    \A o \in OptionSet : o.metric \in Metrics /\ o.worker_threads \in Nat

VARIABLES options,      \* the options of the open database
          catalog,      \* the committed catalog
          transaction,  \* <<>>, or <<the catalog staged since BEGIN>>
          file,         \* what the database file holds, encoded
          log,          \* the log streams
          result        \* what the last call returned

vars == <<options, catalog, transaction, file, log, result>>

active_catalog == IF transaction = <<>> THEN catalog ELSE transaction[1]

Init ==
    /\ options \in OptionSet
    /\ catalog = EmptyCatalog
    /\ transaction = <<>>
    /\ file = encode(EmptyCatalog)
    /\ log = EmptyLog
    /\ result = "Ok"

-----------------------------------------------------------------------------
(* The outcomes [ok, catalog, transaction, file] of a statement *)

Outcome(ok, c, t, f) == [ok |-> ok, catalog |-> c, transaction |-> t, file |-> f]
Unchanged(ok) == Outcome(ok, catalog, transaction, file)

\* (mutant) The new catalog stays in memory when it cannot be written.
persist_not_restored(c, t, onError) ==
    {Outcome(TRUE, c, t, IF FileBacked THEN encode(c) ELSE file)} \cup
    (IF FileBacked /\ PersistFaults THEN {[onError EXCEPT !.catalog = c]} ELSE {})

\* persist replaces the file by rename, so it leaves the old file or the new.
persist(c, t, onError) ==
    {Outcome(TRUE, c, t, IF FileBacked THEN encode(c) ELSE file)} \cup
    (IF FileBacked /\ PersistFaults THEN {onError} ELSE {})

begin ==
    IF transaction # <<>> THEN {Unchanged(FALSE)}
    ELSE {Outcome(TRUE, catalog, <<catalog>>, file)}

\* A COMMIT that cannot persist keeps the transaction open.
commit ==
    IF transaction = <<>> THEN {Unchanged(FALSE)}
    ELSE persist(transaction[1], <<>>, Unchanged(FALSE))

rollback ==
    IF transaction = <<>> THEN {Unchanged(FALSE)}
    ELSE {Outcome(TRUE, catalog, <<>>, file)}

explain(s) ==
    {Unchanged(/\ s.statement.op = "Select"
               /\ s.statement.table \in DOMAIN active_catalog
               /\ FilterOk(active_catalog[s.statement.table], s.statement.filter, options))}

\* (mutant) Statements of a transaction go to the file at once.
execute_written_through(s) ==
    LET done == execute_statement(active_catalog, s, options)
    IN IF transaction # <<>>
       THEN {Outcome(done.ok, catalog, <<done.catalog>>, encode(done.catalog))}
       ELSE IF done.ok /\ mutates_catalog(s) THEN persist(done.catalog, <<>>, Unchanged(FALSE))
       ELSE {Unchanged(done.ok)}

execute_catalog_statement(s) ==
    LET done == execute_statement(active_catalog, s, options)
    IN IF transaction # <<>> THEN {Outcome(done.ok, catalog, <<done.catalog>>, file)}
       ELSE IF ~mutates_catalog(s) THEN {Outcome(done.ok, done.catalog, <<>>, file)}
       ELSE IF done.ok THEN persist(done.catalog, <<>>, Unchanged(FALSE))
       ELSE {Unchanged(FALSE)}

\* (mutant) The snapshot misses what the transaction staged.
undo_committed == encode(catalog)

undo_snapshot == encode(active_catalog)

\* execute: log lines before, the statement, log lines after.
Execute(s, outcomes) ==
    \E before \in LogBefore(log, s, undo_snapshot) :
        IF ~before.ok
        THEN /\ log' = before.log
             /\ result' = "Err"
             /\ UNCHANGED <<options, catalog, transaction, file>>
        ELSE \E o \in outcomes : \E after \in LogAfter(before.log, s, o.ok) :
                /\ catalog' = o.catalog
                /\ transaction' = o.transaction
                /\ file' = o.file
                /\ log' = after.log
                /\ result' = IF after.ok THEN "Ok" ELSE "Err"
                /\ UNCHANGED options

-----------------------------------------------------------------------------
(* The actions *)

LogRoom(s) ==
    (mutates_catalog(s) \/ transaction_control(s)) =>
        \A stream \in Streams : Len(log[stream]) < MaxLog
RowRoom(s) ==
    /\ (s.op = "Insert" /\ s.table \in DOMAIN active_catalog) =>
           active_catalog[s.table].next_row_id <= MaxRowId
    /\ (s.op = "CreateTable" /\ s.table \notin DOMAIN active_catalog) =>
           Cardinality(DOMAIN active_catalog) < MaxTables

Calls(op) == {s \in Statements : s.op = op /\ LogRoom(s)}

Begin == \E s \in Calls("Begin") : Execute(s, begin)
Commit == \E s \in Calls("Commit") : Execute(s, commit)
Rollback == \E s \in Calls("Rollback") : Execute(s, rollback)
Explain == \E s \in Calls("Explain") : Execute(s, explain(s))
Statement(op) == \E s \in Calls(op) : RowRoom(s) /\ Execute(s, execute_catalog_statement(s))

\* The database is closed or its process dies, and it is opened again with
\* options of the caller's choice.
Reopen ==
    /\ FileBacked /\ Restarts
    /\ decode_with_options(file, options).ok
    /\ options' \in OptionSet
    /\ catalog' = decode_with_options(file, options').catalog
    /\ transaction' = <<>>
    /\ result' = "Ok"
    /\ UNCHANGED <<file, log>>

Next ==
    \/ Begin \/ Commit \/ Rollback \/ Explain
    \/ Statement("CreateTable") \/ Statement("CreateIndex") \/ Statement("Insert")
    \/ Statement("Update") \/ Statement("Delete") \/ Statement("Select")
    \/ Statement("ParsedOnly")
    \/ Reopen

Spec == Init /\ [][Next]_vars

-----------------------------------------------------------------------------
(* Properties *)

Staged == {catalog} \cup {transaction[i] : i \in DOMAIN transaction}

\* Every row has exactly its table's columns, and row ids are positive and
\* below next_row_id.
TypeOK ==
    /\ options \in OptionSet
    /\ result \in {"Ok", "Err"}
    /\ Len(transaction) <= 1
    /\ \A c \in Staged : \A n \in DOMAIN c :
           /\ c[n].next_row_id \in 1..(MaxRowId + 1)
           /\ DOMAIN c[n].rows \subseteq 1..(c[n].next_row_id - 1)
           /\ \A r \in DOMAIN c[n].rows : DOMAIN c[n].rows[r] = ColumnNames(c[n])

\* A row id is handed out once while the database is open: an id that enters
\* the committed rows is at or above the next_row_id of the step before, so a
\* deleted row's id never comes back (insert_with_options, commit).
NewRowsTakeNewIds ==
    [][\A n \in DOMAIN catalog \cap DOMAIN catalog' :
          \A r \in DOMAIN catalog'[n].rows \ DOMAIN catalog[n].rows :
              r >= catalog[n].next_row_id]_vars

\* Whatever sequence of statements, failures and restarts led here, no two
\* rows share a primary key and none has a NULL one, and each lookup map is
\* exactly what the rows say (rebuild_indexes_with_options on every path).
IndexesExact ==
    \A c \in Staged : \A n \in DOMAIN c :
        /\ CanRebuild(c[n])
        /\ c[n].primary = PrimaryMap(c[n])
        /\ \A i \in DOMAIN c[n].indexes :
               c[n].indexes[i].map = IndexMap(c[n], c[n].indexes[i].column)

\* The full-text maps hold the tokens of the tokenizer the database was
\* opened with: the one MATCH splits its query with.
FullTextExact ==
    \A c \in Staged : \A n \in DOMAIN c : \A i \in DOMAIN c[n].fulltext_indexes :
        c[n].fulltext_indexes[i].map =
            FullTextMap(c[n], c[n].fulltext_indexes[i].column, options.fulltext_tokenizer)

\* Lookup answers: an equality filter served by the primary map, an index or
\* a scan returns only rows that a scan would, and misses none whose bits are
\* equal (only -0.0 and 0.0 are equal with other bits).  In particular it
\* returns no id without a row, the panic in update_with_options.
LookupExact ==
    \A c \in Staged : \A n \in DOMAIN c : \A s \in Statements :
        (/\ s.op \in {"Update", "Delete", "Select"} /\ s.table = n
         /\ s.filter[1] = "Equals" /\ FilterOk(c[n], s.filter, options)) =>
            LET col == column(c[n], s.filter[2])
                v == Coerce(col, s.filter[3])
                found == matching_row_ids(c[n], s.filter, options)
            IN /\ found \subseteq {r \in DOMAIN c[n].rows :
                                      SameValue(c[n].rows[r][col.name], v)}
               /\ {r \in DOMAIN c[n].rows : c[n].rows[r][col.name] = v} \subseteq found

\* Of two scores the first is listed first: no farther (no nearer, if DESC),
\* and if equally far the one with the lower (higher) row id.
Nearer(a, b) == ~Less(b[1], a[1]) /\ (Less(a[1], b[1]) \/ a[2] < b[2])
Listed(a, b, descending) == IF descending THEN Nearer(b, a) ELSE Nearer(a, b)

\* ORDER BY VECTOR_DISTANCE answers with the nearest (or farthest) rows: each
\* row with a vector that matches once, in order, ids breaking ties, and those
\* that LIMIT cuts off come later than those it keeps, however many workers
\* shared the scan; and it is an error exactly when some matching vector cannot
\* be compared with the target (vector_scores, select_with_options).
OrderExact ==
    \A c \in Staged : \A n \in DOMAIN c : \A s \in Statements :
        (/\ s.op = "Select" /\ s.table = n /\ s.order # <<>>
         /\ SelectOk(c[n], s.projection, s.filter, options) /\ OrderOk(c[n], s.order[1], options)) =>
            LET order == s.order[1]
                vector(r) == Datum(c[n].rows[r][order.column])
                rows == {r \in matching_row_ids(c[n], s.filter, options) :
                            c[n].rows[r][order.column] # Null}
                score(r) == <<vector_distance(vector(r), order.target, options.metric), r>>
                answer == select(c[n], s, options)
                kept == Range(answer.row_ids)
            IN /\ answer.ok <=> \A r \in rows : Comparable(vector(r), order.target, options.metric)
               /\ answer.ok =>
                     /\ kept \subseteq rows /\ Cardinality(kept) = Len(answer.row_ids)
                     /\ s.limit = <<>> => kept = rows
                     /\ s.limit # <<>> => Len(answer.row_ids) = Min({s.limit[1], Cardinality(rows)})
                     /\ \A i, j \in DOMAIN answer.row_ids :
                           i < j => Listed(score(answer.row_ids[i]), score(answer.row_ids[j]), order.descending)
                     /\ \A q \in kept, r \in rows \ kept : Listed(score(q), score(r), order.descending)

\* A restart finds what was committed: the file always decodes, to the same
\* rows and index definitions as the committed catalog.
FileIsCommitted ==
    FileBacked => /\ file = encode(catalog)
                  /\ decode_with_options(file, options).ok
                  /\ encode(decode_with_options(file, options).catalog) = file

\* What execute_statement_with_options promises when it returns an error: the
\* data of both catalogs, their next row ids and the file are as before.
Data(c) == [n \in DOMAIN c |-> <<encode_table(c[n]), c[n].next_row_id>>]
FailureChangesNothing ==
    [][result' = "Err" =>
          /\ Data(catalog') = Data(catalog)
          /\ DOMAIN transaction' = DOMAIN transaction
          /\ \A i \in DOMAIN transaction : Data(transaction'[i]) = Data(transaction[i])
          /\ file' = file]_vars

\* The redo stream brackets: between two calls every BEGIN is answered by a
\* COMMIT or an ABORT of the same statement before the next BEGIN.
RedoBracketed ==
    \A i \in DOMAIN log.redo : log.redo[i][1] = "BEGIN" =>
        /\ i < Len(log.redo)
        /\ log.redo[i + 1][1] \in {"COMMIT", "ABORT"}
        /\ log.redo[i + 1][2] = log.redo[i][2]

\* A database of the committed and, in a transaction, the staged catalog, built
\* by executing the lines of a binlog one after the other.
ReplayLine(db, s, o) ==
    CASE s.op = "Begin"    -> <<db[1], db[1]>>
      [] s.op = "Commit"   -> <<db[2]>>
      [] s.op = "Rollback" -> <<db[1]>>
      [] OTHER -> Append(Front(db), execute_statement(Last(db), s, o).catalog)
Replay(lines, o) == FoldLeft(LAMBDA db, s : ReplayLine(db, s, o), <<EmptyCatalog>>, lines)

\* Replaying the binlog's statements on an empty database rebuilds the
\* committed and the staged catalog: nothing that changed them is missing
\* from it, nothing that failed is in it, and the order is the order of
\* execution (execute_inner).
BinlogReplays ==
    "bin" \in Streams => Replay(log.bin, options) = <<catalog>> \o transaction

\* The undo stream undoes: a mutation that is in the binlog has its snapshot
\* there, the catalog that the binlog without the mutation's line rebuilds, the
\* staged one inside a transaction, whatever appends to undo failed, before or
\* since (execute_inner, active_catalog).
UndoReverts ==
    ({"undo", "bin"} \subseteq Streams /\ log.bin # <<>> /\ mutates_catalog(Last(log.bin))) =>
        <<Last(log.bin), encode(Last(Replay(Front(log.bin), options)))>> \in Range(log.undo)

\* The database is an implementation of Store: statements and transactions
\* are atomic and durable in the file.
StagedData == [i \in DOMAIN transaction |-> encode(transaction[i])]
AtomicStore == INSTANCE Store WITH durable <- file, staged <- StagedData
ImplementsStore == AtomicStore!Spec
=============================================================================
