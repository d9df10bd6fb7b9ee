--------------------------- MODULE PoolDataProofs ---------------------------
(***************************************************************************)
(* Proofs about the data of Pool, on top of the lock and row-id argument   *)
(* of PoolProofs: what a transaction wrote it has locked, COMMIT moves     *)
(* exactly the locked rows, every catalog keeps unique keys and exact      *)
(* maps, and the file holds what is committed.                             *)
(***************************************************************************)
EXTENDS PoolProofs, DataProofs

Catalogs == DataCatalog(catalog) /\ \A c \in Conn : DataCatalog(transaction[c].catalog)

\* A staged table has the columns of the committed one, so that its rows fit.
StagedColumns ==
    \A c \in Conn : \A n \in DOMAIN transaction[c].catalog :
        transaction[c].catalog[n].columns = catalog[n].columns

\* A transaction locks rows of tables that it sees.
LockedTables ==
    \A c \in Conn : \A k \in transaction[c].locked_rows :
        k[1] = "row" => k[2] \in DOMAIN transaction[c].catalog

PoolDataInv ==
    Catalogs /\ StagedColumns /\ LockedTables /\ WriteSetLocked /\ FileIsCommitted

-----------------------------------------------------------------------------
(* Rows that an operation leaves alone *)

\* A table with the same rows.
LEMMA SameRows ==
    ASSUME NEW t, NEW u, u.rows = t.rows
    PROVE  \A r : SameRow(u, t, r)
BY DEF SameRow

\* UPDATE and DELETE, successful or not, change matching rows only.
LEMMA WriteRows ==
    ASSUME NEW t, TypedTable(t), NEW s, s.op \in {"Update", "Delete"}, NEW options,
           NEW r, r \notin matching_row_ids(t, s.filter, options)
    PROVE  SameRow(OnTable(t, s, options).table, t, r)
<1>0. DOMAIN t = Fields
  BY DEF TypedTable
<1>1. ASSUME NEW rows, NEW o, r \in DOMAIN rows <=> r \in DOMAIN t.rows,
             r \in DOMAIN rows => rows[r] = t.rows[r]
      PROVE  SameRow(rebuild_indexes([t EXCEPT !.rows = rows], o), t, r)
  <2>1. rebuild_indexes([t EXCEPT !.rows = rows], o).rows = rows
    BY <1>0 DEF rebuild_indexes, Fields
  <2> QED
    BY <1>1, <2>1 DEF SameRow
<1>2. SameRow(t, t, r)
  BY DEF SameRow
<1>3. \A o : SameRow(rebuild_indexes(t, o), t, r)
  BY RebuildData DEF SameRow
<1> DEFINE ids == matching_row_ids(t, s.filter, options)
<1>4. CASE s.op = "Update"
  <2> DEFINE rows == [q \in DOMAIN t.rows |->
                        IF q \in ids THEN Assign(t, t.rows[q], s.target, s.values) ELSE t.rows[q]]
             new == [t EXCEPT !.rows = rows]
             done == OnTable(t, s, options).table
  <2>1. done = t \/ done = rebuild_indexes(new, options) \/ done = rebuild_indexes(t, options)
    BY <1>4 DEF OnTable, Update, Failed, Rebuilt
  <2>2. (r \in DOMAIN rows <=> r \in DOMAIN t.rows) /\ (r \in DOMAIN rows => rows[r] = t.rows[r])
    OBVIOUS
  <2> HIDE DEF rows, done
  <2>3. SameRow(rebuild_indexes(new, options), t, r)
    BY <1>1, <2>2
  <2> QED
    BY <1>2, <1>3, <2>1, <2>3 DEF done
<1>5. CASE s.op = "Delete"
  <2> DEFINE rows == [q \in DOMAIN t.rows \ ids |-> t.rows[q]]
             new == [t EXCEPT !.rows = rows]
             done == OnTable(t, s, options).table
  <2>1. done = t \/ done = rebuild_indexes(new, options)
    BY <1>5 DEF OnTable, Delete, Failed, Rebuilt
  <2>2. (r \in DOMAIN rows <=> r \in DOMAIN t.rows) /\ (r \in DOMAIN rows => rows[r] = t.rows[r])
    OBVIOUS
  <2> HIDE DEF rows, done
  <2>3. SameRow(rebuild_indexes(new, options), t, r)
    BY <1>1, <2>2
  <2> QED
    BY <1>2, <2>1, <2>3 DEF done
<1> QED
  BY <1>4, <1>5

\* INSERT, successful or not, changes no row but the one under next_row_id.
LEMMA InsertRows ==
    ASSUME NEW t, TypedTable(t), NEW s, s.op = "Insert", NEW options, NEW r, r # t.next_row_id
    PROVE  SameRow(OnTable(t, s, options).table, t, r)
<1>0. DOMAIN t = Fields
  BY DEF TypedTable
<1>1. ASSUME NEW row PROVE SameRow(rebuild_indexes(AddRow(t, row), options), t, r)
  <2>1. rebuild_indexes(AddRow(t, row), options).rows = Put(t.rows, t.next_row_id, row)
    BY <1>0 DEF rebuild_indexes, AddRow, Fields
  <2> QED
    BY <2>1 DEF SameRow, Put
<1> DEFINE row == Assign(t, [c \in ColumnNames(t) |-> Null], Target(t, s.columns), s.values)
           done == OnTable(t, s, options).table
<1>2. done = t \/ done = rebuild_indexes(AddRow(t, row), options)
  BY DEF OnTable, Insert, Failed, Rebuilt
<1> HIDE DEF row
<1> QED
  BY <1>1, <1>2 DEF SameRow

-----------------------------------------------------------------------------
(* The merge *)

SameEntry(f, g, r) == (r \in DOMAIN f <=> r \in DOMAIN g) /\ (r \in DOMAIN f => f[r] = g[r])

\* The rows of a merged table (merge_catalogs): a locked row is the staged
\* one, a row that the committed table has handed out and nobody locked is the
\* committed one.
LEMMA MergedRow ==
    ASSUME NEW base, NEW staged, NEW ids, NEW r, NEW n \in Nat, base.next_row_id = n
    PROVE  /\ r \in ids => SameEntry(MergedRows(base, staged, ids), staged.rows, r)
           /\ (r \notin ids /\ r \in 1..(n - 1)) =>
                  SameEntry(MergedRows(base, staged, ids), base.rows, r)
<1> DEFINE appended == n..(staged.next_row_id - 1)
           taken == (ids \cup appended) \cap DOMAIN staged.rows
           rows == MergedRows(base, staged, ids)
<1>1. rows = [q \in (DOMAIN base.rows \ ids) \cup taken |->
                 IF q \in taken THEN staged.rows[q] ELSE base.rows[q]]
  BY DEF MergedRows
<1>2. r \in 1..(n - 1) => r \notin appended
  OBVIOUS
<1> HIDE DEF appended, rows
<1>3. /\ r \in ids => SameEntry(rows, staged.rows, r)
      /\ (r \notin ids /\ r \in 1..(n - 1)) => SameEntry(rows, base.rows, r)
  BY <1>1, <1>2 DEF SameEntry
<1> QED
  BY <1>3 DEF rows

\* A merge without an error leaves typed and exact tables, with the committed
\* definitions.
LEMMA MergeData ==
    ASSUME NEW base, Sound(base), DataCatalog(base), NEW staged, DataCatalog(staged), NEW locked,
           \A n \in DOMAIN staged : n \in DOMAIN base /\ staged[n].columns = base[n].columns,
           merge_catalogs(base, staged, locked).ok
    PROVE  LET new == merge_catalogs(base, staged, locked).catalog
           IN /\ DataCatalog(new) /\ DOMAIN new = DOMAIN base
              /\ \A n \in DOMAIN base : Definitions(base[n], new[n])
              /\ \A n \in DOMAIN staged :
                    new[n].rows = MergedRows(base[n], staged[n], LockedIds(locked, n))
              /\ \A n \in DOMAIN base \ DOMAIN staged : new[n] = base[n]
<1> DEFINE new == merge_catalogs(base, staged, locked).catalog
           both == DOMAIN base \cap DOMAIN staged
           merged(n) == MergedTable(base[n], staged[n], LockedIds(locked, n))
<1>1. /\ DOMAIN new = DOMAIN base \cup DOMAIN staged
      /\ \A n \in both : new[n] = rebuild_indexes(merged(n), DefaultOptions)
      /\ \A n \in DOMAIN base \ both : new[n] = base[n]
      /\ \A n \in both : CanRebuild(merged(n))
  BY DEF merge_catalogs, Rebuilt
<1>2. both = DOMAIN staged /\ DOMAIN base \cup DOMAIN staged = DOMAIN base
  OBVIOUS
<1> HIDE DEF new
<1>3. ASSUME NEW n \in DOMAIN staged
      PROVE  /\ DataTable(new[n]) /\ Definitions(base[n], new[n])
             /\ new[n].rows = MergedRows(base[n], staged[n], LockedIds(locked, n))
  <2>1. PICK b : b = base[n]
    OBVIOUS
  <2>2. PICK g : g = staged[n]
    OBVIOUS
  <2>3. PICK ids : ids = LockedIds(locked, n)
    OBVIOUS
  <2>4. PICK m : m = merged(n)
    OBVIOUS
  <2>5. TypedTable(b) /\ TypedTable(g) /\ g.columns = b.columns /\ DOMAIN b = Fields
    BY <2>1, <2>2 DEF DataCatalog, DataTable, TypedTable
  <2>6. /\ DOMAIN m = Fields /\ m.rows = MergedRows(b, g, ids) /\ m.columns = b.columns
        /\ m.primary_key = b.primary_key /\ m.indexes = b.indexes
        /\ m.fulltext_indexes = b.fulltext_indexes
    BY <2>1, <2>2, <2>3, <2>4, <2>5 DEF MergedTable, Fields
  <2>7. ColumnNames(m) = ColumnNames(b) /\ ColumnNames(g) = ColumnNames(b)
    BY <2>5, <2>6 DEF ColumnNames
  <2>8. \A r \in DOMAIN MergedRows(b, g, ids) :
            \/ r \in DOMAIN b.rows /\ MergedRows(b, g, ids)[r] = b.rows[r]
            \/ r \in DOMAIN g.rows /\ MergedRows(b, g, ids)[r] = g.rows[r]
    BY DEF MergedRows
  <2>9. TypedRows(m)
    BY <2>5, <2>6, <2>7, <2>8 DEF TypedTable, TypedRows
  <2>10. TypedTable(m)
    BY <2>5, <2>6, <2>7, <2>9 DEF TypedTable
  <2>11. Definitions(b, m)
    BY <2>6 DEF Definitions
  <2>12. new[n] = rebuild_indexes(m, DefaultOptions) /\ CanRebuild(m)
    BY <1>1, <2>4
  <2>13. Keeps(b, new[n])
    BY <2>10, <2>11, <2>12, RebuiltKeeps
  <2>14. new[n].rows = m.rows
    BY <2>10, <2>12, RebuildData
  <2> QED
    BY <2>1, <2>2, <2>3, <2>6, <2>13, <2>14 DEF Keeps
<1>4. \A n \in DOMAIN base \ DOMAIN staged :
          new[n] = base[n] /\ DataTable(new[n]) /\ Definitions(base[n], new[n])
  BY <1>1, <1>2 DEF DataCatalog, Definitions
<1> HIDE DEF merged
<1>5. DOMAIN new = DOMAIN base
  BY <1>1, <1>2
<1>6. DataCatalog(new)
  BY <1>3, <1>4, <1>5 DEF DataCatalog
<1>7. \A n \in DOMAIN base : Definitions(base[n], new[n])
  BY <1>3, <1>4
<1> QED
  BY <1>3, <1>4, <1>5, <1>6, <1>7 DEF new

-----------------------------------------------------------------------------
(* Steps that stage nothing *)

\* The committed catalog keeps its tables and their columns.
KeepsColumns(old, new) ==
    \A n \in DOMAIN old : n \in DOMAIN new /\ new[n].columns = old[n].columns

\* A connection without a transaction has no staged tables.
LEMMA NoTransactionData ==
    DOMAIN NoTransaction.catalog = {} /\ NoTransaction.locked_rows = {}
    /\ DataCatalog(NoTransaction.catalog)
BY DEF NoTransaction, EmptyCatalog, EmptyMap, DataCatalog

\* Each transaction stays as it is or ends; the committed catalog stays, or is
\* replaced by a typed and exact one that the file holds.
LEMMA UnstagedData ==
    ASSUME PoolInv, PoolDataInv,
           \A c \in Conn : transaction'[c] = transaction[c] \/ transaction'[c] = NoTransaction,
           DataCatalog(catalog'), KeepsColumns(catalog, catalog'), FileIsCommitted'
    PROVE  PoolDataInv'
<1>1. Catalogs'
  BY NoTransactionData DEF PoolDataInv, Catalogs
<1>2. StagedColumns'
  BY NoTransactionData DEF PoolInv, StagedBelow, PoolDataInv, StagedColumns, KeepsColumns
<1>3. LockedTables'
  BY NoTransactionData DEF PoolDataInv, LockedTables
<1>4. WriteSetLocked'
  BY NoTransactionData DEF PoolDataInv, WriteSetLocked
<1> QED
  BY <1>1, <1>2, <1>3, <1>4 DEF PoolDataInv

\* The same when the committed catalog and the file stay.
LEMMA QuietData ==
    ASSUME PoolInv, PoolDataInv, UNCHANGED <<catalog, file>>,
           \A c \in Conn : transaction'[c] = transaction[c] \/ transaction'[c] = NoTransaction
    PROVE  PoolDataInv'
<1>1. DataCatalog(catalog') /\ KeepsColumns(catalog, catalog') /\ FileIsCommitted'
  BY DEF PoolDataInv, Catalogs, KeepsColumns, FileIsCommitted
<1> QED
  BY <1>1, UnstagedData

\* Later versions of all tables have the same columns.
LEMMA DefinitionsColumns ==
    ASSUME NEW old, NEW new, \A n \in DOMAIN old : n \in DOMAIN new /\ Definitions(old[n], new[n])
    PROVE  KeepsColumns(old, new)
BY DEF KeepsColumns, Definitions

\* A save (persist_catalog) of a typed and exact catalog, or its failure.
LEMMA PersistData ==
    ASSUME PoolInv, PoolDataInv, NEW cat, NEW saved \in BOOLEAN, Persist(cat, saved),
           catalog' = IF saved THEN cat ELSE catalog,
           DataCatalog(cat), KeepsColumns(catalog, cat),
           \A c \in Conn : transaction'[c] = transaction[c] \/ transaction'[c] = NoTransaction
    PROVE  PoolDataInv'
<1>1. CASE saved
  <2>1. catalog' = cat /\ (FileBacked => file' = encode(cat))
    BY <1>1 DEF Persist
  <2>2. FileIsCommitted'
    BY <2>1 DEF FileIsCommitted
  <2> QED
    BY <2>1, <2>2, UnstagedData
<1>2. CASE ~saved
  <2>1. UNCHANGED <<catalog, file>>
    BY <1>2 DEF Persist
  <2> QED
    BY <2>1, QuietData
<1> QED
  BY <1>1, <1>2

\* COMMIT merges into a catalog that is typed and exact.
LEMMA MergedData ==
    ASSUME PoolInv, PoolDataInv, NEW c \in Conn, Merged(c).ok
    PROVE  LET new == Merged(c).catalog
           IN /\ DataCatalog(new) /\ DOMAIN new = DOMAIN catalog
              /\ \A n \in DOMAIN catalog : Definitions(catalog[n], new[n])
              /\ \A n \in DOMAIN transaction[c].catalog :
                    new[n].rows = MergedRows(catalog[n], transaction[c].catalog[n],
                                             LockedIds(transaction[c].locked_rows, n))
              /\ \A n \in DOMAIN catalog \ DOMAIN transaction[c].catalog : new[n] = catalog[n]
<1>1. /\ Sound(catalog) /\ DataCatalog(catalog) /\ DataCatalog(transaction[c].catalog)
      /\ \A n \in DOMAIN transaction[c].catalog :
            n \in DOMAIN catalog /\ transaction[c].catalog[n].columns = catalog[n].columns
  BY DEF PoolInv, CatalogsSound, StagedBelow, PoolDataInv, Catalogs, StagedColumns
<1> QED
  BY <1>1, MergeData DEF Merged

\* COMMIT keeps the data invariant.
LEMMA CommitData ==
    ASSUME PoolInv, PoolDataInv, NEW c \in Conn, commit(c)
    PROVE  PoolDataInv'
<1>1. \A d \in Conn : transaction'[d] = transaction[d] \/ transaction'[d] = NoTransaction
  BY DEF commit, PoolInv, Shapes
<1>2. CASE Merged(c).ok
  <2>1. PICK saved \in BOOLEAN :
            /\ Persist(Merged(c).catalog, saved)
            /\ catalog' = IF saved THEN Merged(c).catalog ELSE catalog
    BY <1>2 DEF commit
  <2>2. DataCatalog(Merged(c).catalog) /\ KeepsColumns(catalog, Merged(c).catalog)
    BY <1>2, MergedData, DefinitionsColumns
  <2> QED
    BY <1>1, <2>1, <2>2, PersistData
<1>3. CASE ~Merged(c).ok
  BY <1>1, <1>3, QuietData DEF commit
<1> QED
  BY <1>2, <1>3

\* What a statement outside a transaction makes of the committed catalog.
LEMMA AutocommitDone ==
    ASSUME PoolInv, PoolDataInv, NEW c \in Conn, Autocommit(c)
    PROVE  LET new == execute_statement(catalog, call[c].stmt, Options).catalog
           IN /\ DataCatalog(new)
              /\ \A n \in DOMAIN catalog : n \in DOMAIN new /\ Definitions(catalog[n], new[n])
<1>1. IsStatement(call[c].stmt)
  BY StatementsParsed DEF Autocommit, PoolInv, Shapes
<1>2. Sound(catalog) /\ DataCatalog(catalog)
  BY DEF PoolInv, CatalogsSound, PoolDataInv, Catalogs
<1> QED
  BY <1>1, <1>2, ExecuteData

\* A statement outside a transaction keeps the data invariant.
LEMMA AutocommitData ==
    ASSUME PoolInv, PoolDataInv, NEW c \in Conn, Autocommit(c)
    PROVE  PoolDataInv'
<1> DEFINE done == execute_statement(catalog, call[c].stmt, Options)
<1>1. \A d \in Conn : transaction'[d] = transaction[d] \/ transaction'[d] = NoTransaction
  BY DEF Autocommit
<1>2. CASE done.ok
  <2>1. PICK saved \in BOOLEAN :
            /\ Persist(done.catalog, saved)
            /\ catalog' = IF saved THEN done.catalog ELSE catalog
    BY <1>2 DEF Autocommit
  <2>2. DataCatalog(done.catalog) /\ KeepsColumns(catalog, done.catalog)
    BY AutocommitDone, DefinitionsColumns
  <2> HIDE DEF done
  <2> QED
    BY <1>1, <2>1, <2>2, PersistData
<1>3. CASE ~done.ok
  <2>1. UNCHANGED <<catalog, file>>
    BY <1>3 DEF Autocommit
  <2> QED
    BY <1>1, <2>1, QuietData
<1> QED
  BY <1>2, <1>3

\* A restart finds the data that was committed.
LEMMA RestartFile ==
    ASSUME PoolInv, PoolDataInv, Restart
    PROVE  /\ DataCatalog(catalog') /\ encode(catalog') = encode(catalog)
           /\ file' = file /\ file = encode(catalog)
<1>1. /\ file = encode(catalog) /\ file' = file
      /\ decode_with_options(file, Options).ok
      /\ catalog' = decode_with_options(file, Options).catalog
  BY DEF Restart, PoolDataInv, FileIsCommitted
<1>2. Written(file)
  BY <1>1, EncodeData DEF PoolInv, CatalogsSound, PoolDataInv, Catalogs
<1> QED
  BY <1>1, <1>2, DecodeData

\* Two catalogs with the same encoding have the same definitions.
LEMMA EncodingDefinitions ==
    ASSUME NEW old, NEW new, encode(new) = encode(old)
    PROVE  /\ DOMAIN new = DOMAIN old
           /\ \A n \in DOMAIN old : Definitions(old[n], new[n])
<1>1. DOMAIN new = DOMAIN encode(new) /\ DOMAIN old = DOMAIN encode(old)
  BY DEF encode
<1>2. ASSUME NEW n \in DOMAIN old PROVE Definitions(old[n], new[n])
  <2>1. encode_table(new[n]) = encode_table(old[n])
    BY <1>1 DEF encode
  <2>2. \A t : /\ encode_table(t).columns = t.columns
               /\ DOMAIN encode_table(t).indexes = DOMAIN t.indexes
               /\ DOMAIN encode_table(t).fulltext_indexes = DOMAIN t.fulltext_indexes
    BY DEF encode_table, indexes_for_encoding
  <2> QED
    BY <2>1, <2>2 DEF Definitions
<1> QED
  BY <1>1, <1>2

\* A restart keeps the data invariant.
LEMMA RestartData ==
    ASSUME PoolInv, PoolDataInv, Restart
    PROVE  PoolDataInv'
<1>1. DataCatalog(catalog') /\ KeepsColumns(catalog, catalog') /\ FileIsCommitted'
  BY RestartFile, EncodingDefinitions, DefinitionsColumns DEF FileIsCommitted
<1>2. \A c \in Conn : transaction'[c] = NoTransaction
  BY DEF Restart
<1> QED
  BY <1>1, <1>2, UnstagedData

-----------------------------------------------------------------------------
(* Steps of an open transaction *)

\* BEGIN keeps the data invariant: its copy is the committed catalog.
LEMMA BeginData ==
    ASSUME PoolInv, PoolDataInv, NEW c \in Conn, begin(c)
    PROVE  PoolDataInv'
<1>1. PICK tx : tx = [id |-> next_transaction_id, catalog |-> catalog, locked_rows |-> {},
                      base |-> catalog]
  OBVIOUS
<1>2. tx.catalog = catalog /\ tx.locked_rows = {} /\ tx.base = catalog
  BY <1>1
<1>3. /\ transaction' = [transaction EXCEPT ![c] = tx] /\ UNCHANGED <<catalog, file>>
  BY <1>1 DEF begin
<1>4. transaction'[c] = tx /\ \A d \in Conn : d # c => transaction'[d] = transaction[d]
  BY <1>3 DEF PoolInv, Shapes
<1>5. Catalogs' /\ StagedColumns' /\ LockedTables' /\ FileIsCommitted'
  <2>1. Catalogs'
    BY <1>2, <1>3, <1>4 DEF PoolDataInv, Catalogs
  <2>2. StagedColumns'
    BY <1>2, <1>3, <1>4 DEF PoolDataInv, StagedColumns
  <2>3. LockedTables' /\ FileIsCommitted'
    BY <1>2, <1>3, <1>4 DEF PoolDataInv, LockedTables, FileIsCommitted
  <2> QED
    BY <2>1, <2>2, <2>3
<1>6. WriteSetLocked'
  <2>1. \A t, r : SameRow(t, t, r)
    BY DEF SameRow
  <2>2. WriteSetLocked
    BY DEF PoolDataInv
  <2> QED
    BY <1>2, <1>4, <2>1, <2>2 DEF WriteSetLocked
<1> QED
  BY <1>5, <1>6 DEF PoolDataInv

\* A statement of a transaction: the staged tables stay typed, exact and of
\* the committed columns, and a row that it does not lock it does not change.
LEMMA StageData ==
    ASSUME PoolInv, PoolDataInv, NEW c \in Conn, NEW staged, NEW keys, Staged(c, staged, keys),
           DataCatalog(catalog'), KeepsColumns(catalog, catalog'), FileIsCommitted',
           DataCatalog(staged), DOMAIN staged = DOMAIN transaction[c].catalog,
           KeepsColumns(transaction[c].catalog, staged),
           \A k \in keys : k[1] = "row" => k[2] \in DOMAIN staged,
           \A n \in DOMAIN staged : \A r :
               SameRow(staged[n], transaction[c].catalog[n], r) \/ <<"row", n, r>> \in keys
    PROVE  PoolDataInv'
<1>1. PICK tx : tx = [transaction[c] EXCEPT !.catalog = staged,
                                            !.locked_rows = transaction[c].locked_rows \cup keys]
  OBVIOUS
<1>2. /\ tx.catalog = staged /\ tx.base = transaction[c].base
      /\ tx.locked_rows = transaction[c].locked_rows \cup keys
  BY <1>1 DEF PoolInv, Shapes
<1>3. transaction' = [transaction EXCEPT ![c] = tx]
  BY <1>1 DEF Staged
<1>4. transaction'[c] = tx /\ \A d \in Conn : d # c => transaction'[d] = transaction[d]
  BY <1>3 DEF PoolInv, Shapes
<1>5. Catalogs'
  BY <1>2, <1>4 DEF PoolDataInv, Catalogs
<1>6. StagedColumns'
  <2> SUFFICES ASSUME NEW d \in Conn, NEW n \in DOMAIN transaction'[d].catalog
               PROVE  transaction'[d].catalog[n].columns = catalog'[n].columns
    BY DEF StagedColumns
  <2>1. n \in DOMAIN transaction[d].catalog
    BY <1>2, <1>4
  <2>2. n \in DOMAIN catalog /\ transaction[d].catalog[n].columns = catalog[n].columns
    BY <2>1 DEF PoolInv, StagedBelow, PoolDataInv, StagedColumns
  <2>3. transaction'[d].catalog[n].columns = transaction[d].catalog[n].columns
    BY <1>2, <1>4, <2>1 DEF KeepsColumns
  <2> QED
    BY <2>2, <2>3 DEF KeepsColumns
<1>7. LockedTables'
  BY <1>2, <1>4 DEF PoolDataInv, LockedTables
<1>8. WriteSetLocked'
  <2> SUFFICES ASSUME NEW d \in Conn, NEW n \in DOMAIN transaction'[d].catalog, NEW r
               PROVE  \/ SameRow(transaction'[d].catalog[n], transaction'[d].base[n], r)
                      \/ <<"row", n, r>> \in transaction'[d].locked_rows
    BY DEF WriteSetLocked
  <2>1. n \in DOMAIN transaction[d].catalog
    BY <1>2, <1>4
  <2>2. \/ SameRow(transaction[d].catalog[n], transaction[d].base[n], r)
        \/ <<"row", n, r>> \in transaction[d].locked_rows
    <3>1. CASE r \in DOMAIN transaction[d].catalog[n].rows \cup DOMAIN transaction[d].base[n].rows
      BY <2>1, <3>1 DEF PoolDataInv, WriteSetLocked
    <3>2. CASE r \notin DOMAIN transaction[d].catalog[n].rows \cup DOMAIN transaction[d].base[n].rows
      BY <3>2 DEF SameRow
    <3> QED
      BY <3>1, <3>2
  <2>3. CASE d # c
    BY <1>4, <2>2, <2>3
  <2>4. CASE d = c
    <3>1. SameRow(staged[n], transaction[c].catalog[n], r) \/ <<"row", n, r>> \in keys
      BY <2>1, <2>4
    <3>2. \A t, u, w : SameRow(t, u, r) /\ SameRow(u, w, r) => SameRow(t, w, r)
      BY DEF SameRow
    <3> QED
      BY <1>2, <1>4, <2>2, <2>4, <3>1, <3>2
  <2> QED
    BY <2>3, <2>4
<1> QED
  BY <1>5, <1>6, <1>7, <1>8 DEF PoolDataInv

\* UPDATE and DELETE in a transaction keep the data invariant.
LEMMA LockAndWriteData ==
    ASSUME PoolInv, PoolDataInv, NEW c \in Conn, LockAndWrite(c)
    PROVE  PoolDataInv'
<1> DEFINE found == call[c].stmt.table \in DOMAIN transaction[c].catalog
                    /\ FilterOk(transaction[c].catalog[call[c].stmt.table], call[c].stmt.filter, Options)
           matching == matching_row_ids(transaction[c].catalog[call[c].stmt.table],
                                        call[c].stmt.filter, Options)
<1>1. PICK s : s = call[c].stmt
  OBVIOUS
<1>2. PICK old : old = transaction[c].catalog
  OBVIOUS
<1>3. PICK ids : ids = IF found THEN matching ELSE {}
  OBVIOUS
<1>4. PICK blocked : blocked = {r \in ids : Conflicts(<<"row", s.table, r>>, transaction[c].id)}
  OBVIOUS
<1>5. PICK granted : granted = {<<"row", s.table, r>> : r \in {r \in ids : \A q \in blocked : r < q}}
  OBVIOUS
<1>6. PICK done : done = execute_statement(old, s, Options).catalog
  OBVIOUS
<1>7. PICK staged : staged = IF found /\ blocked = {} THEN done ELSE old
  OBVIOUS
<1>8. /\ call[c].at = "execute" /\ s.op \in {"Update", "Delete"}
      /\ Staged(c, staged, granted) /\ UNCHANGED <<catalog, file>>
  BY <1>1, <1>2, <1>3, <1>4, <1>5, <1>6, <1>7 DEF LockAndWrite
<1>9. IsStatement(s)
  BY <1>1, <1>8, StatementsParsed DEF PoolInv, Shapes
<1>10. Sound(old) /\ DataCatalog(old)
  BY <1>2 DEF PoolInv, CatalogsSound, PoolDataInv, Catalogs
<1>11. /\ DataCatalog(done) /\ KeepsColumns(old, done) /\ DOMAIN done = DOMAIN old
  <2>1. /\ DataCatalog(done)
        /\ \A n \in DOMAIN old : n \in DOMAIN done /\ Definitions(old[n], done[n])
    BY <1>6, <1>9, <1>10, ExecuteData
  <2>2. DOMAIN done = DOMAIN old
    BY <1>6, <1>8, <1>10, ExecuteSteps
  <2> QED
    BY <2>1, <2>2, DefinitionsColumns
<1>12. ASSUME found, blocked = {}, NEW n \in DOMAIN old, NEW r
       PROVE  SameRow(done[n], old[n], r) \/ <<"row", n, r>> \in granted
  <2>1. s.table \in DOMAIN old /\ ids = matching_row_ids(old[s.table], s.filter, Options)
    BY <1>1, <1>2, <1>3, <1>12
  <2>2. done = Put(old, s.table, OnTable(old[s.table], s, Options).table)
    BY <1>6, <1>8, <2>1 DEF execute_statement
  <2>3. CASE n # s.table
    BY <2>2, <2>3 DEF Put, SameRow
  <2>4. CASE n = s.table /\ r \in ids
    BY <1>5, <1>12, <2>4
  <2>5. CASE n = s.table /\ r \notin ids
    <3>1. TypedTable(old[n])
      BY <1>10 DEF DataCatalog, DataTable
    <3>2. SameRow(OnTable(old[n], s, Options).table, old[n], r)
      BY <1>8, <2>1, <2>5, <3>1, WriteRows
    <3> QED
      BY <2>2, <2>5, <3>2 DEF Put
  <2> QED
    BY <2>3, <2>4, <2>5
<1>13. \A k \in granted : k[1] = "row" => k[2] \in DOMAIN old
  <2>1. ids # {} => s.table \in DOMAIN old
    BY <1>1, <1>2, <1>3
  <2> QED
    BY <1>5, <2>1
<1> HIDE DEF found
<1>14. /\ DataCatalog(staged) /\ DOMAIN staged = DOMAIN old /\ KeepsColumns(old, staged)
  BY <1>7, <1>10, <1>11 DEF KeepsColumns
<1>15. \A n \in DOMAIN staged : \A r :
           SameRow(staged[n], old[n], r) \/ <<"row", n, r>> \in granted
  BY <1>7, <1>12, <1>14 DEF SameRow
<1>16. DataCatalog(catalog') /\ KeepsColumns(catalog, catalog') /\ FileIsCommitted'
  BY <1>8 DEF PoolDataInv, Catalogs, KeepsColumns, FileIsCommitted
<1> QED
  BY <1>2, <1>8, <1>13, <1>14, <1>15, <1>16, StageData

\* A table whose next_row_id moved keeps its data.
LEMMA SkipData ==
    ASSUME NEW t, DataTable(t), NEW m
    PROVE  LET u == [t EXCEPT !.next_row_id = m]
           IN DataTable(u) /\ u.columns = t.columns /\ u.rows = t.rows
              /\ encode_table(u) = encode_table(t)
<1>1. PICK u : u = [t EXCEPT !.next_row_id = m]
  OBVIOUS
<1>2. TypedTable(t) /\ ExactTable(t) /\ DOMAIN t = Fields
  BY DEF DataTable, TypedTable
<1>3. /\ DOMAIN u = Fields /\ u.rows = t.rows /\ u.columns = t.columns /\ u.primary = t.primary
      /\ u.primary_key = t.primary_key /\ u.indexes = t.indexes
      /\ u.fulltext_indexes = t.fulltext_indexes
  BY <1>1, <1>2 DEF Fields
<1>4. TypedTable(u)
  <2>1. ColumnNames(u) = ColumnNames(t)
    BY <1>3 DEF ColumnNames
  <2> QED
    BY <1>2, <1>3, <2>1 DEF TypedTable, TypedRows
<1>5. ExactTable(u)
  <2>1. CanRebuild(u)
    BY <1>2, <1>3 DEF ExactTable, CanRebuild, RowKey
  <2> QED
    BY <1>2, <1>3, <2>1, SameMaps DEF ExactTable
<1>6. encode_table(u) = encode_table(t)
  BY <1>3 DEF encode_table
<1> QED
  BY <1>1, <1>3, <1>4, <1>5, <1>6 DEF DataTable

\* INSERT in a transaction keeps the data invariant: it writes the row whose
\* id it reserved and locked, and the reservation changes no data.
LEMMA InsertStagedData ==
    ASSUME PoolInv, PoolDataInv, NEW c \in Conn, InsertStaged(c)
    PROVE  PoolDataInv'
<1>1. PICK s : s = call[c].stmt
  OBVIOUS
<1>2. PICK old : old = transaction[c].catalog
  OBVIOUS
<1>3. PICK mine : mine = old[s.table]
  OBVIOUS
<1>4. PICK reserved : reserved = catalog[s.table].next_row_id
  OBVIOUS
<1>5. PICK key : key = insert_lock_key(mine, s)
  OBVIOUS
<1>6. PICK keys : keys = {key, <<"row", s.table, reserved>>}
  OBVIOUS
<1>7. PICK ready : ready = [mine EXCEPT !.next_row_id = IF @ < reserved THEN reserved ELSE @]
  OBVIOUS
<1>8. PICK put : put = Put(old, s.table, ready)
  OBVIOUS
<1>9. PICK done : done = execute_statement(put, s, Options).catalog
  OBVIOUS
<1>10. PICK bumped : bumped = [catalog[s.table] EXCEPT !.next_row_id = reserved + 1]
  OBVIOUS
<1>11. /\ call[c].at = "execute" /\ s.op = "Insert"
       /\ s.table \in DOMAIN old /\ s.table \in DOMAIN catalog
       /\ catalog' = Put(catalog, s.table, bumped)
       /\ Staged(c, done, keys) /\ file' = file
  BY <1>1, <1>2, <1>3, <1>4, <1>5, <1>6, <1>7, <1>8, <1>9, <1>10
     DEF InsertStaged, reserve_insert_row_id, At
<1>12. IsStatement(s)
  BY <1>1, <1>11, StatementsParsed DEF PoolInv, Shapes
<1>13. /\ Sound(old) /\ DataCatalog(old) /\ Sound(catalog) /\ DataCatalog(catalog)
  BY <1>2 DEF PoolInv, CatalogsSound, PoolDataInv, Catalogs
<1>14. \* The committed catalog, but for the reserved id.
       DataCatalog(catalog') /\ KeepsColumns(catalog, catalog') /\ FileIsCommitted'
  <2>1. DataTable(bumped) /\ bumped.columns = catalog[s.table].columns
        /\ encode_table(bumped) = encode_table(catalog[s.table])
    BY <1>10, <1>11, <1>13, SkipData DEF DataCatalog
  <2>2. /\ DOMAIN catalog' = DOMAIN catalog
        /\ \A n \in DOMAIN catalog : catalog'[n] = IF n = s.table THEN bumped ELSE catalog[n]
    BY <1>11 DEF Put
  <2>3. DataCatalog(catalog') /\ KeepsColumns(catalog, catalog')
    BY <1>13, <2>1, <2>2 DEF DataCatalog, KeepsColumns
  <2>4. encode(catalog') = encode(catalog)
    BY <2>1, <2>2 DEF encode
  <2> QED
    BY <1>11, <2>3, <2>4 DEF PoolDataInv, FileIsCommitted
<1>15. \* The staged table starts from the reserved id.
       /\ SoundTable(ready) /\ ready.next_row_id = reserved
       /\ DataTable(ready) /\ ready.columns = mine.columns /\ ready.rows = mine.rows
  <2>1. /\ mine.next_row_id \in Nat /\ reserved \in Nat /\ mine.next_row_id <= reserved
        /\ SoundTable(mine) /\ DataTable(mine)
    BY <1>2, <1>3, <1>4, <1>11, <1>13
       DEF PoolInv, StagedBelow, Sound, SoundTable, RowIds, DataCatalog
  <2>2. (IF mine.next_row_id < reserved THEN reserved ELSE mine.next_row_id) = reserved
    BY <2>1
  <2>3. ready = [mine EXCEPT !.next_row_id = reserved]
    BY <1>7, <2>2
  <2> QED
    BY <2>1, <2>3, SkipSound, SkipData
<1>16. /\ DOMAIN put = DOMAIN old /\ put[s.table] = ready
       /\ \A n \in DOMAIN old : n # s.table => put[n] = old[n]
  BY <1>8, <1>11 DEF Put
<1>17. Sound(put) /\ DataCatalog(put) /\ KeepsColumns(old, put)
  BY <1>3, <1>13, <1>15, <1>16 DEF Sound, DataCatalog, KeepsColumns
<1>18. DataCatalog(done) /\ KeepsColumns(old, done) /\ DOMAIN done = DOMAIN old
  <2>1. /\ DataCatalog(done)
        /\ \A n \in DOMAIN put : n \in DOMAIN done /\ Definitions(put[n], done[n])
    BY <1>9, <1>12, <1>17, ExecuteData
  <2>2. DOMAIN done = DOMAIN put
    BY <1>9, <1>11, <1>17, ExecuteSteps
  <2>3. KeepsColumns(put, done)
    BY <2>1, DefinitionsColumns
  <2> QED
    BY <1>16, <1>17, <2>1, <2>2, <2>3 DEF KeepsColumns
<1>19. ASSUME NEW n \in DOMAIN done, NEW r
       PROVE  SameRow(done[n], old[n], r) \/ <<"row", n, r>> \in keys
  <2>1. done = Put(put, s.table, OnTable(ready, s, Options).table)
    BY <1>9, <1>11, <1>16 DEF execute_statement
  <2>2. CASE n # s.table
    BY <1>16, <1>18, <2>1, <2>2 DEF Put, SameRow
  <2>3. CASE n = s.table /\ r = reserved
    BY <1>6, <2>3
  <2>4. CASE n = s.table /\ r # reserved
    <3>1. SameRow(OnTable(ready, s, Options).table, ready, r)
      BY <1>11, <1>15, <2>4, InsertRows DEF DataTable
    <3> QED
      BY <1>3, <1>15, <2>1, <2>4, <3>1 DEF Put, SameRow
  <2> QED
    BY <2>2, <2>3, <2>4
<1>20. \A k \in keys : k[1] = "row" => k[2] \in DOMAIN done
  <2>1. key[1] # "row"
    BY <1>5 DEF insert_lock_key
  <2> QED
    BY <1>6, <1>11, <1>18, <2>1
<1> QED
  BY <1>2, <1>11, <1>14, <1>18, <1>19, <1>20, StageData

-----------------------------------------------------------------------------
(* The specification *)

\* The data invariant holds when the pool is opened.
LEMMA PoolDataInit == Init => PoolDataInv
<1> SUFFICES ASSUME Init PROVE PoolDataInv
  OBVIOUS
<1>1. DataCatalog(catalog) /\ file = encode(catalog)
  BY StoredFileOpens, DecodeData DEF Init, Opened
<1>2. \A c \in Conn : transaction[c] = NoTransaction
  BY DEF Init
<1> QED
  BY <1>1, <1>2, NoTransactionData
     DEF PoolDataInv, Catalogs, StagedColumns, LockedTables, WriteSetLocked, FileIsCommitted

\* Every step of the pool keeps the data invariant.
LEMMA PoolDataStep == PoolInv /\ PoolDataInv /\ [Next]_vars => PoolDataInv'
<1> SUFFICES ASSUME PoolInv, PoolDataInv, [Next]_vars PROVE PoolDataInv'
  OBVIOUS
<1>1. CASE UNCHANGED vars
  BY <1>1, QuietData DEF vars
<1>2. CASE Restart
  BY <1>2, RestartData
<1>3. ASSUME NEW c \in Conn, Step(c) PROVE PoolDataInv'
  <2>1. CASE drop(c) \/ rollback(c)
    <3>1. \A d \in Conn : transaction'[d] = transaction[d] \/ transaction'[d] = NoTransaction
      BY <2>1 DEF drop, rollback, PoolInv, Shapes
    <3> QED
      BY <2>1, <3>1, QuietData DEF drop, rollback
  <2>2. CASE \/ get(c) \/ WriteBinlog(c) \/ WriteRedo(c) \/ ControlError(c) \/ DdlCheck(c)
             \/ InsertRefused(c) \/ ReadStaged(c) \/ \E s \in Statements : Start(c, s)
    <3>1. UNCHANGED <<catalog, file, transaction>>
      BY <2>2 DEF get, WriteBinlog, WriteRedo, ControlError, DdlCheck, InsertRefused, ReadStaged,
                  Start
    <3> QED
      BY <3>1, QuietData
  <2> QED
    BY <1>3, <2>1, <2>2, BeginData, CommitData, AutocommitData, LockAndWriteData,
       InsertStagedData DEF Step
<1> QED
  BY <1>1, <1>2, <1>3 DEF Next

\* The two invariants together.
LEMMA PoolDataInvariant == Spec => [](PoolInv /\ PoolDataInv)
<1>1. Init => PoolInv /\ PoolDataInv
  BY PoolInit, PoolDataInit
<1>2. PoolInv /\ PoolDataInv /\ [Next]_vars => (PoolInv /\ PoolDataInv)'
  BY PoolStep, PoolDataStep
<1> QED
  BY <1>1, <1>2, PTL DEF Spec

\* Whatever a transaction wrote in its copy since BEGIN, it holds the row's
\* lock for, for any connections, statements and failures.
THEOREM WritesAreLocked == Spec => []WriteSetLocked
<1>1. PoolDataInv => WriteSetLocked
  BY DEF PoolDataInv
<1> QED
  BY <1>1, PoolDataInvariant, PTL

\* The database file always holds the committed rows and definitions: no
\* failed save, reserved row id or restart makes them differ.
THEOREM FileHoldsCommitted == Spec => []FileIsCommitted
<1>1. PoolDataInv => FileIsCommitted
  BY DEF PoolDataInv
<1> QED
  BY <1>1, PoolDataInvariant, PTL

\* In the committed and in every staged catalog primary keys are unique and
\* the lookup maps are exactly what the rows say.
THEOREM PoolCatalogsConsistent == Spec => []CatalogsConsistent
<1>1. PoolDataInv => CatalogsConsistent
  BY DEF PoolDataInv, Catalogs, DataCatalog, DataTable, ExactTable, CatalogsConsistent, IndexesExact
<1> QED
  BY <1>1, PoolDataInvariant, PTL

-----------------------------------------------------------------------------
(* What a step may do to the committed data *)

\* One COMMIT: locked rows as staged, the others as they were.
LEMMA CommitMerges ==
    ASSUME PoolInv, PoolDataInv, NEW c \in Conn, commit(c), catalog' # catalog,
           NEW n \in DOMAIN catalog, NEW r \in 1..(catalog[n].next_row_id - 1)
    PROVE  IF <<"row", n, r>> \in transaction[c].locked_rows
           THEN SameRow(catalog'[n], transaction[c].catalog[n], r)
           ELSE SameRow(catalog'[n], catalog[n], r)
<1>1. Merged(c).ok /\ catalog' = Merged(c).catalog
  BY DEF commit
<1>2. PICK ids : ids = LockedIds(transaction[c].locked_rows, n)
  OBVIOUS
<1>3. r \in ids <=> <<"row", n, r>> \in transaction[c].locked_rows
  <2>1. \A k \in transaction[c].locked_rows : k = <<k[1], k[2], k[3]>>
    BY DEF PoolInv, LockedKeys
  <2> QED
    BY <1>2, <2>1 DEF LockedIds
<1>4. catalog[n].next_row_id \in Nat
  BY DEF PoolInv, CatalogsSound, Sound, SoundTable, RowIds
<1>5. CASE n \in DOMAIN transaction[c].catalog
  <2>1. catalog'[n].rows = MergedRows(catalog[n], transaction[c].catalog[n], ids)
    BY <1>1, <1>2, <1>5, MergedData
  <2>2. PICK m \in Nat : catalog[n].next_row_id = m
    BY <1>4
  <2>3. /\ r \in ids => SameEntry(catalog'[n].rows, transaction[c].catalog[n].rows, r)
        /\ r \notin ids => SameEntry(catalog'[n].rows, catalog[n].rows, r)
    BY <2>1, <2>2, MergedRow
  <2> QED
    BY <1>3, <2>3 DEF SameRow, SameEntry
<1>6. CASE n \notin DOMAIN transaction[c].catalog
  <2>1. catalog'[n] = catalog[n]
    BY <1>1, <1>6, MergedData
  <2>2. <<"row", n, r>> \notin transaction[c].locked_rows
    BY <1>6 DEF PoolDataInv, LockedTables
  <2> QED
    BY <2>1, <2>2 DEF SameRow
<1> QED
  BY <1>5, <1>6

\* A COMMIT that changes the committed data changes exactly the rows that its
\* transaction locked, to what it staged (merge_catalogs).
THEOREM CommitsMergeLocked == Spec => CommitMergesLocked
<1> DEFINE A == \A c \in Conn :
          (Active(c) /\ transaction'[c].id = 0 /\ encode(catalog') # encode(catalog)) =>
              \A n \in DOMAIN catalog :
                  \A r \in 1..(catalog[n].next_row_id - 1) :
                      IF <<"row", n, r>> \in transaction[c].locked_rows
                      THEN SameRow(catalog'[n], transaction[c].catalog[n], r)
                      ELSE SameRow(catalog'[n], catalog[n], r)
<1>1. PoolInv /\ PoolDataInv /\ [Next]_vars => [A]_vars
  <2> SUFFICES ASSUME PoolInv, PoolDataInv, Next PROVE A
    OBVIOUS
  <2> SUFFICES ASSUME NEW c \in Conn, Active(c), transaction'[c].id = 0,
                      encode(catalog') # encode(catalog)
               PROVE  commit(c)
    BY CommitMerges
  <2>1. ~Restart
    BY RestartFile
  <2>2. PICK d \in Conn : Step(d)
    BY <2>1 DEF Next
  <2>3. catalog' # catalog
    OBVIOUS
  <2>4. commit(d) \/ Autocommit(d) \/ InsertStaged(d)
    BY <2>2, <2>3 DEF Step, get, drop, Start, WriteBinlog, WriteRedo, ControlError, begin, rollback,
       DdlCheck, LockAndWrite, InsertRefused, ReadStaged
  <2>5. ~Autocommit(d)
    BY DEF Autocommit, Active
  <2>6. ~InsertStaged(d)
    <3> SUFFICES ASSUME InsertStaged(d) PROVE FALSE
      OBVIOUS
    <3>1. PICK staged, keys : Staged(d, staged, keys)
      BY DEF InsertStaged
    <3>2. transaction'[c].id = transaction[c].id
      BY <3>1 DEF Staged, PoolInv, Shapes
    <3> QED
      BY <3>2 DEF Active
  <2>7. CASE commit(d) /\ d # c
    BY <2>7 DEF commit, PoolInv, Shapes, Active
  <2> QED
    BY <2>4, <2>5, <2>6, <2>7
<1> QED
  BY <1>1, PoolDataInvariant, PTL DEF Spec, CommitMergesLocked

\* No step takes a table or an index away: not a COMMIT of a transaction that
\* began before CREATE INDEX, nor a restart.
THEOREM DefinitionsAreKept == Spec => DefinitionsKept
<1> DEFINE A == \A n \in DOMAIN catalog :
          /\ n \in DOMAIN catalog'
          /\ DOMAIN catalog[n].indexes \subseteq DOMAIN catalog'[n].indexes
          /\ DOMAIN catalog[n].fulltext_indexes \subseteq DOMAIN catalog'[n].fulltext_indexes
<1>1. PoolInv /\ PoolDataInv /\ [Next]_vars => [A]_vars
  <2> SUFFICES ASSUME PoolInv, PoolDataInv, Next, catalog' # catalog
               PROVE  \A n \in DOMAIN catalog :
                          n \in DOMAIN catalog' /\ Definitions(catalog[n], catalog'[n])
    BY DEF Definitions
  <2>1. CASE Restart
    BY <2>1, RestartFile, EncodingDefinitions
  <2>2. ASSUME NEW c \in Conn, Step(c)
        PROVE  commit(c) \/ Autocommit(c) \/ InsertStaged(c)
    BY <2>2 DEF Step, get, drop, Start, WriteBinlog, WriteRedo, ControlError, begin, rollback,
       DdlCheck, LockAndWrite, InsertRefused, ReadStaged
  <2>3. ASSUME NEW c \in Conn, commit(c)
        PROVE  \A n \in DOMAIN catalog :
                   n \in DOMAIN catalog' /\ Definitions(catalog[n], catalog'[n])
    <3>1. Merged(c).ok /\ catalog' = Merged(c).catalog
      BY <2>3 DEF commit
    <3> QED
      BY <3>1, MergedData
  <2>4. ASSUME NEW c \in Conn, Autocommit(c)
        PROVE  \A n \in DOMAIN catalog :
                   n \in DOMAIN catalog' /\ Definitions(catalog[n], catalog'[n])
    <3>1. catalog' = execute_statement(catalog, call[c].stmt, Options).catalog
      BY <2>4 DEF Autocommit
    <3> QED
      BY <2>4, <3>1, AutocommitDone
  <2>5. ASSUME NEW c \in Conn, InsertStaged(c)
        PROVE  \A n \in DOMAIN catalog :
                   n \in DOMAIN catalog' /\ Definitions(catalog[n], catalog'[n])
    <3> DEFINE n == call[c].stmt.table
               t == [catalog[n] EXCEPT !.next_row_id = catalog[n].next_row_id + 1]
    <3>1. n \in DOMAIN catalog /\ catalog' = Put(catalog, n, t)
      BY <2>5 DEF InsertStaged, reserve_insert_row_id
    <3>2. Definitions(catalog[n], t)
      BY <3>1 DEF PoolInv, CatalogsSound, Sound, SoundTable, Fields, Definitions
    <3>3. \A m : Definitions(catalog[m], catalog[m])
      BY DEF Definitions
    <3> HIDE DEF t, n
    <3> QED
      BY <3>1, <3>2, <3>3 DEF Put
  <2> QED
    BY <2>1, <2>2, <2>3, <2>4, <2>5 DEF Next
<1> QED
  BY <1>1, PoolDataInvariant, PTL DEF Spec, DefinitionsKept

-----------------------------------------------------------------------------
(* Row ids: one owner each, and what enters the committed rows *)

\* The rows that a transaction has added to its copy of a table.
Added(c, n) == DOMAIN transaction[c].catalog[n].rows \ DOMAIN transaction[c].base[n].rows

\* A row id that only this transaction uses, handed out since its BEGIN.
Owned(c, n, r) ==
    /\ transaction[c].base[n].next_row_id <= r /\ r < catalog[n].next_row_id
    /\ r \notin DOMAIN catalog[n].rows
    /\ \A d \in Conn \ {c} : n \in DOMAIN transaction[d].catalog =>
           r \notin DOMAIN transaction[d].catalog[n].rows

\* The copy taken at BEGIN never runs ahead of the committed catalog.
BaseBelow ==
    \A c \in Conn : \A n \in DOMAIN transaction[c].catalog :
        /\ transaction[c].base[n].next_row_id \in Nat
        /\ transaction[c].base[n].next_row_id <= catalog[n].next_row_id

ReservedInv ==
    /\ BaseBelow
    /\ \A c \in Conn : \A n \in DOMAIN transaction[c].catalog : \A r \in Added(c, n) : Owned(c, n, r)

\* Row ids lie below the next one of their table, staged ones below the
\* committed table's.
LEMMA IdsBelow ==
    ASSUME PoolInv
    PROVE  /\ \A n \in DOMAIN catalog :
                 /\ catalog[n].next_row_id \in Nat
                 /\ \A r \in DOMAIN catalog[n].rows : r \in Nat /\ r < catalog[n].next_row_id
           /\ \A c \in Conn : \A n \in DOMAIN transaction[c].catalog :
                 /\ n \in DOMAIN catalog
                 /\ \A r \in DOMAIN transaction[c].catalog[n].rows :
                       r \in Nat /\ r < catalog[n].next_row_id
<1>1. ASSUME NEW cat, Sound(cat), NEW n \in DOMAIN cat
      PROVE  /\ cat[n].next_row_id \in Nat
             /\ \A r \in DOMAIN cat[n].rows : r \in Nat /\ r < cat[n].next_row_id
  BY <1>1 DEF Sound, SoundTable, RowIds
<1>2. Sound(catalog) /\ \A c \in Conn : Sound(transaction[c].catalog)
  BY DEF PoolInv, CatalogsSound
<1>3. ASSUME NEW c \in Conn, NEW n \in DOMAIN transaction[c].catalog
      PROVE  /\ n \in DOMAIN catalog
             /\ \A r \in DOMAIN transaction[c].catalog[n].rows :
                   r \in Nat /\ r < catalog[n].next_row_id
  <2>1. n \in DOMAIN catalog /\ transaction[c].catalog[n].next_row_id <= catalog[n].next_row_id
    BY <1>3 DEF PoolInv, StagedBelow
  <2>2. catalog[n].next_row_id \in Nat
    BY <1>1, <1>2, <2>1
  <2>3. /\ transaction[c].catalog[n].next_row_id \in Nat
        /\ \A r \in DOMAIN transaction[c].catalog[n].rows :
              r \in Nat /\ r < transaction[c].catalog[n].next_row_id
    BY <1>1, <1>2, <1>3
  <2> QED
    BY <2>1, <2>2, <2>3
<1> QED
  BY <1>1, <1>2, <1>3

\* Each transaction stays as it is or ends, and no row that an open one added
\* enters the committed catalog.
LEMMA UnstagedReserved ==
    ASSUME PoolInv, ReservedInv, Sound(catalog'), Grows(catalog, catalog'),
           \A c \in Conn : transaction'[c] = transaction[c] \/ transaction'[c] = NoTransaction,
           \A c \in Conn : transaction'[c] = transaction[c] =>
               \A n \in DOMAIN transaction[c].catalog : \A r \in Added(c, n) :
                   r \notin DOMAIN catalog'[n].rows
    PROVE  ReservedInv'
<1>1. ASSUME NEW c \in Conn, NEW n \in DOMAIN transaction'[c].catalog
      PROVE  /\ transaction'[c] = transaction[c] /\ n \in DOMAIN transaction[c].catalog
             /\ catalog[n].next_row_id \in Nat /\ catalog'[n].next_row_id \in Nat
             /\ catalog[n].next_row_id <= catalog'[n].next_row_id
  <2>1. transaction'[c] = transaction[c] /\ n \in DOMAIN transaction[c].catalog
    BY <1>1, NoTransactionData
  <2>2. n \in DOMAIN catalog /\ catalog[n].next_row_id \in Nat
    BY <2>1, IdsBelow
  <2>3. n \in DOMAIN catalog' /\ catalog[n].next_row_id <= catalog'[n].next_row_id
    BY <2>2 DEF Grows
  <2> QED
    BY <2>1, <2>2, <2>3 DEF Sound, SoundTable, RowIds
<1>2. BaseBelow'
  <2> SUFFICES ASSUME NEW c \in Conn, NEW n \in DOMAIN transaction'[c].catalog
               PROVE  /\ transaction'[c].base[n].next_row_id \in Nat
                      /\ transaction'[c].base[n].next_row_id <= catalog'[n].next_row_id
    BY DEF BaseBelow
  <2>1. PICK b, m, w : /\ b = transaction[c].base[n].next_row_id
                       /\ m = catalog[n].next_row_id /\ w = catalog'[n].next_row_id
    OBVIOUS
  <2>2. b \in Nat /\ b <= m
    BY <1>1, <2>1 DEF ReservedInv, BaseBelow
  <2>3. m \in Nat /\ w \in Nat /\ m <= w
    BY <1>1, <2>1
  <2> QED
    BY <1>1, <2>1, <2>2, <2>3
<1>3. ASSUME NEW c \in Conn, NEW n \in DOMAIN transaction'[c].catalog, NEW r \in Added(c, n)'
      PROVE  Owned(c, n, r)'
  <2>1. transaction'[c] = transaction[c] /\ n \in DOMAIN transaction[c].catalog
    BY <1>1, <1>3
  <2>2. r \in Added(c, n)
    BY <1>3, <2>1 DEF Added
  <2>3. Owned(c, n, r)
    BY <2>1, <2>2 DEF ReservedInv
  <2>4. r \in Nat
    BY <2>1, <2>2, IdsBelow DEF Added
  <2>5. transaction'[c].base[n].next_row_id <= r /\ r < catalog'[n].next_row_id
    BY <1>1, <1>3, <2>1, <2>3, <2>4 DEF Owned
  <2>6. r \notin DOMAIN catalog'[n].rows
    BY <2>1, <2>2
  <2>7. ASSUME NEW d \in Conn \ {c}, n \in DOMAIN transaction'[d].catalog
        PROVE  r \notin DOMAIN transaction'[d].catalog[n].rows
    BY <1>1, <2>3, <2>7 DEF Owned
  <2> QED
    BY <2>5, <2>6, <2>7 DEF Owned
<1> QED
  BY <1>2, <1>3 DEF ReservedInv

\* BEGIN: a copy of the committed catalog adds no row, and has none of those
\* that others have added.
LEMMA BeginReserved ==
    ASSUME PoolInv, ReservedInv, NEW c \in Conn, begin(c)
    PROVE  ReservedInv'
<1>1. /\ transaction'[c].catalog = catalog /\ transaction'[c].base = catalog
      /\ \A d \in Conn : d # c => transaction'[d] = transaction[d]
      /\ catalog' = catalog
  BY DEF begin, PoolInv, Shapes
<1>2. \A n \in DOMAIN catalog : catalog[n].next_row_id \in Nat
                                /\ catalog[n].next_row_id <= catalog[n].next_row_id
  <2>1. \A n \in DOMAIN catalog : catalog[n].next_row_id \in Nat
    BY IdsBelow
  <2> QED
    BY <2>1
<1>3. BaseBelow'
  BY <1>1, <1>2 DEF ReservedInv, BaseBelow
<1>4. ASSUME NEW d \in Conn, NEW n \in DOMAIN transaction'[d].catalog, NEW r \in Added(d, n)'
      PROVE  Owned(d, n, r)'
  <2>1. d # c
    BY <1>1, <1>4 DEF Added
  <2>2. n \in DOMAIN transaction[d].catalog /\ r \in Added(d, n)
    BY <1>1, <1>4, <2>1 DEF Added
  <2>3. Owned(d, n, r)
    BY <2>2 DEF ReservedInv
  <2> QED
    BY <1>1, <2>1, <2>3 DEF Owned
<1> QED
  BY <1>3, <1>4 DEF ReservedInv

\* A statement of a transaction: the rows it adds, if any, have the committed
\* table's next row id, which the step takes.
LEMMA StageReserved ==
    ASSUME PoolInv, ReservedInv, NEW c \in Conn, NEW staged, NEW keys, Staged(c, staged, keys),
           DOMAIN staged = DOMAIN transaction[c].catalog,
           Sound(catalog'), Grows(catalog, catalog'),
           \A n \in DOMAIN catalog : catalog'[n].rows = catalog[n].rows,
           \A n \in DOMAIN staged : \A r \in DOMAIN staged[n].rows :
               \/ r \in DOMAIN transaction[c].catalog[n].rows
               \/ r = catalog[n].next_row_id /\ r < catalog'[n].next_row_id
    PROVE  ReservedInv'
<1>1. /\ transaction'[c].catalog = staged /\ transaction'[c].base = transaction[c].base
      /\ \A d \in Conn : d # c => transaction'[d] = transaction[d]
  BY DEF Staged, PoolInv, Shapes
<1>2. ASSUME NEW d \in Conn, NEW n \in DOMAIN transaction'[d].catalog
      PROVE  /\ n \in DOMAIN transaction[d].catalog /\ n \in DOMAIN catalog
             /\ transaction'[d].base = transaction[d].base
             /\ transaction[d].base[n].next_row_id \in Nat
             /\ transaction[d].base[n].next_row_id <= catalog[n].next_row_id
             /\ catalog[n].next_row_id \in Nat /\ catalog'[n].next_row_id \in Nat
             /\ catalog[n].next_row_id <= catalog'[n].next_row_id
  <2>1. n \in DOMAIN transaction[d].catalog /\ transaction'[d].base = transaction[d].base
    BY <1>1, <1>2
  <2>2. n \in DOMAIN catalog /\ catalog[n].next_row_id \in Nat
    BY <2>1, IdsBelow
  <2>3. n \in DOMAIN catalog' /\ catalog[n].next_row_id <= catalog'[n].next_row_id
    BY <2>2 DEF Grows
  <2>4. catalog'[n].next_row_id \in Nat
    BY <2>3 DEF Sound, SoundTable, RowIds
  <2>5. /\ transaction[d].base[n].next_row_id \in Nat
        /\ transaction[d].base[n].next_row_id <= catalog[n].next_row_id
    BY <2>1 DEF ReservedInv, BaseBelow
  <2> QED
    BY <2>1, <2>2, <2>3, <2>4, <2>5
<1>3. BaseBelow'
  <2> SUFFICES ASSUME NEW d \in Conn, NEW n \in DOMAIN transaction'[d].catalog
               PROVE  /\ transaction'[d].base[n].next_row_id \in Nat
                      /\ transaction'[d].base[n].next_row_id <= catalog'[n].next_row_id
    BY DEF BaseBelow
  <2>1. PICK b, m, w : /\ b = transaction[d].base[n].next_row_id
                       /\ m = catalog[n].next_row_id /\ w = catalog'[n].next_row_id
    OBVIOUS
  <2>2. b \in Nat /\ m \in Nat /\ w \in Nat /\ b <= m /\ m <= w
    BY <1>2, <2>1
  <2> QED
    BY <1>2, <2>1, <2>2
<1>4. ASSUME NEW d \in Conn, NEW n \in DOMAIN transaction'[d].catalog,
             NEW r \in DOMAIN transaction'[d].catalog[n].rows
      PROVE  \/ r \in DOMAIN transaction[d].catalog[n].rows
             \/ d = c /\ r = catalog[n].next_row_id /\ r < catalog'[n].next_row_id
  BY <1>1, <1>4
<1>5. ASSUME NEW d \in Conn, NEW n \in DOMAIN transaction'[d].catalog, NEW r \in Added(d, n),
             r \in Added(d, n)'
      PROVE  Owned(d, n, r)'
  <2>1. n \in DOMAIN transaction[d].catalog /\ n \in DOMAIN catalog
    BY <1>2, <1>5
  <2>2. Owned(d, n, r)
    BY <1>5, <2>1 DEF ReservedInv
  <2>3. r \in Nat /\ r < catalog[n].next_row_id
    BY <1>5, <2>1, IdsBelow DEF Added
  <2>4. transaction'[d].base[n].next_row_id <= r /\ r < catalog'[n].next_row_id
    BY <1>2, <1>5, <2>2, <2>3 DEF Owned
  <2>5. r \notin DOMAIN catalog'[n].rows
    BY <2>1, <2>2 DEF Owned
  <2>6. ASSUME NEW e \in Conn \ {d}, n \in DOMAIN transaction'[e].catalog,
               r \in DOMAIN transaction'[e].catalog[n].rows
        PROVE  FALSE
    <3>1. n \in DOMAIN transaction[e].catalog
      BY <1>2, <2>6
    <3>2. r \notin DOMAIN transaction[e].catalog[n].rows
      BY <2>2, <3>1 DEF Owned
    <3>3. r # catalog[n].next_row_id
      BY <1>2, <1>5, <2>3
    <3> QED
      BY <1>4, <2>6, <3>2, <3>3
  <2> QED
    BY <2>4, <2>5, <2>6 DEF Owned
<1>6. ASSUME NEW n \in DOMAIN transaction'[c].catalog, NEW r, r \in Added(c, n)',
             r = catalog[n].next_row_id, r < catalog'[n].next_row_id
      PROVE  Owned(c, n, r)'
  <2>1. n \in DOMAIN catalog /\ r \in Nat /\ transaction'[c].base[n].next_row_id <= r
    BY <1>2, <1>6
  <2>2. \A q \in DOMAIN catalog[n].rows : q \in Nat /\ q < r
    BY <1>6, <2>1, IdsBelow
  <2>3. r \notin DOMAIN catalog'[n].rows
    BY <2>1, <2>2
  <2>4. ASSUME NEW e \in Conn \ {c}, n \in DOMAIN transaction'[e].catalog
        PROVE  r \notin DOMAIN transaction'[e].catalog[n].rows
    <3>1. transaction'[e] = transaction[e] /\ n \in DOMAIN transaction[e].catalog
      BY <1>1, <2>4
    <3>2. \A q \in DOMAIN transaction[e].catalog[n].rows : q \in Nat /\ q < r
      BY <1>6, <3>1, IdsBelow
    <3> QED
      BY <2>1, <3>1, <3>2
  <2> QED
    BY <1>6, <2>1, <2>3, <2>4 DEF Owned
<1>7. ASSUME NEW d \in Conn, NEW n \in DOMAIN transaction'[d].catalog, NEW r, r \in Added(d, n)'
      PROVE  Owned(d, n, r)'
  <2>1. r \in DOMAIN transaction'[d].catalog[n].rows /\ r \notin DOMAIN transaction[d].base[n].rows
    BY <1>2, <1>7 DEF Added
  <2>2. CASE r \in DOMAIN transaction[d].catalog[n].rows
    <3>1. r \in Added(d, n)
      BY <2>1, <2>2 DEF Added
    <3> QED
      BY <1>5, <1>7, <3>1
  <2>3. CASE d = c /\ r = catalog[n].next_row_id /\ r < catalog'[n].next_row_id
    BY <1>6, <1>7, <2>3
  <2> QED
    BY <1>4, <1>7, <2>1, <2>2, <2>3
<1> QED
  BY <1>3, <1>7 DEF ReservedInv

\* UPDATE and DELETE add no row.
LEMMA LockAndWriteReserved ==
    ASSUME PoolInv, ReservedInv, NEW c \in Conn, LockAndWrite(c)
    PROVE  ReservedInv'
<1>1. PICK old, done : /\ old = transaction[c].catalog
                       /\ done = execute_statement(old, call[c].stmt, Options).catalog
  OBVIOUS
<1>2. /\ call[c].stmt.op \in {"Update", "Delete"} /\ catalog' = catalog
      /\ \E staged \in {old, done} : \E keys : Staged(c, staged, keys)
  BY <1>1 DEF LockAndWrite
<1>3. PICK staged, keys : staged \in {old, done} /\ Staged(c, staged, keys)
  BY <1>2
<1>4. Sound(catalog) /\ Sound(old)
  BY <1>1 DEF PoolInv, CatalogsSound
<1>5. /\ DOMAIN done = DOMAIN old
      /\ \A n \in DOMAIN old : Steps(old[n], done[n], call[c].stmt.op = "Insert")
  BY <1>1, <1>2, <1>4, ExecuteSteps
<1>6. \A n \in DOMAIN old : DOMAIN done[n].rows \subseteq DOMAIN old[n].rows
  BY <1>2, <1>5 DEF Steps
<1>7. /\ DOMAIN staged = DOMAIN transaction[c].catalog
      /\ \A n \in DOMAIN staged : \A r \in DOMAIN staged[n].rows :
            r \in DOMAIN transaction[c].catalog[n].rows
  BY <1>1, <1>3, <1>5, <1>6
<1>8. Sound(catalog') /\ Grows(catalog, catalog')
  BY <1>2, <1>4, GrowsSame
<1> QED
  BY <1>2, <1>3, <1>7, <1>8, StageReserved

\* INSERT adds at most the row whose id it reserves.
LEMMA InsertStagedReserved ==
    ASSUME PoolInv, ReservedInv, NEW c \in Conn, InsertStaged(c)
    PROVE  ReservedInv'
<1>1. PICK s, old : s = call[c].stmt /\ old = transaction[c].catalog
  OBVIOUS
<1>2. PICK mine, reserved : mine = old[s.table] /\ reserved = catalog[s.table].next_row_id
  OBVIOUS
<1>3. PICK ready, bumped :
          /\ ready = [mine EXCEPT !.next_row_id = IF @ < reserved THEN reserved ELSE @]
          /\ bumped = [catalog[s.table] EXCEPT !.next_row_id = reserved + 1]
  OBVIOUS
<1>4. PICK put, done : /\ put = Put(old, s.table, ready)
                       /\ done = execute_statement(put, s, Options).catalog
  OBVIOUS
<1>5. /\ s.op = "Insert" /\ s.table \in DOMAIN old /\ s.table \in DOMAIN catalog
      /\ catalog' = Put(catalog, s.table, bumped)
      /\ \E keys : Staged(c, done, keys)
  BY <1>1, <1>2, <1>3, <1>4 DEF InsertStaged, reserve_insert_row_id, At
<1>6. PICK keys : Staged(c, done, keys)
  BY <1>5
<1>7. /\ Sound(old) /\ Sound(catalog) /\ SoundTable(mine) /\ SoundTable(catalog[s.table])
      /\ mine.next_row_id <= reserved
  BY <1>1, <1>2, <1>5 DEF PoolInv, CatalogsSound, Sound, StagedBelow
<1>8. reserved \in Nat /\ mine.next_row_id \in Nat
  BY <1>2, <1>7 DEF SoundTable, RowIds
<1>9. SoundTable(bumped) /\ bumped.next_row_id = reserved + 1 /\ bumped.rows = catalog[s.table].rows
  <2>1. reserved + 1 \in Nat /\ reserved <= reserved + 1
    BY <1>8
  <2> QED
    BY <1>2, <1>3, <1>7, <2>1, SkipSound
<1>10. SoundTable(ready) /\ ready.next_row_id = reserved /\ ready.rows = mine.rows
  <2>1. (IF mine.next_row_id < reserved THEN reserved ELSE mine.next_row_id) = reserved
    BY <1>7, <1>8
  <2>2. ready = [mine EXCEPT !.next_row_id = reserved]
    BY <1>3, <2>1
  <2> QED
    BY <1>7, <1>8, <2>2, SkipSound
<1>11. /\ DOMAIN catalog' = DOMAIN catalog /\ catalog'[s.table] = bumped
       /\ \A n \in DOMAIN catalog : n # s.table => catalog'[n] = catalog[n]
  BY <1>5 DEF Put
<1>12. /\ Sound(catalog') /\ \A n \in DOMAIN catalog : catalog'[n].rows = catalog[n].rows
  BY <1>7, <1>9, <1>11 DEF Sound
<1>13. Grows(catalog, catalog')
  <2>1. \A n \in DOMAIN catalog : catalog[n].next_row_id \in Nat
    BY IdsBelow
  <2> QED
    BY <1>2, <1>9, <1>11, <2>1 DEF Grows
<1>14. /\ DOMAIN put = DOMAIN old /\ put[s.table] = ready
       /\ \A n \in DOMAIN old : n # s.table => put[n] = old[n]
  BY <1>4, <1>5 DEF Put
<1>15. Sound(put)
  BY <1>7, <1>10, <1>14 DEF Sound
<1>16. /\ DOMAIN done = DOMAIN put
       /\ \A n \in DOMAIN put : Steps(put[n], done[n], s.op = "Insert")
       /\ \A n \in DOMAIN put : n # s.table => done[n] = put[n]
  BY <1>4, <1>5, <1>15, ExecuteSteps
<1>17. DOMAIN done[s.table].rows \subseteq DOMAIN mine.rows \cup {reserved}
  <2>1. Steps(ready, done[s.table], s.op = "Insert")
    BY <1>5, <1>14, <1>16
  <2> QED
    BY <1>10, <2>1 DEF Steps
<1>18. reserved < catalog'[s.table].next_row_id
  BY <1>8, <1>9, <1>11
<1>19. \A n \in DOMAIN done : \A r \in DOMAIN done[n].rows :
           \/ r \in DOMAIN transaction[c].catalog[n].rows
           \/ r = catalog[n].next_row_id /\ r < catalog'[n].next_row_id
  BY <1>1, <1>2, <1>14, <1>16, <1>17, <1>18
<1>20. DOMAIN done = DOMAIN transaction[c].catalog
  BY <1>1, <1>14, <1>16
<1> QED
  BY <1>6, <1>12, <1>13, <1>19, <1>20, StageReserved

\* A row that enters by COMMIT is locked by its transaction, so no other one
\* has added it.
LEMMA CommitReserved ==
    ASSUME PoolInv, PoolDataInv, ReservedInv, NEW c \in Conn, commit(c)
    PROVE  ReservedInv'
<1>1. /\ transaction[c].id # 0 /\ transaction'[c] = NoTransaction
      /\ \A d \in Conn : d # c => transaction'[d] = transaction[d]
  BY DEF commit, Active, PoolInv, Shapes
<1>2. catalog' = catalog \/ catalog' = Merged(c).catalog
  BY DEF commit
<1>3. /\ Sound(Merged(c).catalog) /\ Grows(catalog, Merged(c).catalog)
      /\ \A n \in DOMAIN catalog :
            \A r \in DOMAIN Merged(c).catalog[n].rows \ DOMAIN catalog[n].rows :
                r \in LockedIds(transaction[c].locked_rows, n) \/ r >= catalog[n].next_row_id
  BY MergeSteps DEF Merged, PoolInv, CatalogsSound
<1>4. Sound(catalog) /\ Grows(catalog, catalog)
  BY GrowsSame DEF PoolInv, CatalogsSound
<1>5. ASSUME NEW d \in Conn, transaction'[d] = transaction[d],
             NEW n \in DOMAIN transaction[d].catalog, NEW r \in Added(d, n)
      PROVE  r \notin DOMAIN catalog'[n].rows
  <2>1. d # c
    BY <1>1, <1>5, NoTransactionShape
  <2>2. Owned(d, n, r)
    BY <1>5 DEF ReservedInv
  <2>3. n \in DOMAIN catalog /\ r \in Nat /\ catalog[n].next_row_id \in Nat
    BY <1>5, IdsBelow DEF Added
  <2>4. r \notin DOMAIN catalog[n].rows /\ ~(r >= catalog[n].next_row_id)
    BY <2>2, <2>3 DEF Owned
  <2>5. <<"row", n, r>> \in transaction[d].locked_rows
    <3>1. r \in DOMAIN transaction[d].catalog[n].rows
          /\ ~SameRow(transaction[d].catalog[n], transaction[d].base[n], r)
      BY <1>5 DEF Added, SameRow
    <3> QED
      BY <1>5, <3>1 DEF PoolDataInv, WriteSetLocked
  <2>6. <<"row", n, r>> \notin transaction[c].locked_rows
    BY <1>1, <2>1, <2>5 DEF PoolInv, LocksHeld, TransactionIds
  <2>7. r \notin LockedIds(transaction[c].locked_rows, n)
    BY <2>6 DEF LockedIds, PoolInv, LockedKeys
  <2> QED
    BY <1>2, <1>3, <2>3, <2>4, <2>7
<1>6. Sound(catalog') /\ Grows(catalog, catalog')
  BY <1>2, <1>3, <1>4
<1>7. \A d \in Conn : transaction'[d] = transaction[d] \/ transaction'[d] = NoTransaction
  BY <1>1
<1> QED
  BY <1>5, <1>6, <1>7, UnstagedReserved

\* A statement outside a transaction adds at most a row with the next id, which
\* no transaction has added.
LEMMA AutocommitReserved ==
    ASSUME PoolInv, ReservedInv, NEW c \in Conn, Autocommit(c)
    PROVE  ReservedInv'
<1>1. PICK s, new : s = call[c].stmt /\ new = execute_statement(catalog, s, Options).catalog
  OBVIOUS
<1>2. (catalog' = catalog \/ catalog' = new) /\ transaction' = transaction
  BY <1>1 DEF Autocommit
<1>3. Sound(catalog) /\ Grows(catalog, catalog)
  BY GrowsSame DEF PoolInv, CatalogsSound
<1>4. /\ Sound(new)
      /\ \A n \in DOMAIN catalog : n \in DOMAIN new /\ Steps(catalog[n], new[n], s.op = "Insert")
  BY <1>1, <1>3, ExecuteSteps
<1>5. \A n \in DOMAIN catalog : catalog[n].next_row_id \in Nat
  BY IdsBelow
<1>6. Grows(catalog, new)
  BY <1>4, <1>5 DEF Grows, Steps
<1>7. \A n \in DOMAIN catalog :
          DOMAIN new[n].rows \subseteq DOMAIN catalog[n].rows \cup {catalog[n].next_row_id}
  BY <1>4 DEF Steps
<1>8. ASSUME NEW d \in Conn, NEW n \in DOMAIN transaction[d].catalog, NEW r \in Added(d, n)
      PROVE  r \notin DOMAIN catalog'[n].rows
  <2>1. n \in DOMAIN catalog /\ r \in Nat /\ r < catalog[n].next_row_id
    BY <1>8, IdsBelow DEF Added
  <2>2. r \notin DOMAIN catalog[n].rows
    BY <1>8 DEF ReservedInv, Owned
  <2>3. r # catalog[n].next_row_id
    BY <1>5, <2>1
  <2> QED
    BY <1>2, <1>7, <2>1, <2>2, <2>3
<1>9. Sound(catalog') /\ Grows(catalog, catalog')
  BY <1>2, <1>3, <1>4, <1>6
<1> QED
  BY <1>2, <1>8, <1>9, UnstagedReserved

\* Every step of the pool keeps the row ids apart.
LEMMA ReservedStep == PoolInv /\ PoolDataInv /\ ReservedInv /\ [Next]_vars => ReservedInv'
<1> SUFFICES ASSUME PoolInv, PoolDataInv, ReservedInv, [Next]_vars PROVE ReservedInv'
  OBVIOUS
<1>1. ASSUME catalog' = catalog,
             \A c \in Conn : transaction'[c] = transaction[c] \/ transaction'[c] = NoTransaction
      PROVE  ReservedInv'
  <2>1. Sound(catalog') /\ Grows(catalog, catalog')
    BY <1>1, GrowsSame DEF PoolInv, CatalogsSound
  <2>2. \A c \in Conn : \A n \in DOMAIN transaction[c].catalog : \A r \in Added(c, n) :
            r \notin DOMAIN catalog'[n].rows
    BY <1>1 DEF ReservedInv, Owned
  <2> QED
    BY <1>1, <2>1, <2>2, UnstagedReserved
<1>2. CASE UNCHANGED vars
  BY <1>1, <1>2 DEF vars
<1>3. CASE Restart
  <2>1. \A c \in Conn : transaction'[c] = NoTransaction
    BY <1>3 DEF Restart
  <2> QED
    BY <2>1, NoTransactionData DEF ReservedInv, BaseBelow
<1>4. ASSUME NEW c \in Conn, Step(c) PROVE ReservedInv'
  <2>1. CASE drop(c) \/ rollback(c)
    <3>1. \A d \in Conn : transaction'[d] = transaction[d] \/ transaction'[d] = NoTransaction
      BY <2>1 DEF drop, rollback, PoolInv, Shapes
    <3> QED
      BY <1>1, <2>1, <3>1 DEF drop, rollback
  <2>2. CASE \/ get(c) \/ WriteBinlog(c) \/ WriteRedo(c) \/ ControlError(c) \/ DdlCheck(c)
             \/ InsertRefused(c) \/ ReadStaged(c) \/ \E s \in Statements : Start(c, s)
    <3>1. UNCHANGED <<catalog, transaction>>
      BY <2>2 DEF get, WriteBinlog, WriteRedo, ControlError, DdlCheck, InsertRefused, ReadStaged,
                  Start
    <3> QED
      BY <1>1, <3>1
  <2> QED
    BY <1>4, <2>1, <2>2, BeginReserved, CommitReserved, AutocommitReserved, LockAndWriteReserved,
       InsertStagedReserved DEF Step
<1> QED
  BY <1>2, <1>3, <1>4 DEF Next

\* The three invariants together.
LEMMA ReservedInvariant == Spec => [](PoolInv /\ PoolDataInv /\ ReservedInv)
<1>1. Init => ReservedInv
  <2>1. Init => \A c \in Conn : transaction[c] = NoTransaction
    BY DEF Init
  <2> QED
    BY <2>1, NoTransactionData DEF ReservedInv, BaseBelow
<1> QED
  BY <1>1, ReservedStep, PoolDataInvariant, PTL DEF Spec

\* A reserved row id has one owner, for any connections, statements and
\* failures: the rows that a transaction adds to its copy have ids handed out
\* since its BEGIN, which no committed row and no other transaction's copy has
\* (reserve_insert_row_id).
THEOREM ReservedIdsHaveOneOwner == Spec => []ReservedOnce
<1>1. ReservedInv => ReservedOnce
  BY DEF ReservedInv, Owned, Added, ReservedOnce
<1> QED
  BY <1>1, ReservedInvariant, PTL

\* COMMIT brings in rows that its transaction reserved, or saw at BEGIN and locked.
LEMMA CommitRows ==
    ASSUME PoolInv, PoolDataInv, ReservedInv, NEW c \in Conn, commit(c)
    PROVE  RowsAreNewOrReserved
<1>1. CASE catalog' = catalog
  BY <1>1 DEF RowsAreNewOrReserved
<1>2. CASE catalog' # catalog
  <2>1. Merged(c).ok /\ catalog' = Merged(c).catalog
    BY <1>2 DEF commit
  <2>2. transaction'[c].id = 0
    BY NoTransactionShape DEF commit, PoolInv, Shapes
  <2>3. ASSUME NEW n \in DOMAIN catalog, NEW r \in DOMAIN catalog'[n].rows \ DOMAIN catalog[n].rows,
               ~(r >= catalog[n].next_row_id)
        PROVE  /\ <<"row", n, r>> \in transaction[c].locked_rows
               /\ \/ r >= transaction[c].base[n].next_row_id
                  \/ r \in DOMAIN transaction[c].base[n].rows
    <3>1. PICK ids : ids = LockedIds(transaction[c].locked_rows, n)
      OBVIOUS
    <3>2. r \in ids
      <4>1. \A q \in DOMAIN Merged(c).catalog[n].rows \ DOMAIN catalog[n].rows :
                q \in LockedIds(transaction[c].locked_rows, n) \/ q >= catalog[n].next_row_id
        BY MergeSteps DEF Merged, PoolInv, CatalogsSound
      <4> QED
        BY <2>1, <2>3, <3>1, <4>1
    <3>3. <<"row", n, r>> \in transaction[c].locked_rows
      BY <3>1, <3>2 DEF LockedIds, PoolInv, LockedKeys
    <3>4. n \in DOMAIN transaction[c].catalog
      BY <2>1, <2>3, MergedData
    <3>5. catalog'[n].rows = MergedRows(catalog[n], transaction[c].catalog[n], ids)
      BY <2>1, <3>1, <3>4, MergedData
    <3>6. PICK m \in Nat : catalog[n].next_row_id = m
      BY <2>3, IdsBelow
    <3>7. SameEntry(catalog'[n].rows, transaction[c].catalog[n].rows, r)
      BY <3>2, <3>5, <3>6, MergedRow
    <3>8. r \in DOMAIN transaction[c].catalog[n].rows /\ r \in Nat
      BY <2>3, <3>4, <3>7, IdsBelow DEF SameEntry
    <3>9. transaction[c].base[n].next_row_id \in Nat
      BY <3>4 DEF ReservedInv, BaseBelow
    <3>10. r \in Added(c, n) => transaction[c].base[n].next_row_id <= r
      BY <3>4 DEF ReservedInv, Owned
    <3> QED
      BY <3>3, <3>8, <3>9, <3>10 DEF Added
  <2> QED
    BY <2>2, <2>3 DEF RowsAreNewOrReserved
<1> QED
  BY <1>1, <1>2

\* A statement outside a transaction brings in only rows with new ids.
LEMMA AutocommitRows ==
    ASSUME PoolInv, NEW c \in Conn, Autocommit(c)
    PROVE  RowsAreNewOrReserved
<1>1. PICK s, new : s = call[c].stmt /\ new = execute_statement(catalog, s, Options).catalog
  OBVIOUS
<1>2. catalog' = catalog \/ catalog' = new
  BY <1>1 DEF Autocommit
<1>3. \A n \in DOMAIN catalog : Steps(catalog[n], new[n], s.op = "Insert")
  BY <1>1, ExecuteSteps DEF PoolInv, CatalogsSound
<1>4. \A n \in DOMAIN catalog :
          DOMAIN new[n].rows \subseteq DOMAIN catalog[n].rows \cup {catalog[n].next_row_id}
  BY <1>3 DEF Steps
<1>5. \A n \in DOMAIN catalog : catalog[n].next_row_id \in Nat
  BY IdsBelow
<1> QED
  BY <1>2, <1>4, <1>5 DEF RowsAreNewOrReserved

\* The reservation of a row id brings no row into the committed table.
LEMMA InsertStagedRows ==
    ASSUME PoolInv, NEW c \in Conn, InsertStaged(c)
    PROVE  RowsAreNewOrReserved
<1>1. PICK n : n = call[c].stmt.table
  OBVIOUS
<1>2. PICK t : t = [catalog[n] EXCEPT !.next_row_id = catalog[n].next_row_id + 1]
  OBVIOUS
<1>3. n \in DOMAIN catalog /\ catalog' = Put(catalog, n, t)
  BY <1>1, <1>2 DEF InsertStaged, reserve_insert_row_id
<1>4. t.rows = catalog[n].rows
  BY <1>2, <1>3 DEF PoolInv, CatalogsSound, Sound, SoundTable, Fields
<1> QED
  BY <1>3, <1>4 DEF RowsAreNewOrReserved, Put

\* A restart brings no row into the committed catalog that was not there.
LEMMA RestartRows ==
    ASSUME PoolInv, Restart
    PROVE  RowsAreNewOrReserved
<1>1. FileRows' /\ FileRows /\ FileBacked /\ file' = file
  BY RestartInv DEF PoolInv, Restart
<1> QED
  BY <1>1 DEF FileRows, RowsAreNewOrReserved

\* A row id enters the committed rows only if it is new, if the committing
\* transaction reserved it after its BEGIN, or if that transaction saw the row
\* at BEGIN, locked it and an autocommit DELETE had removed it (merge_catalogs).
THEOREM NewRowsHaveNewIds == Spec => NewRowsTakeNewIds
<1>1. PoolInv /\ PoolDataInv /\ ReservedInv /\ [Next]_vars => [RowsAreNewOrReserved]_vars
  <2> SUFFICES ASSUME PoolInv, PoolDataInv, ReservedInv, Next PROVE RowsAreNewOrReserved
    OBVIOUS
  <2>1. CASE catalog' = catalog
    BY <2>1 DEF RowsAreNewOrReserved
  <2>2. CASE Restart
    BY <2>2, RestartRows
  <2>3. ASSUME NEW c \in Conn, Step(c), catalog' # catalog PROVE RowsAreNewOrReserved
    <3>1. commit(c) \/ Autocommit(c) \/ InsertStaged(c)
      BY <2>3 DEF Step, get, drop, Start, WriteBinlog, WriteRedo, ControlError, begin, rollback,
         DdlCheck, LockAndWrite, InsertRefused, ReadStaged
    <3> QED
      BY <3>1, CommitRows, AutocommitRows, InsertStagedRows
  <2> QED
    BY <2>1, <2>2, <2>3 DEF Next
<1> QED
  BY <1>1, ReservedInvariant, PTL DEF Spec, NewRowsTakeNewIds
=============================================================================
