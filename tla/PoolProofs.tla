----------------------------- MODULE PoolProofs -----------------------------
(***************************************************************************)
(* Proofs about Pool, for any connections, statements, stored file, pool   *)
(* size and failures.  The locks are safe because of an argument about row *)
(* ids: InsertStaged takes the lock of a reserved row without looking who  *)
(* has it, and nobody can, because every row lock is below its committed   *)
(* table's next_row_id (LocksBelow).  That needs that a staged table is    *)
(* never ahead of the committed one (StagedBelow) and that a filter finds  *)
(* only rows that exist, that is, that no index map is stale (Sound).      *)
(* The bounds on ids and the redo stream are shown by counting the calls   *)
(* under way (BoundsInv, RedoInv).                                         *)
(***************************************************************************)
EXTENDS Pool, CatalogProofs

\* The records have their fields, and a running call its statement.
Shapes ==
    /\ DOMAIN transaction = Conn /\ DOMAIN call = Conn
    /\ \A c \in Conn :
          /\ DOMAIN transaction[c] = {"id", "catalog", "locked_rows", "base"}
          /\ DOMAIN call[c] = {"at", "stmt", "ok"}
          /\ call[c].at # "idle" => call[c].stmt \in Statements

\* Ids are not reused while their transaction lives.
TransactionIds ==
    /\ next_transaction_id \in Nat \ {0}
    /\ \A c \in Conn : transaction[c].id \in 0..(next_transaction_id - 1)
    /\ \A c, d \in Conn : (c # d /\ transaction[c].id # 0) => transaction[c].id # transaction[d].id

\* A connection without a transaction has no locks; keys are triples.
LockedKeys ==
    \A c \in Conn :
        /\ transaction[c].id = 0 => transaction[c].locked_rows = {}
        /\ \A k \in transaction[c].locked_rows : k = <<k[1], k[2], k[3]>>

\* Nobody has locked a row id that the committed table has not handed out.
LocksBelow ==
    \A k \in DOMAIN row_locks : k[1] = "row" =>
        k[2] \in DOMAIN catalog /\ k[3] \in Nat /\ k[3] < catalog[k[2]].next_row_id

CatalogsSound == Sound(catalog) /\ \A c \in Conn : Sound(transaction[c].catalog)

\* A staged table never runs ahead of the committed one.
StagedBelow ==
    \A c \in Conn : \A n \in DOMAIN transaction[c].catalog :
        n \in DOMAIN catalog /\ transaction[c].catalog[n].next_row_id <= catalog[n].next_row_id

\* The file has the committed row ids, so that a restart finds them.
FileRows ==
    FileBacked => /\ DOMAIN file = DOMAIN catalog
                  /\ \A n \in DOMAIN file : DOMAIN file[n].rows = DOMAIN catalog[n].rows

PoolInv ==
    /\ Shapes /\ TransactionIds /\ LockedKeys /\ LocksHeld
    /\ LocksBelow /\ CatalogsSound /\ StagedBelow /\ FileRows

-----------------------------------------------------------------------------
(* Steps that leave the data and the locks alone *)

shared == <<catalog, file, row_locks, next_transaction_id, transaction>>

\* Shapes, for the calls and for the transactions.
CallShapes(calls) ==
    /\ DOMAIN calls = Conn
    /\ \A c \in Conn : /\ DOMAIN calls[c] = {"at", "stmt", "ok"}
                       /\ calls[c].at # "idle" => calls[c].stmt \in Statements

\* Shapes is the shape of the calls and the shape of the transactions.
LEMMA ShapesSplit ==
    Shapes <=> /\ CallShapes(call) /\ DOMAIN transaction = Conn
               /\ \A c \in Conn : DOMAIN transaction[c] = {"id", "catalog", "locked_rows", "base"}
BY DEF Shapes, CallShapes

\* Replacing the record of one call.
LEMMA CallUpdate ==
    ASSUME CallShapes(call), NEW c \in Conn, NEW r,
           DOMAIN r = {"at", "stmt", "ok"}, r.at # "idle" => r.stmt \in Statements
    PROVE  CallShapes([call EXCEPT ![c] = r])
BY DEF CallShapes

\* The fields of the idle call.
LEMMA IdleShape == DOMAIN Idle = {"at", "stmt", "ok"} /\ Idle.at = "idle"
BY DEF Idle

\* The end of execute_statement leaves every call a call.
LEMMA ReturnsShape ==
    ASSUME Shapes, NEW c \in Conn, call[c].at # "idle", NEW ok, Returns(c, ok)
    PROVE  CallShapes(call')
<1>1. CallShapes(call)
  BY ShapesSplit
<1> DEFINE r == [call[c] EXCEPT !.at = IF ok THEN "binlog" ELSE "redo", !.ok = ok]
<1>2. DOMAIN r = {"at", "stmt", "ok"} /\ r.stmt = call[c].stmt
  BY DEF Shapes
<1>3. CallShapes([call EXCEPT ![c] = r])
  <2> HIDE DEF r
  <2> QED
    BY <1>1, <1>2, CallUpdate DEF Shapes
<1>4. CallShapes([call EXCEPT ![c] = Idle])
  BY <1>1, IdleShape, CallUpdate
<1> QED
  BY <1>3, <1>4 DEF Returns

\* A step that changes only calls, logs and permits.
LEMMA QuietInv ==
    ASSUME PoolInv, UNCHANGED shared, CallShapes(call')
    PROVE  PoolInv'
BY DEF PoolInv, shared, Shapes, CallShapes, TransactionIds, LockedKeys, LocksHeld, LocksBelow,
       CatalogsSound, StagedBelow, FileRows

\* The start of a call keeps the invariant.
LEMMA StartInv ==
    ASSUME PoolInv, NEW c \in Conn, NEW s \in Statements, Start(c, s)
    PROVE  PoolInv'
<1>1. CallShapes(call)
  BY ShapesSplit DEF PoolInv
<1>2. PICK r : /\ DOMAIN r = {"at", "stmt", "ok"} /\ r.stmt = s
               /\ call' = call \/ call' = [call EXCEPT ![c] = r]
  <2> DEFINE rec == [at |-> "execute", stmt |-> s, ok |-> TRUE]
  <2>1. DOMAIN rec = {"at", "stmt", "ok"} /\ rec.stmt = s
    OBVIOUS
  <2>2. call' = call \/ call' = [call EXCEPT ![c] = rec]
    BY DEF Start
  <2> HIDE DEF rec
  <2> QED
    BY <2>1, <2>2
<1>3. CallShapes(call')
  BY <1>1, <1>2, CallUpdate
<1> QED
  BY <1>3, QuietInv DEF Start, shared

\* The log lines after a statement keep the invariant.
LEMMA WriteInv ==
    ASSUME PoolInv, NEW c \in Conn, WriteBinlog(c) \/ WriteRedo(c)
    PROVE  PoolInv'
<1>1. CallShapes(call) /\ call[c].at # "idle"
  BY ShapesSplit DEF PoolInv, WriteBinlog, WriteRedo
<1> DEFINE r == [call[c] EXCEPT !.at = "redo"]
<1>2. DOMAIN r = {"at", "stmt", "ok"} /\ r.stmt = call[c].stmt
  BY DEF PoolInv, Shapes
<1>3. call' = [call EXCEPT ![c] = r] \/ call' = [call EXCEPT ![c] = Idle]
  BY DEF WriteBinlog, WriteRedo
<1> HIDE DEF r
<1>4. CallShapes(call')
  BY <1>1, <1>2, <1>3, CallUpdate, IdleShape DEF CallShapes
<1> QED
  BY <1>4, QuietInv DEF WriteBinlog, WriteRedo, shared

\* A call that is refused (ControlError, InsertRefused, ReadStaged) keeps the invariant.
LEMMA RefusalInv ==
    ASSUME PoolInv, NEW c \in Conn, ControlError(c) \/ InsertRefused(c) \/ ReadStaged(c)
    PROVE  PoolInv'
<1>1. call[c].at # "idle" /\ \E ok : Returns(c, ok)
  BY DEF ControlError, InsertRefused, ReadStaged, At
<1>2. CallShapes(call')
  BY <1>1, ReturnsShape DEF PoolInv
<1>3. UNCHANGED shared
  BY DEF ControlError, InsertRefused, ReadStaged, shared
<1> QED
  BY <1>2, <1>3, QuietInv

\* The look at the lock table before DDL keeps the invariant.
LEMMA DdlCheckInv ==
    ASSUME PoolInv, NEW c \in Conn, DdlCheck(c)
    PROVE  PoolInv'
<1>1. CASE Returns(c, FALSE)
  <2>1. CallShapes(call')
    BY <1>1, ReturnsShape DEF PoolInv, DdlCheck
  <2> QED
    BY <2>1, QuietInv DEF DdlCheck, shared
<1>2. CASE call' = [call EXCEPT ![c].at = "ddl"]
  <2>1. CallShapes(call')
    BY <1>2 DEF PoolInv, Shapes, CallShapes, DdlCheck
  <2> QED
    BY <2>1, QuietInv DEF DdlCheck, shared
<1> QED
  BY <1>1, <1>2 DEF DdlCheck

\* A checkout keeps the invariant.
LEMMA GetInv ==
    ASSUME PoolInv, NEW c \in Conn, get(c)
    PROVE  PoolInv'
<1>1. CallShapes(call')
  BY ShapesSplit DEF PoolInv, get
<1> QED
  BY <1>1, QuietInv DEF get, shared

-----------------------------------------------------------------------------
(* Steps that change the committed catalog or end a transaction *)

\* A committed catalog only grows, whatever a step does to it.
Grows(old, new) ==
    \A n \in DOMAIN old : n \in DOMAIN new /\ old[n].next_row_id <= new[n].next_row_id

\* A catalog that stays the same grows trivially.
LEMMA GrowsSame ==
    ASSUME NEW cat, Sound(cat) PROVE Grows(cat, cat)
BY DEF Grows, Sound, SoundTable, RowIds

\* The fields of a connection without a transaction.
LEMMA NoTransactionShape ==
    /\ DOMAIN NoTransaction = {"id", "catalog", "locked_rows", "base"}
    /\ NoTransaction.id = 0 /\ NoTransaction.locked_rows = {}
    /\ DOMAIN NoTransaction.catalog = {} /\ Sound(NoTransaction.catalog)
BY DEF NoTransaction, EmptyCatalog, EmptyMap, Sound

\* Locks stay below, and staged tables behind, a catalog that grows.
LEMMA BelowGrows ==
    ASSUME PoolInv, Sound(catalog'), Grows(catalog, catalog'),
           \A k \in DOMAIN row_locks' : k \in DOMAIN row_locks,
           \A c \in Conn : transaction'[c].catalog = transaction[c].catalog
                           \/ DOMAIN transaction'[c].catalog = {}
    PROVE  LocksBelow' /\ StagedBelow'
<1>1. \A n \in DOMAIN catalog : catalog[n].next_row_id \in Nat
  BY DEF PoolInv, CatalogsSound, Sound, SoundTable, RowIds
<1>2. \A n \in DOMAIN catalog' : catalog'[n].next_row_id \in Nat
  BY DEF Sound, SoundTable, RowIds
<1>3. \A c \in Conn : \A n \in DOMAIN transaction[c].catalog :
          transaction[c].catalog[n].next_row_id \in Nat
  BY DEF PoolInv, CatalogsSound, Sound, SoundTable, RowIds
<1>4. LocksBelow'
  <2> SUFFICES ASSUME NEW k \in DOMAIN row_locks', k[1] = "row"
               PROVE  k[2] \in DOMAIN catalog' /\ k[3] \in Nat
                      /\ k[3] < catalog'[k[2]].next_row_id
    BY DEF LocksBelow
  <2>1. k[2] \in DOMAIN catalog /\ k[3] \in Nat /\ k[3] < catalog[k[2]].next_row_id
    BY DEF PoolInv, LocksBelow
  <2>2. k[2] \in DOMAIN catalog' /\ catalog[k[2]].next_row_id <= catalog'[k[2]].next_row_id
    BY <2>1 DEF Grows
  <2> QED
    BY <1>1, <1>2, <2>1, <2>2
<1>5. StagedBelow'
  <2> SUFFICES ASSUME NEW c \in Conn, NEW n \in DOMAIN transaction'[c].catalog
               PROVE  n \in DOMAIN catalog'
                      /\ transaction'[c].catalog[n].next_row_id <= catalog'[n].next_row_id
    BY DEF StagedBelow
  <2>1. transaction'[c].catalog = transaction[c].catalog
    OBVIOUS
  <2>2. n \in DOMAIN catalog /\ transaction[c].catalog[n].next_row_id <= catalog[n].next_row_id
    BY <2>1 DEF PoolInv, StagedBelow
  <2>3. n \in DOMAIN catalog' /\ catalog[n].next_row_id <= catalog'[n].next_row_id
    BY <2>2 DEF Grows
  <2> QED
    BY <1>1, <1>2, <1>3, <2>1, <2>2, <2>3
<1> QED
  BY <1>4, <1>5

\* A step outside transactions on the committed catalog.
LEMMA CommittedInv ==
    ASSUME PoolInv, UNCHANGED <<row_locks, next_transaction_id, transaction>>,
           CallShapes(call'), Sound(catalog'), Grows(catalog, catalog'), FileRows'
    PROVE  PoolInv'
<1>1. LocksBelow' /\ StagedBelow'
  BY BelowGrows
<1>2. Shapes' /\ TransactionIds' /\ LockedKeys' /\ LocksHeld'
  BY DEF PoolInv, Shapes, CallShapes, TransactionIds, LockedKeys, LocksHeld
<1>3. CatalogsSound'
  BY DEF PoolInv, CatalogsSound
<1> QED
  BY <1>1, <1>2, <1>3 DEF PoolInv

\* release_locks takes only the locks of the transaction that ends.
LEMMA ReleaseKeeps ==
    ASSUME PoolInv, NEW c \in Conn, NEW d \in Conn, c # d,
           NEW k \in transaction[d].locked_rows
    PROVE  /\ k \in DOMAIN release_locks(row_locks, transaction[c])
           /\ release_locks(row_locks, transaction[c])[k] = transaction[d].id
<1>1. k \in DOMAIN row_locks /\ row_locks[k] = transaction[d].id
  BY DEF PoolInv, LocksHeld
<1>2. ~(k \in transaction[c].locked_rows /\ row_locks[k] = transaction[c].id)
  BY <1>1 DEF PoolInv, LockedKeys, TransactionIds
<1> QED
  BY <1>1, <1>2 DEF release_locks

\* The end of a transaction, with or without a merge, with or without a
\* release: COMMIT, ROLLBACK and Drop.
LEMMA EndInv ==
    ASSUME PoolInv, NEW c \in Conn,
           transaction' = [transaction EXCEPT ![c] = NoTransaction],
           row_locks' \in {row_locks, release_locks(row_locks, transaction[c])},
           UNCHANGED next_transaction_id,
           CallShapes(call'), Sound(catalog'), Grows(catalog, catalog'), FileRows'
    PROVE  PoolInv'
<1>1. /\ DOMAIN transaction' = Conn /\ transaction'[c] = NoTransaction
      /\ \A d \in Conn : d # c => transaction'[d] = transaction[d]
  BY DEF PoolInv, Shapes
<1>2. Shapes'
  BY <1>1, NoTransactionShape DEF PoolInv, Shapes, CallShapes
<1>3. TransactionIds'
  BY <1>1, NoTransactionShape DEF PoolInv, TransactionIds
<1>4. LockedKeys'
  BY <1>1, NoTransactionShape DEF PoolInv, LockedKeys
<1>5. LocksHeld'
  <2> SUFFICES ASSUME NEW d \in Conn, NEW k \in transaction'[d].locked_rows
               PROVE  k \in DOMAIN row_locks' /\ row_locks'[k] = transaction'[d].id
    BY DEF LocksHeld
  <2>1. d # c /\ transaction'[d] = transaction[d]
    BY <1>1, NoTransactionShape
  <2> QED
    BY <2>1, ReleaseKeeps DEF PoolInv, LocksHeld
<1>6. \A k \in DOMAIN row_locks' : k \in DOMAIN row_locks
  BY DEF release_locks
<1>7. LocksBelow' /\ StagedBelow'
  BY <1>1, <1>6, NoTransactionShape, BelowGrows
<1>8. CatalogsSound'
  BY <1>1, NoTransactionShape DEF PoolInv, CatalogsSound
<1> QED
  BY <1>2, <1>3, <1>4, <1>5, <1>7, <1>8 DEF PoolInv

\* The drop of a connection keeps the invariant.
LEMMA DropInv ==
    ASSUME PoolInv, NEW c \in Conn, drop(c)
    PROVE  PoolInv'
<1>1. CallShapes(call') /\ FileRows' /\ Sound(catalog') /\ Grows(catalog, catalog')
  BY ShapesSplit, GrowsSame DEF PoolInv, drop, FileRows, CatalogsSound
<1> QED
  BY <1>1, EndInv DEF drop

\* ROLLBACK keeps the invariant.
LEMMA RollbackInv ==
    ASSUME PoolInv, NEW c \in Conn, rollback(c)
    PROVE  PoolInv'
<1>1. FileRows' /\ Sound(catalog') /\ Grows(catalog, catalog')
  BY GrowsSame DEF PoolInv, rollback, FileRows, CatalogsSound
<1>2. CallShapes(call')
  BY ReturnsShape DEF PoolInv, rollback, At
<1> QED
  BY <1>1, <1>2, EndInv DEF rollback

\* The merge keeps every table and moves no next_row_id back; a row it adds
\* is one of the locked ones, or from the committed next_row_id on.
LEMMA MergeSteps ==
    ASSUME NEW base, Sound(base), NEW staged, Sound(staged), NEW locked
    PROVE  LET new == merge_catalogs(base, staged, locked).catalog
           IN /\ Sound(new) /\ Grows(base, new)
              /\ \A n \in DOMAIN base : \A r \in DOMAIN new[n].rows \ DOMAIN base[n].rows :
                     r \in LockedIds(locked, n) \/ r >= base[n].next_row_id
<1> DEFINE new == merge_catalogs(base, staged, locked).catalog
           both == DOMAIN base \cap DOMAIN staged
           merged(n) == MergedTable(base[n], staged[n], LockedIds(locked, n))
<1>1. /\ DOMAIN new = DOMAIN base \cup DOMAIN staged
      /\ \A n \in both : new[n] = rebuild_indexes(merged(n), DefaultOptions)
      /\ \A n \in DOMAIN base \ both : new[n] = base[n]
      /\ \A n \in DOMAIN staged \ both : new[n] = staged[n]
  BY DEF merge_catalogs, Rebuilt
<1>2. ASSUME NEW n \in both
      PROVE  /\ SoundTable(new[n]) /\ base[n].next_row_id <= new[n].next_row_id
             /\ \A r \in DOMAIN new[n].rows \ DOMAIN base[n].rows :
                    r \in LockedIds(locked, n) \/ r >= base[n].next_row_id
  <2> DEFINE ids == LockedIds(locked, n)
             b == base[n]
             g == staged[n]
             m == merged(n)
             top == IF b.next_row_id < g.next_row_id THEN g.next_row_id ELSE b.next_row_id
  <2>1. SoundTable(b) /\ SoundTable(g)
    BY DEF Sound
  <2> HIDE DEF ids, b, g, new
  <2>2. DOMAIN m = Fields /\ m.rows = MergedRows(b, g, ids) /\ m.next_row_id = top
    BY <2>1 DEF MergedTable, SoundTable, Fields, b, g, ids
  <2>3. /\ b.next_row_id \in Nat /\ g.next_row_id \in Nat
        /\ DOMAIN b.rows \subseteq 0..(b.next_row_id - 1)
        /\ DOMAIN g.rows \subseteq 0..(g.next_row_id - 1)
    BY <2>1 DEF SoundTable, RowIds
  <2>4. /\ DOMAIN MergedRows(b, g, ids) \subseteq DOMAIN b.rows \cup DOMAIN g.rows
        /\ \A r \in DOMAIN MergedRows(b, g, ids) \ DOMAIN b.rows :
               r \in ids \/ r \in b.next_row_id..(g.next_row_id - 1)
    BY DEF MergedRows
  <2>5. RowIds(m)
    <3>1. DOMAIN b.rows \subseteq 0..(top - 1) /\ DOMAIN g.rows \subseteq 0..(top - 1) /\ top \in Nat
      BY <2>3
    <3> HIDE DEF m, top
    <3> QED
      BY <2>2, <2>4, <3>1 DEF RowIds
  <2>6. SoundTable(new[n]) /\ new[n].rows = m.rows /\ new[n].next_row_id = top
    <3> HIDE DEF m, top
    <3>1. new[n] = rebuild_indexes(m, DefaultOptions)
      BY <1>1 DEF m
    <3> QED
      BY <2>2, <2>5, <3>1, RebuildSound
  <2>7. b.next_row_id <= top
    BY <2>3
  <2>8. \A r \in DOMAIN m.rows \ DOMAIN b.rows : r \in ids \/ r >= b.next_row_id
    <3> HIDE DEF m
    <3> QED
      BY <2>2, <2>3, <2>4
  <2> QED
    BY <2>6, <2>7, <2>8 DEF b, ids
<1>3. Sound(new)
  <2> HIDE DEF new, merged
  <2> QED
    BY <1>1, <1>2 DEF Sound
<1>4. \A n \in DOMAIN base : base[n].next_row_id \in Nat
  BY DEF Sound, SoundTable, RowIds
<1>5. Grows(base, new)
  <2> HIDE DEF new, merged
  <2> QED
    BY <1>1, <1>2, <1>4 DEF Grows
<1>6. \A n \in DOMAIN base : \A r \in DOMAIN new[n].rows \ DOMAIN base[n].rows :
          r \in LockedIds(locked, n) \/ r >= base[n].next_row_id
  <2> HIDE DEF new, merged
  <2> QED
    BY <1>1, <1>2
<1> QED
  BY <1>3, <1>5, <1>6

\* A catalog that was saved is the one in the file.
LEMMA PersistRows ==
    ASSUME NEW cat, Sound(cat), NEW saved \in BOOLEAN, Persist(cat, saved), FileRows,
           catalog' = IF saved THEN cat ELSE catalog
    PROVE  FileRows'
<1>1. CASE saved /\ FileBacked
  <2>1. file' = encode(cat) /\ catalog' = cat
    BY <1>1 DEF Persist
  <2> QED
    BY <2>1, EncodeReadable DEF FileRows
<1>2. CASE ~saved
  <2>1. file' = file /\ catalog' = catalog
    BY <1>2 DEF Persist
  <2> QED
    BY <2>1 DEF FileRows
<1>3. CASE ~FileBacked
  BY <1>3 DEF FileRows
<1> QED
  BY <1>1, <1>2, <1>3

\* COMMIT keeps the invariant, saved or not, merged or not.
LEMMA CommitInv ==
    ASSUME PoolInv, NEW c \in Conn, commit(c)
    PROVE  PoolInv'
<1>1. call[c].at # "idle" /\ \E ok : Returns(c, ok)
  BY DEF commit, At
<1>2. CallShapes(call')
  BY <1>1, ReturnsShape DEF PoolInv
<1>3. Sound(Merged(c).catalog) /\ Grows(catalog, Merged(c).catalog)
  BY MergeSteps DEF Merged, PoolInv, CatalogsSound
<1>4. Sound(catalog) /\ Grows(catalog, catalog) /\ FileRows
  BY GrowsSame DEF PoolInv, CatalogsSound
<1>5. Sound(catalog') /\ Grows(catalog, catalog') /\ FileRows'
  <2>1. CASE Merged(c).ok
    <3>1. PICK saved \in BOOLEAN :
              /\ Persist(Merged(c).catalog, saved)
              /\ catalog' = IF saved THEN Merged(c).catalog ELSE catalog
      BY <2>1 DEF commit
    <3>2. FileRows'
      BY <1>3, <1>4, <3>1, PersistRows
    <3> QED
      BY <1>3, <1>4, <3>1, <3>2
  <2>2. CASE ~Merged(c).ok
    <3>1. UNCHANGED <<catalog, file>>
      BY <2>2 DEF commit
    <3> QED
      BY <1>4, <3>1 DEF FileRows
  <2> QED
    BY <2>1, <2>2
<1>6. row_locks' \in {row_locks, release_locks(row_locks, transaction[c])}
  BY DEF commit
<1> QED
  BY <1>2, <1>5, <1>6, EndInv DEF commit

\* A statement outside a transaction keeps the invariant.
LEMMA AutocommitInv ==
    ASSUME PoolInv, NEW c \in Conn, Autocommit(c)
    PROVE  PoolInv'
<1> DEFINE done == execute_statement(catalog, call[c].stmt, Options)
<1>1. call[c].at # "idle" /\ \E ok : Returns(c, ok)
  BY DEF Autocommit
<1>2. CallShapes(call')
  BY <1>1, ReturnsShape DEF PoolInv
<1>3. Sound(catalog) /\ Grows(catalog, catalog) /\ FileRows
  BY GrowsSame DEF PoolInv, CatalogsSound
<1>4. /\ Sound(done.catalog)
      /\ \A n \in DOMAIN catalog : n \in DOMAIN done.catalog
            /\ Steps(catalog[n], done.catalog[n], call[c].stmt.op = "Insert")
  BY <1>3, ExecuteSteps
<1>5. Grows(catalog, done.catalog)
  <2> HIDE DEF done
  <2>1. \A n \in DOMAIN catalog : catalog[n].next_row_id \in Nat
    BY <1>3 DEF Sound, SoundTable, RowIds
  <2> QED
    BY <1>4, <2>1 DEF Grows, Steps
<1>6. Sound(catalog') /\ Grows(catalog, catalog') /\ FileRows'
  <2>1. CASE done.ok
    <3>1. PICK saved \in BOOLEAN :
              /\ Persist(done.catalog, saved)
              /\ catalog' = IF saved THEN done.catalog ELSE catalog
      BY <2>1 DEF Autocommit
    <3> HIDE DEF done
    <3>2. FileRows'
      BY <1>3, <1>4, <3>1, PersistRows
    <3> QED
      BY <1>3, <1>4, <1>5, <3>1, <3>2
  <2>2. CASE ~done.ok
    <3>1. UNCHANGED <<catalog, file>>
      BY <2>2 DEF Autocommit
    <3> QED
      BY <1>3, <3>1 DEF FileRows
  <2> QED
    BY <2>1, <2>2
<1> QED
  BY <1>2, <1>6, CommittedInv DEF Autocommit

-----------------------------------------------------------------------------
(* Steps of an open transaction *)

\* BEGIN keeps the invariant: its transaction id is new.
LEMMA BeginInv ==
    ASSUME PoolInv, NEW c \in Conn, begin(c)
    PROVE  PoolInv'
<1> DEFINE tx == [id |-> next_transaction_id, catalog |-> catalog, locked_rows |-> {},
                  base |-> catalog]
<1>1. transaction' = [transaction EXCEPT ![c] = tx] /\ next_transaction_id' = next_transaction_id + 1
      /\ UNCHANGED <<catalog, file, row_locks>>
  BY DEF begin
<1>2. /\ DOMAIN tx = {"id", "catalog", "locked_rows", "base"}
      /\ tx.id = next_transaction_id /\ tx.catalog = catalog /\ tx.locked_rows = {}
  OBVIOUS
<1> HIDE DEF tx
<1>3. /\ DOMAIN transaction' = Conn /\ transaction'[c] = tx
      /\ \A d \in Conn : d # c => transaction'[d] = transaction[d]
  BY <1>1 DEF PoolInv, Shapes
<1>4. CallShapes(call')
  BY ReturnsShape DEF PoolInv, begin, At
<1>5. Shapes'
  BY <1>2, <1>3, <1>4 DEF PoolInv, Shapes, CallShapes
<1>6. TransactionIds'
  <2>1. next_transaction_id \in Nat \ {0}
        /\ \A d \in Conn : transaction[d].id \in 0..(next_transaction_id - 1)
    BY DEF PoolInv, TransactionIds
  <2>2. \A d \in Conn : transaction'[d].id \in 0..(next_transaction_id' - 1)
    BY <1>1, <1>2, <1>3, <2>1
  <2>3. \A d \in Conn : d # c => transaction'[d].id # transaction'[c].id
    BY <1>2, <1>3, <2>1
  <2>4. \A d, e \in Conn : (d # e /\ d # c /\ e # c /\ transaction'[d].id # 0) =>
            transaction'[d].id # transaction'[e].id
    BY <1>3 DEF PoolInv, TransactionIds
  <2> QED
    BY <1>1, <2>1, <2>2, <2>3, <2>4 DEF TransactionIds
<1>7. LockedKeys' /\ LocksHeld'
  BY <1>1, <1>2, <1>3 DEF PoolInv, LockedKeys, LocksHeld
<1>8. LocksBelow' /\ FileRows'
  BY <1>1 DEF PoolInv, LocksBelow, FileRows
<1>9. CatalogsSound'
  BY <1>1, <1>2, <1>3 DEF PoolInv, CatalogsSound
<1>10. StagedBelow'
  <2>1. \A n \in DOMAIN catalog : catalog[n].next_row_id <= catalog[n].next_row_id
    BY DEF PoolInv, CatalogsSound, Sound, SoundTable, RowIds
  <2> QED
    BY <1>1, <1>2, <1>3, <2>1 DEF PoolInv, StagedBelow
<1> QED
  BY <1>5, <1>6, <1>7, <1>8, <1>9, <1>10 DEF PoolInv

\* A transaction takes keys that nobody else holds, and stages a sound
\* catalog that the committed one is not behind of.
LEMMA LockInv ==
    ASSUME PoolInv, NEW c \in Conn, transaction[c].id # 0, NEW staged, NEW keys,
           Staged(c, staged, keys), row_locks' = Lock(row_locks, keys, transaction[c].id),
           UNCHANGED next_transaction_id, CallShapes(call'),
           \A k \in keys : k = <<k[1], k[2], k[3]>>,
           \A k \in keys : \A d \in Conn : d # c => k \notin transaction[d].locked_rows,
           \A k \in keys : k[1] = "row" =>
               k[2] \in DOMAIN catalog' /\ k[3] \in Nat /\ k[3] < catalog'[k[2]].next_row_id,
           Sound(catalog'), Grows(catalog, catalog'), FileRows', Sound(staged),
           \A n \in DOMAIN staged :
               n \in DOMAIN catalog' /\ staged[n].next_row_id <= catalog'[n].next_row_id
    PROVE  PoolInv'
<1> DEFINE tx == [transaction[c] EXCEPT !.catalog = staged,
                                        !.locked_rows = transaction[c].locked_rows \cup keys]
<1>1. transaction' = [transaction EXCEPT ![c] = tx]
  BY DEF Staged
<1>2. /\ DOMAIN tx = {"id", "catalog", "locked_rows", "base"}
      /\ tx.id = transaction[c].id /\ tx.catalog = staged
      /\ tx.locked_rows = transaction[c].locked_rows \cup keys
  BY DEF PoolInv, Shapes
<1> HIDE DEF tx
<1>3. /\ DOMAIN transaction' = Conn /\ transaction'[c] = tx
      /\ \A d \in Conn : d # c => transaction'[d] = transaction[d]
  BY <1>1 DEF PoolInv, Shapes
<1>4. Shapes'
  BY <1>2, <1>3 DEF PoolInv, Shapes, CallShapes
<1>5. TransactionIds'
  BY <1>2, <1>3 DEF PoolInv, TransactionIds
<1>6. LockedKeys'
  BY <1>2, <1>3 DEF PoolInv, LockedKeys
<1>7. /\ DOMAIN row_locks' = DOMAIN row_locks \cup keys
      /\ \A k \in keys : row_locks'[k] = transaction[c].id
      /\ \A k \in DOMAIN row_locks \ keys : row_locks'[k] = row_locks[k]
  BY DEF Lock
<1>8. LocksHeld'
  <2> SUFFICES ASSUME NEW d \in Conn, NEW k \in transaction'[d].locked_rows
               PROVE  k \in DOMAIN row_locks' /\ row_locks'[k] = transaction'[d].id
    BY DEF LocksHeld
  <2>1. CASE d = c
    BY <1>2, <1>3, <1>7, <2>1 DEF PoolInv, LocksHeld
  <2>2. CASE d # c
    BY <1>3, <1>7, <2>2 DEF PoolInv, LocksHeld
  <2> QED
    BY <2>1, <2>2
<1>9. \A n \in DOMAIN catalog : catalog[n].next_row_id \in Nat
  BY DEF PoolInv, CatalogsSound, Sound, SoundTable, RowIds
<1>10. \A n \in DOMAIN catalog' : catalog'[n].next_row_id \in Nat
  BY DEF Sound, SoundTable, RowIds
<1>11. LocksBelow'
  <2> SUFFICES ASSUME NEW k \in DOMAIN row_locks, k[1] = "row"
               PROVE  k[2] \in DOMAIN catalog' /\ k[3] \in Nat
                      /\ k[3] < catalog'[k[2]].next_row_id
    BY <1>7 DEF LocksBelow
  <2>1. k[2] \in DOMAIN catalog /\ k[3] \in Nat /\ k[3] < catalog[k[2]].next_row_id
    BY DEF PoolInv, LocksBelow
  <2>2. k[2] \in DOMAIN catalog' /\ catalog[k[2]].next_row_id <= catalog'[k[2]].next_row_id
    BY <2>1 DEF Grows
  <2> QED
    BY <1>9, <1>10, <2>1, <2>2
<1>12. StagedBelow'
  <2> SUFFICES ASSUME NEW d \in Conn, d # c, NEW n \in DOMAIN transaction[d].catalog
               PROVE  n \in DOMAIN catalog'
                      /\ transaction[d].catalog[n].next_row_id <= catalog'[n].next_row_id
    BY <1>2, <1>3 DEF StagedBelow
  <2>1. n \in DOMAIN catalog /\ transaction[d].catalog[n].next_row_id <= catalog[n].next_row_id
        /\ transaction[d].catalog[n].next_row_id \in Nat
    BY DEF PoolInv, StagedBelow, CatalogsSound, Sound, SoundTable, RowIds
  <2>2. n \in DOMAIN catalog' /\ catalog[n].next_row_id <= catalog'[n].next_row_id
    BY <2>1 DEF Grows
  <2> QED
    BY <1>9, <1>10, <2>1, <2>2
<1>13. CatalogsSound'
  BY <1>2, <1>3 DEF PoolInv, CatalogsSound
<1> QED
  BY <1>4, <1>5, <1>6, <1>8, <1>11, <1>12, <1>13 DEF PoolInv

\* A key that does not conflict is in no other transaction.
LEMMA FreeKey ==
    ASSUME PoolInv, NEW c \in Conn, NEW k, ~Conflicts(k, transaction[c].id), NEW d \in Conn,
           d # c, transaction[c].id # 0
    PROVE  k \notin transaction[d].locked_rows
BY DEF PoolInv, LocksHeld, TransactionIds, Conflicts

\* UPDATE and DELETE in a transaction keep the invariant: they lock only what is free or theirs.
LEMMA LockAndWriteInv ==
    ASSUME PoolInv, NEW c \in Conn, LockAndWrite(c)
    PROVE  PoolInv'
<1> DEFINE s == call[c].stmt
           tx == transaction[c]
           found == s.table \in DOMAIN tx.catalog /\ FilterOk(tx.catalog[s.table], s.filter, Options)
           ids == IF found THEN matching_row_ids(tx.catalog[s.table], s.filter, Options) ELSE {}
           blocked == {r \in ids : Conflicts(<<"row", s.table, r>>, tx.id)}
           granted == {<<"row", s.table, r>> : r \in {r \in ids : \A q \in blocked : r < q}}
           done == execute_statement(tx.catalog, s, Options)
           staged == IF found /\ blocked = {} THEN done.catalog ELSE tx.catalog
<1>1. /\ call[c].at = "execute" /\ s.op \in {"Update", "Delete"} /\ tx.id # 0
      /\ row_locks' = Lock(row_locks, granted, tx.id)
      /\ Staged(c, staged, granted)
      /\ \E ok : Returns(c, ok)
      /\ UNCHANGED <<catalog, file, next_transaction_id>>
  BY DEF LockAndWrite, Active
<1>2. s \in Statements /\ s.filter[1] \in FilterKinds
  BY <1>1, StatementsParsed DEF PoolInv, Shapes, IsStatement
<1>3. CallShapes(call')
  BY <1>1, ReturnsShape DEF PoolInv
<1>4. Sound(tx.catalog) /\ Sound(catalog') /\ Grows(catalog, catalog') /\ FileRows'
  BY <1>1, GrowsSame DEF PoolInv, CatalogsSound, FileRows
<1>5. \A n \in DOMAIN tx.catalog :
          /\ n \in DOMAIN catalog /\ tx.catalog[n].next_row_id <= catalog[n].next_row_id
          /\ tx.catalog[n].next_row_id \in Nat /\ catalog[n].next_row_id \in Nat
  BY DEF PoolInv, StagedBelow, CatalogsSound, Sound, SoundTable, RowIds
<1>6. ASSUME NEW r \in ids
      PROVE  /\ s.table \in DOMAIN catalog' /\ r \in Nat
             /\ r < catalog'[s.table].next_row_id
  <2>1. s.table \in DOMAIN tx.catalog /\ SoundTable(tx.catalog[s.table])
    BY <1>4 DEF Sound
  <2>2. r \in DOMAIN tx.catalog[s.table].rows
    BY <1>2, <2>1, MatchingRows
  <2>3. r \in 0..(tx.catalog[s.table].next_row_id - 1)
    BY <2>1, <2>2 DEF SoundTable, RowIds
  <2> HIDE DEF tx, s, ids
  <2> QED
    BY <1>1, <1>5, <2>1, <2>3
<1>7. \A k \in granted : k = <<k[1], k[2], k[3]>>
  OBVIOUS
<1>8. \A k \in granted : k[1] = "row" =>
          k[2] \in DOMAIN catalog' /\ k[3] \in Nat /\ k[3] < catalog'[k[2]].next_row_id
  <2> HIDE DEF ids, s
  <2> QED
    BY <1>6
<1>9. ASSUME NEW k \in granted, NEW d \in Conn, d # c PROVE k \notin transaction[d].locked_rows
  <2> HIDE DEF ids, s
  <2>1. PICK r \in ids : k = <<"row", s.table, r>> /\ \A q \in blocked : r < q
    OBVIOUS
  <2>2. r \in Nat
    BY <1>6
  <2>3. ~Conflicts(k, tx.id)
    BY <2>1, <2>2
  <2> QED
    BY <1>1, <1>9, <2>3, FreeKey
<1>10. /\ Sound(done.catalog) /\ DOMAIN done.catalog = DOMAIN tx.catalog
       /\ \A n \in DOMAIN tx.catalog : Steps(tx.catalog[n], done.catalog[n], s.op = "Insert")
  <2>1. /\ Sound(done.catalog)
        /\ s.op # "CreateTable" => DOMAIN done.catalog = DOMAIN tx.catalog
        /\ \A n \in DOMAIN tx.catalog : Steps(tx.catalog[n], done.catalog[n], s.op = "Insert")
    BY <1>4, ExecuteSteps
  <2> HIDE DEF done, s, tx
  <2> QED
    BY <1>1, <2>1
<1>11. /\ Sound(staged)
       /\ \A n \in DOMAIN staged :
              n \in DOMAIN catalog' /\ staged[n].next_row_id <= catalog'[n].next_row_id
  <2> HIDE DEF done, tx, ids, s
  <2> QED
    BY <1>1, <1>4, <1>5, <1>10 DEF Steps
<1> HIDE DEF staged, granted
<1> QED
  BY <1>1, <1>3, <1>4, <1>7, <1>8, <1>9, <1>11, LockInv

\* INSERT in a transaction keeps the invariant: the reserved row has no lock yet.
LEMMA InsertStagedInv ==
    ASSUME PoolInv, NEW c \in Conn, InsertStaged(c)
    PROVE  PoolInv'
<1> DEFINE s == call[c].stmt
           tx == transaction[c]
           mine == tx.catalog[s.table]
           key == insert_lock_key(mine, s)
           reserved == catalog[s.table].next_row_id
           ready == [mine EXCEPT !.next_row_id = IF @ < reserved THEN reserved ELSE @]
           keys == {key, <<"row", s.table, reserved>>}
           done == execute_statement(Put(tx.catalog, s.table, ready), s, Options)
           bumped == [catalog[s.table] EXCEPT !.next_row_id = reserved + 1]
<1>1. /\ call[c].at = "execute" /\ s.op = "Insert" /\ tx.id # 0
      /\ s.table \in DOMAIN tx.catalog /\ s.table \in DOMAIN catalog
      /\ ~Conflicts(key, tx.id)
      /\ catalog' = Put(catalog, s.table, bumped)
      /\ row_locks' = Lock(row_locks, keys, tx.id)
      /\ Staged(c, done.catalog, keys)
      /\ Returns(c, done.ok)
      /\ UNCHANGED <<file, next_transaction_id>>
  BY DEF InsertStaged, reserve_insert_row_id, At, Active
<1>2. CallShapes(call')
  BY <1>1, ReturnsShape DEF PoolInv
<1>3. /\ Sound(tx.catalog) /\ Sound(catalog) /\ SoundTable(mine) /\ SoundTable(catalog[s.table])
  BY <1>1 DEF PoolInv, CatalogsSound, Sound
<1>4. /\ \A n \in DOMAIN tx.catalog :
            n \in DOMAIN catalog /\ tx.catalog[n].next_row_id <= catalog[n].next_row_id
      /\ reserved \in Nat /\ mine.next_row_id \in Nat /\ mine.next_row_id <= reserved
      /\ \A n \in DOMAIN catalog : catalog[n].next_row_id \in Nat
  BY <1>1, <1>3 DEF PoolInv, StagedBelow, Sound, SoundTable, RowIds
<1>5. \* The committed table only lost the reserved id.
      /\ SoundTable(bumped) /\ bumped.next_row_id = reserved + 1
      /\ bumped.rows = catalog[s.table].rows
  <2>1. reserved + 1 \in Nat /\ reserved <= reserved + 1
    BY <1>4
  <2> QED
    BY <1>3, <2>1, SkipSound
<1>6. Sound(catalog') /\ Grows(catalog, catalog') /\ FileRows'
  <2> HIDE DEF bumped
  <2>1. DOMAIN catalog' = DOMAIN catalog /\ catalog'[s.table] = bumped
        /\ \A n \in DOMAIN catalog : n # s.table => catalog'[n] = catalog[n]
    BY <1>1 DEF Put
  <2>2. Sound(catalog')
    BY <1>3, <1>5, <2>1 DEF Sound
  <2>3. Grows(catalog, catalog')
    BY <1>4, <1>5, <2>1 DEF Grows
  <2>4. \A n \in DOMAIN catalog : catalog'[n].rows = catalog[n].rows
    BY <1>5, <2>1
  <2>5. FileRows /\ file' = file
    BY <1>1 DEF PoolInv
  <2>6. FileRows'
    BY <2>1, <2>4, <2>5 DEF FileRows
  <2> QED
    BY <2>2, <2>3, <2>6
<1>7. \* The staged table starts from the reserved id.
      SoundTable(ready) /\ ready.next_row_id = reserved
  <2>1. (IF mine.next_row_id < reserved THEN reserved ELSE mine.next_row_id) = reserved
    BY <1>4
  <2>2. ready = [mine EXCEPT !.next_row_id = reserved]
    <3> HIDE DEF mine, reserved
    <3> QED
      BY <2>1
  <2> HIDE DEF ready, mine, reserved
  <2> QED
    BY <1>3, <1>4, <2>2, SkipSound
<1>8. /\ Sound(done.catalog)
      /\ \A n \in DOMAIN done.catalog :
            n \in DOMAIN catalog' /\ done.catalog[n].next_row_id <= catalog'[n].next_row_id
  <2> DEFINE old == Put(tx.catalog, s.table, ready)
  <2>1. /\ DOMAIN old = DOMAIN tx.catalog /\ old[s.table] = ready
        /\ \A n \in DOMAIN old : n # s.table => old[n] = tx.catalog[n]
    BY <1>1 DEF Put
  <2> HIDE DEF old, ready
  <2>2. Sound(old)
    BY <1>3, <1>7, <2>1 DEF Sound
  <2>3. /\ Sound(done.catalog) /\ DOMAIN done.catalog = DOMAIN old
        /\ \A n \in DOMAIN old : Steps(old[n], done.catalog[n], s.op = "Insert")
        /\ \A n \in DOMAIN old : n # s.table => done.catalog[n] = old[n]
    <3>1. done = execute_statement(old, s, Options)
      BY DEF old, ready
    <3>2. /\ Sound(done.catalog)
          /\ s.op # "CreateTable" => DOMAIN done.catalog = DOMAIN old
          /\ \A n \in DOMAIN old : Steps(old[n], done.catalog[n], s.op = "Insert")
          /\ \A n \in DOMAIN old : n # s.table => done.catalog[n] = old[n]
      <4> HIDE DEF done
      <4> QED
        BY <2>2, <3>1, ExecuteSteps
    <3> HIDE DEF done, s
    <3> QED
      BY <1>1, <3>2
  <2> HIDE DEF done, bumped
  <2>4. \A n \in DOMAIN old : n # s.table =>
            n \in DOMAIN catalog' /\ done.catalog[n].next_row_id <= catalog'[n].next_row_id
    BY <1>1, <1>4, <2>1, <2>3 DEF Put
  <2>5. s.table \in DOMAIN catalog' /\ catalog'[s.table].next_row_id = reserved + 1
    BY <1>1, <1>5 DEF Put
  <2>6. Steps(ready, done.catalog[s.table], s.op = "Insert")
    BY <1>1, <2>1, <2>3
  <2>7. done.catalog[s.table].next_row_id <= reserved + 1
    <3> HIDE DEF reserved, s
    <3> QED
      BY <1>4, <1>7, <2>6 DEF Steps
  <2> QED
    BY <2>1, <2>3, <2>4, <2>5, <2>7
<1>9. key = <<key[1], key[2], key[3]>> /\ key[1] # "row"
  BY DEF insert_lock_key
<1>10. \A k \in keys : k = <<k[1], k[2], k[3]>>
  <2> HIDE DEF key
  <2> QED
    BY <1>9
<1>11. \A k \in keys : k[1] = "row" =>
           k[2] \in DOMAIN catalog' /\ k[3] \in Nat /\ k[3] < catalog'[k[2]].next_row_id
  <2> HIDE DEF key, bumped
  <2>1. s.table \in DOMAIN catalog' /\ catalog'[s.table].next_row_id = reserved + 1
    BY <1>1, <1>5 DEF Put
  <2> QED
    BY <1>4, <1>9, <2>1
<1>12. ASSUME NEW k \in keys, NEW d \in Conn, d # c PROVE k \notin transaction[d].locked_rows
  <2>1. CASE k = key
    BY <1>1, <1>12, <2>1, FreeKey
  <2>2. CASE k = <<"row", s.table, reserved>>
    <3>1. k \notin DOMAIN row_locks
      BY <1>4, <2>2 DEF PoolInv, LocksBelow
    <3> QED
      BY <3>1 DEF PoolInv, LocksHeld
  <2> QED
    BY <1>12, <2>1, <2>2
<1> HIDE DEF done, keys
<1> QED
  BY <1>1, <1>2, <1>6, <1>8, <1>10, <1>11, <1>12, LockInv

-----------------------------------------------------------------------------
(* The specification *)

\* A catalog decoded from a file whose rows are in order starts the invariant.
LEMMA OpenedInv ==
    ASSUME NEW stored, Readable(stored),
           LET cat == decode_with_options(stored, Options).catalog
           IN catalog = cat /\ file = stored,
           row_locks = EmptyMap, next_transaction_id = 1,
           transaction = [c \in Conn |-> NoTransaction], call = [c \in Conn |-> Idle]
    PROVE  PoolInv
<1>1. Sound(catalog) /\ FileRows
  BY DecodeSound DEF FileRows
<1>2. Shapes /\ TransactionIds /\ LockedKeys /\ LocksHeld
  BY NoTransactionShape, IdleShape DEF Shapes, TransactionIds, LockedKeys, LocksHeld
<1>3. LocksBelow
  BY DEF LocksBelow, EmptyMap
<1>4. CatalogsSound /\ StagedBelow
  BY <1>1, NoTransactionShape DEF CatalogsSound, StagedBelow
<1> QED
  BY <1>1, <1>2, <1>3, <1>4 DEF PoolInv

\* The invariant holds when the pool is opened.
LEMMA PoolInit == Init => PoolInv
<1>1. Readable(StoredFile)
  BY StoredFileOpens DEF Readable, Written, WrittenTable
<1> QED
  BY <1>1, OpenedInv DEF Init, Opened

\* The invariant holds again after a restart.
LEMMA RestartInv ==
    ASSUME PoolInv, Restart
    PROVE  PoolInv'
<1> DEFINE cat == decode_with_options(file, Options).catalog
<1>1. /\ FileBacked /\ catalog' = cat /\ file' = file /\ row_locks' = EmptyMap
      /\ next_transaction_id' = 1
      /\ transaction' = [c \in Conn |-> NoTransaction] /\ call' = [c \in Conn |-> Idle]
  BY DEF Restart
<1>2. Readable(file)
  <2>1. Readable(encode(catalog)) /\ DOMAIN encode(catalog) = DOMAIN catalog
        /\ \A n \in DOMAIN catalog : DOMAIN encode(catalog)[n].rows = DOMAIN catalog[n].rows
    BY EncodeReadable DEF PoolInv, CatalogsSound
  <2> QED
    BY <1>1, <2>1 DEF PoolInv, FileRows, Readable
<1>3. Sound(cat) /\ DOMAIN cat = DOMAIN file
      /\ \A n \in DOMAIN file : DOMAIN cat[n].rows = DOMAIN file[n].rows
  BY <1>2, DecodeSound
<1> HIDE DEF cat
<1>4. FileRows'
  BY <1>1, <1>3 DEF FileRows
<1>5. Shapes' /\ TransactionIds' /\ LockedKeys' /\ LocksHeld'
  BY <1>1, NoTransactionShape, IdleShape DEF Shapes, TransactionIds, LockedKeys, LocksHeld
<1>6. LocksBelow'
  BY <1>1 DEF LocksBelow, EmptyMap
<1>7. CatalogsSound' /\ StagedBelow'
  BY <1>1, <1>3, NoTransactionShape DEF CatalogsSound, StagedBelow
<1> QED
  BY <1>4, <1>5, <1>6, <1>7 DEF PoolInv

\* Every step of the pool keeps the invariant.
LEMMA PoolStep == PoolInv /\ [Next]_vars => PoolInv'
<1> SUFFICES ASSUME PoolInv, [Next]_vars PROVE PoolInv'
  OBVIOUS
<1>1. CASE UNCHANGED vars
  <2>1. UNCHANGED shared /\ CallShapes(call')
    BY <1>1, ShapesSplit DEF vars, shared, PoolInv
  <2> QED
    BY <2>1, QuietInv
<1>2. CASE Restart
  BY <1>2, RestartInv
<1>3. ASSUME NEW c \in Conn, Step(c) PROVE PoolInv'
  BY <1>3, GetInv, DropInv, StartInv, WriteInv, RefusalInv, BeginInv, CommitInv, RollbackInv,
     DdlCheckInv, AutocommitInv, LockAndWriteInv, InsertStagedInv DEF Step
<1> QED
  BY <1>1, <1>2, <1>3 DEF Next

\* PoolInv is an invariant of the pool.
LEMMA PoolInvariant == Spec => []PoolInv
BY PoolInit, PoolStep, PTL DEF Spec

\* A transaction keeps every lock it was granted until it ends, for any number
\* of connections and transactions and whatever they execute.
THEOREM LocksAreHeld == Spec => []LocksHeld
<1>1. PoolInv => LocksHeld
  BY DEF PoolInv
<1> QED
  BY <1>1, PoolInvariant, PTL

\* Two open transactions never hold the same lock.
THEOREM LocksAreExclusive == Spec => []LocksExclusive
<1>1. PoolInv => LocksExclusive
  BY DEF PoolInv, LocksHeld, TransactionIds, LocksExclusive, Active
<1> QED
  BY <1>1, PoolInvariant, PTL

-----------------------------------------------------------------------------
(* Every lock is on its owner's list *)

\* Locks carry ids that were handed out, so never a later transaction's.
LockOwners == \A k \in DOMAIN row_locks : row_locks[k] \in 1..(next_transaction_id - 1)

\* What a step does to the locks and to its connection's transaction.
LEMMA LockSteps ==
    ASSUME PoolInv, NEW c \in Conn, Step(c)
    PROVE  \/ UNCHANGED <<row_locks, transaction, next_transaction_id>>
           \/ begin(c)
           \/ /\ transaction' = [transaction EXCEPT ![c] = NoTransaction]
              /\ row_locks' \in {row_locks, release_locks(row_locks, transaction[c])}
              /\ UNCHANGED next_transaction_id
           \/ \E staged, keys :
                 /\ Active(c) /\ Staged(c, staged, keys)
                 /\ row_locks' = Lock(row_locks, keys, transaction[c].id)
                 /\ UNCHANGED next_transaction_id
<1>1. CASE LockAndWrite(c)
  BY <1>1 DEF LockAndWrite
<1>2. CASE InsertStaged(c)
  BY <1>2 DEF InsertStaged
<1>3. CASE drop(c) \/ commit(c) \/ rollback(c)
  BY <1>3 DEF drop, commit, rollback
<1> QED
  BY <1>1, <1>2, <1>3 DEF Step, get, Start, WriteBinlog, WriteRedo, ControlError, DdlCheck,
     Autocommit, InsertRefused, ReadStaged

\* Locks have owners among the ids that were handed out.
LEMMA LockOwnersStep ==
    ASSUME PoolInv, LockOwners, NEW c \in Conn, Step(c)
    PROVE  LockOwners'
<1>1. next_transaction_id \in Nat \ {0}
  BY DEF PoolInv, TransactionIds
<1>2. CASE begin(c)
  <2>1. row_locks' = row_locks /\ next_transaction_id' = next_transaction_id + 1
    BY <1>2 DEF begin
  <2> QED
    BY <1>1, <2>1 DEF LockOwners
<1>3. CASE /\ row_locks' \in {row_locks, release_locks(row_locks, transaction[c])}
           /\ UNCHANGED next_transaction_id
  BY <1>3 DEF LockOwners, release_locks
<1>4. ASSUME NEW keys, Active(c), row_locks' = Lock(row_locks, keys, transaction[c].id),
             UNCHANGED next_transaction_id
      PROVE  LockOwners'
  <2>1. transaction[c].id \in 1..(next_transaction_id - 1)
    BY <1>1, <1>4 DEF Active, PoolInv, TransactionIds
  <2> QED
    BY <1>4, <2>1 DEF Lock, LockOwners
<1> QED
  BY <1>2, <1>3, <1>4, LockSteps

\* A lock is taken and recorded in one step, and leaves the list only when its
\* transaction ends.
LEMMA RecordedStep ==
    ASSUME PoolInv, LockOwners, LocksRecorded, NEW c \in Conn, Step(c)
    PROVE  LocksRecorded'
<1>0. Shapes /\ next_transaction_id \in Nat \ {0}
  BY DEF PoolInv, TransactionIds
<1>1. CASE UNCHANGED <<row_locks, transaction>>
  BY <1>1 DEF LocksRecorded
<1>2. CASE begin(c)
  <2>1. /\ row_locks' = row_locks /\ transaction'[c].id = next_transaction_id
        /\ \A d \in Conn : d # c => transaction'[d] = transaction[d]
    BY <1>0, <1>2 DEF begin, Shapes
  <2>2. \A k \in DOMAIN row_locks : row_locks[k] # next_transaction_id
    BY <1>0 DEF LockOwners
  <2> QED
    BY <2>1, <2>2 DEF LocksRecorded
<1>3. CASE /\ transaction' = [transaction EXCEPT ![c] = NoTransaction]
           /\ row_locks' \in {row_locks, release_locks(row_locks, transaction[c])}
  <2>1. /\ transaction'[c].id = 0
        /\ \A d \in Conn : d # c => transaction'[d] = transaction[d]
    BY <1>0, <1>3, NoTransactionShape DEF Shapes
  <2>2. \A k \in DOMAIN row_locks' : k \in DOMAIN row_locks /\ row_locks'[k] = row_locks[k]
    BY <1>3 DEF release_locks
  <2>3. \A k \in DOMAIN row_locks : row_locks[k] # 0
    BY <1>0 DEF LockOwners
  <2> QED
    BY <2>1, <2>2, <2>3 DEF LocksRecorded
<1>4. ASSUME NEW staged, NEW keys, Active(c), Staged(c, staged, keys),
             row_locks' = Lock(row_locks, keys, transaction[c].id)
      PROVE  LocksRecorded'
  <2>1. /\ transaction'[c].id = transaction[c].id
        /\ transaction'[c].locked_rows = transaction[c].locked_rows \cup keys
        /\ \A d \in Conn : d # c => transaction'[d] = transaction[d]
    BY <1>0, <1>4 DEF Staged, Shapes
  <2>2. /\ DOMAIN row_locks' = DOMAIN row_locks \cup keys
        /\ \A k \in keys : row_locks'[k] = transaction[c].id
        /\ \A k \in DOMAIN row_locks \ keys : row_locks'[k] = row_locks[k]
    BY <1>4 DEF Lock
  <2>3. \A d \in Conn : d # c => transaction[d].id # transaction[c].id
    BY <1>4 DEF Active, PoolInv, TransactionIds
  <2> QED
    BY <2>1, <2>2, <2>3 DEF LocksRecorded
<1> QED
  BY <1>1, <1>2, <1>3, <1>4, LockSteps

\* A lock that an open transaction holds is on its list, whichever statement it
\* took it for and however that statement ended, so that COMMIT, ROLLBACK and
\* Drop can release it (lock_statement_rows, release_locks).
THEOREM LocksAreRecorded == Spec => []LocksRecorded
<1>1. Init => LockOwners /\ LocksRecorded
  BY DEF Init, LockOwners, LocksRecorded, EmptyMap
<1>2. PoolInv /\ LockOwners /\ LocksRecorded /\ [Next]_vars => (LockOwners /\ LocksRecorded)'
  <2> SUFFICES ASSUME PoolInv, LockOwners, LocksRecorded, [Next]_vars
               PROVE  (LockOwners /\ LocksRecorded)'
    OBVIOUS
  <2>1. CASE UNCHANGED vars
    BY <2>1 DEF vars, LockOwners, LocksRecorded
  <2>2. CASE Restart
    BY <2>2 DEF Restart, EmptyMap, LockOwners, LocksRecorded
  <2> QED
    BY <2>1, <2>2, LockOwnersStep, RecordedStep DEF Next
<1> QED
  BY <1>1, <1>2, PoolInvariant, PTL DEF Spec

-----------------------------------------------------------------------------
(* Permits and bounds *)

\* Connections that are not checked out do nothing and hold the free permits.
Checkouts ==
    /\ open \subseteq Conn /\ permits = MaxConnections - Cardinality(open)
    /\ \A c \in Conn :
          /\ call[c].at \in {"idle", "execute", "ddl", "binlog", "redo"}
          /\ call[c].at = "idle" => call[c] = Idle
          /\ c \notin open => transaction[c] = NoTransaction /\ call[c] = Idle

\* A call that has started may still take an id: the bounds count those calls.
Begins == {c \in Conn : At(c, "execute", "Begin")}
Inserts(n) == {c \in Conn : At(c, "execute", "Insert") /\ call[c].stmt.table = n}

TransactionRoom ==
    /\ next_transaction_id + Cardinality(Begins) <= MaxTx + Cardinality(Conn)
    /\ LockOwners

Positive(cat) == \A n \in DOMAIN cat : cat[n].next_row_id # 0 /\ 0 \notin DOMAIN cat[n].rows
RowRoom ==
    /\ Positive(catalog) /\ \A c \in Conn : Positive(transaction[c].catalog)
    /\ \A n \in DOMAIN catalog :
          catalog[n].next_row_id + Cardinality(Inserts(n)) <= MaxRowId + 1 + Cardinality(Conn)

\* Only DDL gets to its second critical section.
DdlCalls == \A c \in Conn : call[c].at = "ddl" => is_ddl_statement(call[c].stmt)

BoundsInv == Checkouts /\ TransactionRoom /\ DdlCalls /\ RowRoom

\* The bounds leave room for the stored rows.
FileFits ==
    /\ IsFiniteSet(Conn) /\ Conn # {}
    /\ \A n \in DOMAIN StoredFile : DOMAIN StoredFile[n].rows \subseteq 1..MaxRowId

\* Where a step of a running call takes it: on, or to its end.
CallGoes(c) ==
    /\ \A d \in Conn : d # c => call'[d] = call[d]
    /\ call'[c] = Idle \/ call'[c].at \in {"ddl", "binlog", "redo"}

\* The end of execute_statement.
LEMMA ReturnsGoes ==
    ASSUME Shapes, NEW c \in Conn, NEW ok, Returns(c, ok) PROVE CallGoes(c)
<1> DEFINE r == [call[c] EXCEPT !.at = IF ok THEN "binlog" ELSE "redo", !.ok = ok]
<1>1. r.at \in {"binlog", "redo"}
  BY DEF Shapes
<1>2. call' = [call EXCEPT ![c] = r] \/ call' = [call EXCEPT ![c] = Idle]
  BY DEF Returns
<1> HIDE DEF r
<1> QED
  BY <1>1, <1>2 DEF Shapes, CallGoes

\* A step is a checkout, a drop, a start or a step of a running call, and
\* touches only its own connection's transaction.
LEMMA StepKinds ==
    ASSUME PoolInv, NEW c \in Conn, Step(c)
    PROVE  /\ \A d \in Conn : d # c => transaction'[d] = transaction[d]
           /\ \/ get(c) \/ drop(c) \/ \E s \in Statements : Start(c, s)
              \/ call[c].at # "idle" /\ CallGoes(c) /\ UNCHANGED <<permits, open>>
<1>0. Shapes
  BY DEF PoolInv
<1>1. \A d \in Conn : d # c => transaction'[d] = transaction[d]
  BY <1>0 DEF Step, get, drop, Start, WriteBinlog, WriteRedo, ControlError, begin, commit, rollback,
     DdlCheck, Autocommit, LockAndWrite, InsertRefused, InsertStaged, ReadStaged, Staged, Shapes
<1>2. CASE WriteBinlog(c)
  <2>1. PICK r : r = [call[c] EXCEPT !.at = "redo"]
    OBVIOUS
  <2>2. r.at = "redo"
    BY <1>0, <2>1 DEF Shapes
  <2>3. call' = [call EXCEPT ![c] = r] \/ call' = [call EXCEPT ![c] = Idle]
    BY <1>2, <2>1 DEF WriteBinlog
  <2>4. CallGoes(c)
    BY <1>0, <2>2, <2>3 DEF CallGoes, Shapes
  <2> QED
    BY <1>1, <1>2, <2>4 DEF WriteBinlog
<1>3. CASE WriteRedo(c)
  <2>1. call' = [call EXCEPT ![c] = Idle] /\ call[c].at = "redo" /\ UNCHANGED <<permits, open>>
    BY <1>3 DEF WriteRedo
  <2>2. CallGoes(c)
    BY <1>0, <2>1 DEF CallGoes, Shapes
  <2> QED
    BY <1>1, <2>1, <2>2
<1>4. CASE DdlCheck(c)
  <2>1. /\ call[c].at = "execute" /\ UNCHANGED <<permits, open>>
        /\ Returns(c, FALSE) \/ call' = [call EXCEPT ![c].at = "ddl"]
    BY <1>4 DEF DdlCheck
  <2>2. call' = [call EXCEPT ![c].at = "ddl"] => CallGoes(c)
    BY <1>0 DEF CallGoes, Shapes
  <2> QED
    BY <1>0, <1>1, <2>1, <2>2, ReturnsGoes
<1>5. CASE \/ ControlError(c) \/ begin(c) \/ commit(c) \/ rollback(c)
           \/ Autocommit(c) \/ LockAndWrite(c) \/ InsertRefused(c) \/ InsertStaged(c) \/ ReadStaged(c)
  <2>1. call[c].at # "idle" /\ UNCHANGED <<permits, open>> /\ \E ok : Returns(c, ok)
    BY <1>5 DEF ControlError, begin, commit, rollback, Autocommit, LockAndWrite, InsertRefused,
       InsertStaged, ReadStaged, At
  <2> QED
    BY <1>0, <1>1, <2>1, ReturnsGoes
<1> QED
  BY <1>1, <1>2, <1>3, <1>4, <1>5 DEF Step

\* A connection keeps its permit until it is dropped.
LEMMA CheckoutsStep ==
    ASSUME IsFiniteSet(Conn), PoolInv, Checkouts, NEW c \in Conn, Step(c) PROVE Checkouts'
<1>0. IsFiniteSet(open) /\ Cardinality(open) \in Nat /\ Shapes
  BY FS_Subset, FS_CardinalityType DEF Checkouts, PoolInv
<1>1. \A d \in Conn : d # c => transaction'[d] = transaction[d]
  BY StepKinds
<1>2. CASE get(c)
  <2>1. Cardinality(open \cup {c}) = Cardinality(open) + 1
    BY <1>0, <1>2, FS_AddElement DEF get
  <2> QED
    BY <1>0, <1>2, <2>1, PoolAssumption DEF get, Checkouts
<1>3. CASE drop(c)
  <2>1. Cardinality(open \ {c}) = Cardinality(open) - 1
    BY <1>0, <1>3, FS_RemoveElement DEF drop
  <2>2. transaction'[c] = NoTransaction /\ UNCHANGED call /\ open' = open \ {c}
        /\ permits' = permits + 1 /\ call[c].at = "idle"
    BY <1>0, <1>3 DEF drop, Shapes
  <2> QED
    BY <1>0, <1>1, <2>1, <2>2, PoolAssumption DEF Checkouts
<1>4. ASSUME NEW s \in Statements, Start(c, s) PROVE Checkouts'
  <2>1. PICK r : r = [at |-> "execute", stmt |-> s, ok |-> TRUE]
    OBVIOUS
  <2>2. call' = call \/ call' = [call EXCEPT ![c] = r]
    BY <1>4, <2>1 DEF Start
  <2>3. r.at = "execute" /\ c \in open /\ UNCHANGED <<permits, open, transaction>>
    BY <1>4, <2>1 DEF Start
  <2> QED
    BY <1>0, <2>2, <2>3 DEF Checkouts, Shapes
<1>5. CASE call[c].at # "idle" /\ CallGoes(c) /\ UNCHANGED <<permits, open>>
  <2>1. c \in open
    BY <1>5, IdleShape DEF Checkouts
  <2>2. call'[c] = Idle \/ call'[c].at \in {"ddl", "binlog", "redo"}
    BY <1>5 DEF CallGoes
  <2>3. \A d \in Conn : d # c => call'[d] = call[d]
    BY <1>5 DEF CallGoes
  <2>4. ASSUME NEW d \in Conn
        PROVE  /\ call'[d].at \in {"idle", "execute", "ddl", "binlog", "redo"}
               /\ call'[d].at = "idle" => call'[d] = Idle
               /\ d \notin open' => transaction'[d] = NoTransaction /\ call'[d] = Idle
    <3>1. CASE d = c
      BY <1>5, <2>1, <2>2, <3>1, IdleShape
    <3>2. CASE d # c
      BY <1>1, <1>5, <2>3, <3>2 DEF Checkouts
    <3> QED
      BY <3>1, <3>2
  <2> QED
    BY <1>5, <2>4 DEF Checkouts
<1> QED
  BY <1>2, <1>3, <1>4, <1>5, StepKinds

\* A smaller set of calls.
LEMMA FewerCalls ==
    ASSUME IsFiniteSet(Conn), NEW T, T \subseteq Conn, NEW S, S \subseteq T
    PROVE  /\ Cardinality(S) \in Nat /\ Cardinality(T) \in Nat /\ Cardinality(Conn) \in Nat
           /\ Cardinality(S) <= Cardinality(T) /\ Cardinality(T) <= Cardinality(Conn)
           /\ \A c \in T \ S : Cardinality(S) + 1 <= Cardinality(T)
<1>1. IsFiniteSet(T) /\ IsFiniteSet(S) /\ Cardinality(T) <= Cardinality(Conn)
      /\ Cardinality(S) <= Cardinality(T)
  BY FS_Subset
<1>2. Cardinality(S) \in Nat /\ Cardinality(T) \in Nat /\ Cardinality(Conn) \in Nat
  BY <1>1, FS_CardinalityType
<1>3. ASSUME NEW c \in T \ S PROVE Cardinality(S) + 1 <= Cardinality(T)
  <2>1. IsFiniteSet(T \ {c}) /\ Cardinality(T \ {c}) = Cardinality(T) - 1
    BY <1>1, FS_RemoveElement
  <2>2. S \subseteq T \ {c}
    BY <1>3
  <2>3. Cardinality(S) <= Cardinality(T \ {c})
    BY <2>1, <2>2, FS_Subset
  <2> QED
    BY <1>2, <2>1, <2>3
<1> QED
  BY <1>1, <1>2, <1>3

\* The calls that may still take an id, after a step.
LEMMA PendingStep ==
    ASSUME PoolInv, NEW c \in Conn, Step(c)
    PROVE  /\ \/ Begins' \subseteq Begins
              \/ UNCHANGED shared /\ next_transaction_id <= MaxTx
           /\ \A n : \/ Inserts(n)' \subseteq Inserts(n)
                     \/ UNCHANGED shared /\ (n \in DOMAIN catalog => catalog[n].next_row_id <= MaxRowId)
           /\ CallGoes(c) => c \notin Begins' /\ \A n : c \notin Inserts(n)'
<1>0. CallGoes(c) => c \notin Begins' /\ \A n : c \notin Inserts(n)'
  BY IdleShape DEF CallGoes, Begins, Inserts, At
<1>1. CASE UNCHANGED call
  BY <1>0, <1>1 DEF Begins, Inserts, At
<1>2. ASSUME NEW s \in Statements, Start(c, s), call' # call
      PROVE  /\ Begins' \subseteq Begins \/ (UNCHANGED shared /\ next_transaction_id <= MaxTx)
             /\ \A n : \/ Inserts(n)' \subseteq Inserts(n)
                       \/ UNCHANGED shared /\ (n \in DOMAIN catalog => catalog[n].next_row_id <= MaxRowId)
  <2>1. call' = [call EXCEPT ![c] = [at |-> "execute", stmt |-> s, ok |-> TRUE]]
    BY <1>2 DEF Start
  <2>2. call'[c].stmt = s /\ \A d \in Conn : d # c => call'[d] = call[d]
    BY <2>1 DEF PoolInv, Shapes
  <2>3. UNCHANGED shared
    BY <1>2 DEF Start, shared
  <2>4. /\ s.op = "Begin" => next_transaction_id <= MaxTx
        /\ (s.op = "Insert" /\ s.table \in DOMAIN catalog) => catalog[s.table].next_row_id <= MaxRowId
    BY <1>2 DEF Start, Room
  <2>5. s.op # "Begin" => Begins' \subseteq Begins
    BY <2>2 DEF Begins, At
  <2>6. \A n : ~(s.op = "Insert" /\ s.table = n) => Inserts(n)' \subseteq Inserts(n)
    BY <2>2 DEF Inserts, At
  <2> QED
    BY <2>3, <2>4, <2>5, <2>6
<1>3. CASE CallGoes(c)
  <2>1. \A d \in Conn : d # c => call'[d] = call[d]
    BY <1>3 DEF CallGoes
  <2>2. Begins' \subseteq Begins
    BY <1>0, <1>3, <2>1 DEF Begins, At
  <2>3. \A n : Inserts(n)' \subseteq Inserts(n)
    BY <1>0, <1>3, <2>1 DEF Inserts, At
  <2> QED
    BY <1>0, <2>2, <2>3
<1> QED
  BY <1>0, <1>1, <1>2, <1>3, StepKinds DEF get, drop

\* Transaction ids stay within their bound, and locks have owners among them.
LEMMA TransactionRoomStep ==
    ASSUME IsFiniteSet(Conn), PoolInv, TransactionRoom, NEW c \in Conn, Step(c)
    PROVE  TransactionRoom'
<1>0. PICK b, e, m : b = Cardinality(Begins) /\ e = Cardinality(Begins') /\ m = Cardinality(Conn)
  OBVIOUS
<1>1. next_transaction_id \in Nat \ {0} /\ MaxTx \in Nat
  BY PoolAssumption DEF PoolInv, TransactionIds
<1>2. Begins \subseteq Conn /\ Begins' \subseteq Conn
  BY DEF Begins
<1>3. b \in Nat /\ e \in Nat /\ m \in Nat /\ e <= m /\ next_transaction_id + b <= MaxTx + m
  BY <1>0, <1>2, FewerCalls DEF TransactionRoom
<1>4. next_transaction_id' + e <= MaxTx + m
  <2>1. CASE begin(c)
    <3>1. c \in Begins /\ next_transaction_id' = next_transaction_id + 1
      BY <2>1 DEF begin, Begins
    <3>2. CallGoes(c)
      BY <2>1, ReturnsGoes DEF begin, PoolInv
    <3>3. Begins' \subseteq Begins /\ c \notin Begins'
      BY <3>1, <3>2, PendingStep, <1>1 DEF shared
    <3>4. e + 1 <= b
      BY <1>0, <1>2, <3>1, <3>3, FewerCalls
    <3> QED
      BY <1>1, <1>3, <3>1, <3>4
  <2>2. CASE ~begin(c)
    <3>1. next_transaction_id' = next_transaction_id
      BY <2>2 DEF Step, get, drop, Start, WriteBinlog, WriteRedo, ControlError, commit, rollback,
         DdlCheck, Autocommit, LockAndWrite, InsertRefused, InsertStaged, ReadStaged
    <3>2. CASE Begins' \subseteq Begins
      <4>1. e <= b
        BY <1>0, <1>2, <3>2, FewerCalls
      <4> QED
        BY <1>1, <1>3, <3>1, <4>1
    <3>3. CASE next_transaction_id <= MaxTx
      BY <1>1, <1>3, <3>1, <3>3
    <3> QED
      BY <3>2, <3>3, PendingStep
  <2> QED
    BY <2>1, <2>2
<1>5. LockOwners'
  BY LockOwnersStep DEF TransactionRoom
<1> QED
  BY <1>0, <1>4, <1>5 DEF TransactionRoom

\* What a step does to one committed table's next_row_id: it takes one id, for
\* an INSERT that has then returned, or none; a new table starts at 1.
NextIdStep(c, n) ==
    IF n \in DOMAIN catalog
    THEN \/ catalog'[n].next_row_id = catalog[n].next_row_id
         \/ /\ catalog'[n].next_row_id = catalog[n].next_row_id + 1
            /\ c \in Inserts(n) /\ CallGoes(c)
    ELSE catalog'[n].next_row_id = 1

\* A statement on positive row ids.
LEMMA ExecutePositive ==
    ASSUME NEW cat, Sound(cat), Positive(cat), NEW s
    PROVE  LET new == execute_statement(cat, s, Options).catalog
           IN /\ Positive(new)
              /\ \A n \in DOMAIN new :
                    IF n \in DOMAIN cat
                    THEN \/ new[n].next_row_id = cat[n].next_row_id
                         \/ s.op = "Insert" /\ n = s.table
                            /\ new[n].next_row_id = cat[n].next_row_id + 1
                    ELSE new[n].next_row_id = 1
<1>1. PICK new : new = execute_statement(cat, s, Options).catalog
  OBVIOUS
<1>2. /\ \A n \in DOMAIN cat : n \in DOMAIN new /\ Steps(cat[n], new[n], s.op = "Insert")
      /\ \A n \in DOMAIN cat : n # s.table => new[n] = cat[n]
  BY <1>1, ExecuteSteps
<1>3. ASSUME NEW n \in DOMAIN new, n \in DOMAIN cat
      PROVE  /\ new[n].next_row_id # 0 /\ 0 \notin DOMAIN new[n].rows
             /\ \/ new[n].next_row_id = cat[n].next_row_id
                \/ s.op = "Insert" /\ n = s.table /\ new[n].next_row_id = cat[n].next_row_id + 1
  <2>1. PICK t, u : t = cat[n] /\ u = new[n]
    OBVIOUS
  <2>2. t.next_row_id \in Nat \ {0} /\ 0 \notin DOMAIN t.rows
    BY <1>3, <2>1 DEF Sound, SoundTable, RowIds, Positive
  <2>3. Steps(t, u, s.op = "Insert") /\ (n # s.table => u = t)
    BY <1>2, <1>3, <2>1
  <2>4. CASE s.op = "Insert"
    BY <2>1, <2>2, <2>3, <2>4 DEF Steps
  <2>5. CASE s.op # "Insert"
    BY <2>1, <2>2, <2>3, <2>5 DEF Steps
  <2> QED
    BY <2>4, <2>5
<1>4. ASSUME NEW n \in DOMAIN new, n \notin DOMAIN cat
      PROVE  new[n].next_row_id = 1 /\ DOMAIN new[n].rows = {}
  <2>1. \/ new = cat \/ new = Put(cat, s.table, NewTable(s.columns))
        \/ /\ s.table \in DOMAIN cat
           /\ new = Put(cat, s.table, OnTable(cat[s.table], s, Options).table)
    BY <1>1 DEF execute_statement
  <2>2. new[n] = NewTable(s.columns)
    BY <1>4, <2>1 DEF Put
  <2> QED
    BY <2>2 DEF NewTable, EmptyMap
<1> QED
  BY <1>1, <1>3, <1>4 DEF Positive

\* COMMIT takes no id: a staged table is never ahead.
LEMMA MergePositive ==
    ASSUME PoolInv, RowRoom, NEW c \in Conn
    PROVE  /\ Positive(Merged(c).catalog) /\ DOMAIN Merged(c).catalog = DOMAIN catalog
           /\ \A n \in DOMAIN catalog :
                 Merged(c).catalog[n].next_row_id = catalog[n].next_row_id
<1>1. PICK base, staged, locked : /\ base = catalog /\ staged = transaction[c].catalog
                                  /\ locked = transaction[c].locked_rows
  OBVIOUS
<1>2. PICK new : new = Merged(c).catalog
  OBVIOUS
<1>3. /\ Sound(base) /\ Sound(staged) /\ Positive(base) /\ Positive(staged)
      /\ \A n \in DOMAIN staged :
            n \in DOMAIN base /\ staged[n].next_row_id <= base[n].next_row_id
  BY <1>1 DEF PoolInv, CatalogsSound, StagedBelow, RowRoom
<1> DEFINE merged(n) == MergedTable(base[n], staged[n], LockedIds(locked, n))
           both == DOMAIN base \cap DOMAIN staged
<1>4. /\ DOMAIN new = DOMAIN base \cup DOMAIN staged
      /\ \A n \in both : new[n] = rebuild_indexes(merged(n), DefaultOptions)
      /\ \A n \in DOMAIN base \ both : new[n] = base[n]
  BY <1>1, <1>2 DEF Merged, merge_catalogs, Rebuilt
<1>5. ASSUME NEW n \in both
      PROVE  new[n].next_row_id = base[n].next_row_id /\ 0 \notin DOMAIN new[n].rows
  <2>1. PICK t, u, ids : t = base[n] /\ u = staged[n] /\ ids = LockedIds(locked, n)
    OBVIOUS
  <2>2. /\ SoundTable(t) /\ SoundTable(u) /\ u.next_row_id <= t.next_row_id
        /\ 0 \notin DOMAIN t.rows /\ 0 \notin DOMAIN u.rows
    BY <1>3, <2>1 DEF Sound, Positive
  <2>3. PICK m : m = MergedTable(t, u, ids)
    OBVIOUS
  <2>4. /\ DOMAIN m = Fields /\ m.rows = MergedRows(t, u, ids)
        /\ m.next_row_id = t.next_row_id
    BY <2>2, <2>3 DEF MergedTable, SoundTable, RowIds, Fields
  <2>5. DOMAIN MergedRows(t, u, ids) \subseteq DOMAIN t.rows \cup DOMAIN u.rows
    BY DEF MergedRows
  <2>6. new[n] = rebuild_indexes(m, DefaultOptions)
    BY <1>4, <2>1, <2>3
  <2>7. new[n].rows = m.rows /\ new[n].next_row_id = m.next_row_id
    BY <2>4, <2>6 DEF rebuild_indexes, Fields
  <2> QED
    BY <2>1, <2>2, <2>4, <2>5, <2>7
<1> HIDE DEF merged
<1>6. DOMAIN new = DOMAIN base /\ both = DOMAIN staged
  BY <1>3, <1>4
<1>7. \A n \in DOMAIN base : /\ new[n].next_row_id = base[n].next_row_id
                             /\ 0 \notin DOMAIN new[n].rows
  BY <1>3, <1>4, <1>5 DEF Positive
<1>8. Positive(new)
  BY <1>3, <1>6, <1>7 DEF Positive
<1> QED
  BY <1>1, <1>2, <1>6, <1>7, <1>8

\* Only DdlCheck sends a call to its second critical section.
LEMMA DdlCallsStep ==
    ASSUME PoolInv, DdlCalls, NEW c \in Conn, Step(c) PROVE DdlCalls'
<1>0. Shapes
  BY DEF PoolInv
<1>1. CASE UNCHANGED call
  BY <1>1 DEF DdlCalls
<1>2. ASSUME NEW r, call' = [call EXCEPT ![c] = r], r.at # "ddl" \/ is_ddl_statement(r.stmt)
      PROVE  DdlCalls'
  BY <1>0, <1>2 DEF DdlCalls, Shapes
<1>3. ASSUME NEW ok, Returns(c, ok) PROVE DdlCalls'
  <2>1. PICK r : r = [call[c] EXCEPT !.at = IF ok THEN "binlog" ELSE "redo", !.ok = ok]
    OBVIOUS
  <2>2. r.at # "ddl"
    BY <1>0, <2>1 DEF Shapes
  <2>3. call' = [call EXCEPT ![c] = r] \/ call' = [call EXCEPT ![c] = Idle]
    BY <1>3, <2>1 DEF Returns
  <2> QED
    BY <1>2, <2>2, <2>3, IdleShape
<1>4. CASE DdlCheck(c)
  <2>1. PICK r : r = [call[c] EXCEPT !.at = "ddl"]
    OBVIOUS
  <2>2. r.stmt = call[c].stmt
    BY <1>0, <2>1 DEF Shapes
  <2>3. is_ddl_statement(call[c].stmt) /\ (Returns(c, FALSE) \/ call' = [call EXCEPT ![c] = r])
    BY <1>0, <1>4, <2>1 DEF DdlCheck, Shapes
  <2> QED
    BY <1>2, <1>3, <2>2, <2>3
<1>5. ASSUME NEW s \in Statements, Start(c, s) PROVE DdlCalls'
  <2>1. PICK r : r = [at |-> "execute", stmt |-> s, ok |-> TRUE]
    OBVIOUS
  <2>2. r.at # "ddl" /\ (call' = call \/ call' = [call EXCEPT ![c] = r])
    BY <1>5, <2>1 DEF Start
  <2> QED
    BY <1>1, <1>2, <2>2
<1>6. CASE WriteBinlog(c) \/ WriteRedo(c)
  <2>1. PICK r : r = [call[c] EXCEPT !.at = "redo"]
    OBVIOUS
  <2>2. r.at # "ddl"
    BY <1>0, <2>1 DEF Shapes
  <2>3. call' = [call EXCEPT ![c] = r] \/ call' = [call EXCEPT ![c] = Idle]
    BY <1>6, <2>1 DEF WriteBinlog, WriteRedo
  <2> QED
    BY <1>2, <2>2, <2>3, IdleShape
<1>7. CASE \/ ControlError(c) \/ begin(c) \/ commit(c) \/ rollback(c)
           \/ Autocommit(c) \/ LockAndWrite(c) \/ InsertRefused(c) \/ InsertStaged(c) \/ ReadStaged(c)
  <2>1. \E ok : Returns(c, ok)
    BY <1>7 DEF ControlError, begin, commit, rollback, Autocommit, LockAndWrite, InsertRefused,
       InsertStaged, ReadStaged
  <2> QED
    BY <1>3, <2>1
<1> QED
  BY <1>1, <1>4, <1>5, <1>6, <1>7 DEF Step, get, drop

\* The row ids a step takes, in the committed and in the staged tables.
IdsMove(c) ==
    /\ Positive(catalog') /\ \A d \in Conn : Positive(transaction'[d].catalog)
    /\ \A n \in DOMAIN catalog' : NextIdStep(c, n)

\* A connection without a transaction has no table.
LEMMA NoTransactionPositive == Positive(NoTransaction.catalog)
BY DEF NoTransaction, EmptyCatalog, EmptyMap, Positive

\* COMMIT, saved or not.
LEMMA CommitIds ==
    ASSUME PoolInv, RowRoom, NEW c \in Conn, commit(c) PROVE IdsMove(c)
<1>1. catalog' = catalog \/ catalog' = Merged(c).catalog
  BY DEF commit
<1>2. transaction'[c] = NoTransaction /\ \A d \in Conn : d # c => transaction'[d] = transaction[d]
  BY DEF commit, PoolInv, Shapes
<1>3. \A d \in Conn : Positive(transaction'[d].catalog)
  BY <1>2, NoTransactionPositive DEF RowRoom
<1>4. PICK new : new = Merged(c).catalog
  OBVIOUS
<1>5. Positive(new) /\ DOMAIN new = DOMAIN catalog
      /\ \A n \in DOMAIN catalog : new[n].next_row_id = catalog[n].next_row_id
  BY <1>4, MergePositive
<1> QED
  BY <1>1, <1>3, <1>4, <1>5 DEF IdsMove, RowRoom, NextIdStep

\* A statement outside a transaction.
LEMMA AutocommitIds ==
    ASSUME PoolInv, RowRoom, DdlCalls, NEW c \in Conn, Autocommit(c) PROVE IdsMove(c)
<1>1. PICK s, new : s = call[c].stmt /\ new = execute_statement(catalog, s, Options).catalog
  OBVIOUS
<1>2. /\ catalog' = catalog \/ catalog' = new
      /\ call[c].at = "ddl" \/ call[c].at = "execute"
      /\ \E ok : Returns(c, ok)
      /\ UNCHANGED transaction
  BY <1>1 DEF Autocommit
<1>3. CallGoes(c)
  BY <1>2, ReturnsGoes DEF PoolInv
<1>4. ASSUME s.op = "Insert" PROVE c \in Inserts(s.table)
  <2>1. call[c].at = "execute"
    BY <1>1, <1>2, <1>4 DEF DdlCalls, is_ddl_statement
  <2> QED
    BY <1>1, <1>4, <2>1 DEF Inserts, At
<1>5. /\ Positive(new)
      /\ \A n \in DOMAIN new :
            IF n \in DOMAIN catalog
            THEN \/ new[n].next_row_id = catalog[n].next_row_id
                 \/ s.op = "Insert" /\ n = s.table
                    /\ new[n].next_row_id = catalog[n].next_row_id + 1
            ELSE new[n].next_row_id = 1
  <2>1. Sound(catalog) /\ Positive(catalog)
    BY DEF PoolInv, CatalogsSound, RowRoom
  <2> QED
    BY <1>1, <2>1, ExecutePositive
<1>6. Positive(catalog') /\ \A d \in Conn : Positive(transaction'[d].catalog)
  BY <1>2, <1>5 DEF RowRoom
<1>7. \A n \in DOMAIN catalog' : NextIdStep(c, n)
  BY <1>2, <1>3, <1>4, <1>5 DEF NextIdStep
<1> QED
  BY <1>6, <1>7 DEF IdsMove

\* UPDATE and DELETE in a transaction.
LEMMA LockAndWriteIds ==
    ASSUME PoolInv, RowRoom, NEW c \in Conn, LockAndWrite(c) PROVE IdsMove(c)
<1>1. PICK s, old, new : /\ s = call[c].stmt /\ old = transaction[c].catalog
                         /\ new = execute_statement(old, s, Options).catalog
  OBVIOUS
<1>2. Positive(new) /\ Positive(old)
  BY <1>1, ExecutePositive DEF PoolInv, CatalogsSound, RowRoom
<1>3. UNCHANGED catalog /\ \E keys : Staged(c, new, keys) \/ Staged(c, old, keys)
  BY <1>1 DEF LockAndWrite
<1>4. PICK staged, keys : Staged(c, staged, keys) /\ Positive(staged)
  BY <1>2, <1>3
<1>5. transaction'[c].catalog = staged /\ \A d \in Conn : d # c => transaction'[d] = transaction[d]
  BY <1>4 DEF Staged, PoolInv, Shapes
<1> QED
  BY <1>3, <1>4, <1>5 DEF IdsMove, RowRoom, NextIdStep

\* INSERT in a transaction: the reserved id is the one the committed table loses.
LEMMA InsertStagedIds ==
    ASSUME PoolInv, RowRoom, NEW c \in Conn, InsertStaged(c) PROVE IdsMove(c)
<1>1. PICK s, old, mine, reserved :
          /\ s = call[c].stmt /\ old = transaction[c].catalog
          /\ mine = old[s.table] /\ reserved = catalog[s.table].next_row_id
  OBVIOUS
<1>2. PICK ready, bumped :
          /\ ready = [mine EXCEPT !.next_row_id = IF @ < reserved THEN reserved ELSE @]
          /\ bumped = [catalog[s.table] EXCEPT !.next_row_id = reserved + 1]
  OBVIOUS
<1>3. PICK begun, new : /\ begun = Put(old, s.table, ready)
                        /\ new = execute_statement(begun, s, Options).catalog
  OBVIOUS
<1>4. /\ At(c, "execute", "Insert") /\ s.table \in DOMAIN old /\ s.table \in DOMAIN catalog
      /\ catalog' = Put(catalog, s.table, bumped)
      /\ \E keys : Staged(c, new, keys)
      /\ \E ok : Returns(c, ok)
  BY <1>1, <1>2, <1>3 DEF InsertStaged, reserve_insert_row_id
<1>5. /\ Sound(old) /\ Positive(old) /\ SoundTable(mine) /\ SoundTable(catalog[s.table])
      /\ Positive(catalog) /\ mine.next_row_id <= reserved
  BY <1>1, <1>4 DEF PoolInv, CatalogsSound, Sound, StagedBelow, RowRoom
<1>6. reserved \in Nat \ {0} /\ mine.next_row_id \in Nat \ {0} /\ 0 \notin DOMAIN mine.rows
      /\ 0 \notin DOMAIN catalog[s.table].rows
  BY <1>1, <1>4, <1>5 DEF SoundTable, RowIds, Positive
<1>7. bumped.next_row_id = reserved + 1 /\ bumped.rows = catalog[s.table].rows
  BY <1>2, <1>5 DEF SoundTable, Fields
<1>8. SoundTable(ready) /\ ready.next_row_id = reserved /\ ready.rows = mine.rows
  <2>1. (IF mine.next_row_id < reserved THEN reserved ELSE mine.next_row_id) = reserved
    BY <1>5, <1>6
  <2>2. ready = [mine EXCEPT !.next_row_id = reserved]
    BY <1>2, <2>1
  <2> QED
    BY <1>5, <1>6, <2>2, SkipSound
<1>9. Sound(begun) /\ Positive(begun)
  BY <1>3, <1>4, <1>5, <1>6, <1>8 DEF Put, Sound, Positive
<1>10. Positive(new)
  BY <1>3, <1>9, ExecutePositive
<1>11. \A d \in Conn : Positive(transaction'[d].catalog)
  <2>1. transaction'[c].catalog = new /\ \A d \in Conn : d # c => transaction'[d] = transaction[d]
    BY <1>4 DEF Staged, PoolInv, Shapes
  <2> QED
    BY <1>10, <2>1 DEF RowRoom
<1>12. /\ DOMAIN catalog' = DOMAIN catalog /\ catalog'[s.table] = bumped
       /\ \A n \in DOMAIN catalog : n # s.table => catalog'[n] = catalog[n]
  BY <1>4 DEF Put
<1>13. Positive(catalog')
  BY <1>5, <1>6, <1>7, <1>12 DEF Positive
<1>14. c \in Inserts(s.table) /\ CallGoes(c)
  BY <1>1, <1>4, ReturnsGoes DEF Inserts, PoolInv
<1>15. \A n \in DOMAIN catalog' : NextIdStep(c, n)
  BY <1>1, <1>7, <1>12, <1>14 DEF NextIdStep
<1> QED
  BY <1>11, <1>13, <1>15 DEF IdsMove

\* Every step: at most one id, for an INSERT that has then returned.
LEMMA StepIds ==
    ASSUME PoolInv, RowRoom, DdlCalls, NEW c \in Conn, Step(c) PROVE IdsMove(c)
<1>1. CASE /\ catalog' = catalog
           /\ \A d \in Conn : \/ transaction'[d] = transaction[d] \/ transaction'[d] = NoTransaction
                              \/ transaction'[d].catalog = catalog
  BY <1>1, NoTransactionPositive DEF IdsMove, RowRoom, NextIdStep
<1>2. CASE begin(c)
  <2>1. /\ catalog' = catalog /\ transaction'[c].catalog = catalog
        /\ \A d \in Conn : d # c => transaction'[d] = transaction[d]
    BY <1>2 DEF begin, PoolInv, Shapes
  <2> QED
    BY <1>1, <2>1
<1>3. CASE rollback(c) \/ drop(c)
  <2>1. /\ catalog' = catalog /\ transaction'[c] = NoTransaction
        /\ \A d \in Conn : d # c => transaction'[d] = transaction[d]
    BY <1>3 DEF rollback, drop, PoolInv, Shapes
  <2> QED
    BY <1>1, <2>1
<1>4. CASE UNCHANGED <<catalog, transaction>>
  BY <1>1, <1>4
<1> QED
  BY <1>2, <1>3, <1>4, CommitIds, AutocommitIds, LockAndWriteIds, InsertStagedIds
     DEF Step, get, Start, WriteBinlog, WriteRedo, ControlError, DdlCheck, InsertRefused, ReadStaged

\* Row ids stay within their bound.
LEMMA RowRoomStep ==
    ASSUME IsFiniteSet(Conn), PoolInv, RowRoom, DdlCalls, NEW c \in Conn, Step(c)
    PROVE  RowRoom'
<1>1. IdsMove(c)
  BY StepIds
<1>2. ASSUME NEW n \in DOMAIN catalog'
      PROVE  catalog'[n].next_row_id + Cardinality(Inserts(n)') <= MaxRowId + 1 + Cardinality(Conn)
  <2>0. PICK old, new, b, e, m :
            /\ old = catalog[n].next_row_id /\ new = catalog'[n].next_row_id
            /\ b = Cardinality(Inserts(n)) /\ e = Cardinality(Inserts(n)') /\ m = Cardinality(Conn)
    OBVIOUS
  <2>1. Inserts(n) \subseteq Conn /\ Inserts(n)' \subseteq Conn
    BY DEF Inserts
  <2>2. b \in Nat /\ e \in Nat /\ m \in Nat /\ e <= m /\ MaxRowId \in Nat
    BY <2>0, <2>1, FewerCalls, PoolAssumption
  <2>3. NextIdStep(c, n)
    BY <1>1 DEF IdsMove
  <2>4. CASE n \notin DOMAIN catalog
    BY <2>0, <2>2, <2>3, <2>4 DEF NextIdStep
  <2>5. CASE n \in DOMAIN catalog
    <3>1. old \in Nat /\ old + b <= MaxRowId + 1 + m
      BY <2>0, <2>5 DEF PoolInv, CatalogsSound, Sound, SoundTable, RowIds, RowRoom
    <3>2. CASE UNCHANGED shared /\ old <= MaxRowId
      <4>1. new = old
        BY <2>0, <3>2 DEF shared
      <4> QED
        BY <2>0, <2>2, <3>1, <3>2, <4>1
    <3>3. CASE Inserts(n)' \subseteq Inserts(n)
      <4>1. e <= b
        BY <2>0, <2>1, <3>3, FewerCalls
      <4>2. CASE new = old
        BY <2>0, <2>2, <3>1, <4>1, <4>2
      <4>3. CASE new = old + 1 /\ c \in Inserts(n) /\ CallGoes(c)
        <5>1. c \notin Inserts(n)'
          BY <4>3, PendingStep
        <5>2. e + 1 <= b
          BY <2>0, <2>1, <3>3, <4>3, <5>1, FewerCalls
        <5> QED
          BY <2>0, <2>2, <3>1, <4>3, <5>2
      <4> QED
        BY <2>0, <2>3, <2>5, <4>2, <4>3 DEF NextIdStep
    <3>4. \/ Inserts(n)' \subseteq Inserts(n) \/ (UNCHANGED shared /\ old <= MaxRowId)
      <4>1. \A k : \/ Inserts(k)' \subseteq Inserts(k)
                   \/ UNCHANGED shared /\ (k \in DOMAIN catalog => catalog[k].next_row_id <= MaxRowId)
        BY PendingStep
      <4> QED
        BY <2>0, <2>5, <4>1
    <3> QED
      BY <3>2, <3>3, <3>4
  <2> QED
    BY <2>4, <2>5
<1> QED
  BY <1>1, <1>2 DEF RowRoom, IdsMove

\* A catalog opened from a file, with nobody connected yet.
LEMMA OpenedBounds ==
    ASSUME IsFiniteSet(Conn), Conn # {}, NEW stored, Readable(stored), NEW cat,
           cat = decode_with_options(stored, Options).catalog,
           \A n \in DOMAIN stored : \E m \in Nat \ {0} :
               /\ m <= MaxRowId + 1 + Cardinality(Conn)
               /\ DOMAIN stored[n].rows \subseteq 1..(m - 1),
           NEW calls, calls = [c \in Conn |-> Idle]
    PROVE  /\ Positive(cat)
           /\ \A n \in DOMAIN cat : cat[n].next_row_id <= MaxRowId + 1 + Cardinality(Conn)
           /\ Cardinality(Conn) \in Nat \ {0} /\ Cardinality({}) = 0
           /\ \A c \in Conn : calls[c].at = "idle"
<1>1. Cardinality(Conn) \in Nat /\ Cardinality(Conn) # 0 /\ Cardinality({}) = 0
  BY FS_CardinalityType, FS_EmptySet
<1>2. DOMAIN cat = DOMAIN stored /\ \A n \in DOMAIN stored : DOMAIN cat[n].rows = DOMAIN stored[n].rows
  BY DecodeSound
<1>3. ASSUME NEW n \in DOMAIN cat
      PROVE  /\ cat[n].next_row_id # 0 /\ 0 \notin DOMAIN cat[n].rows
             /\ cat[n].next_row_id <= MaxRowId + 1 + Cardinality(Conn)
  <2>1. PICK m \in Nat \ {0} : /\ m <= MaxRowId + 1 + Cardinality(Conn)
                               /\ DOMAIN stored[n].rows \subseteq 1..(m - 1)
    BY <1>2
  <2>2. cat[n].next_row_id \in 1..m
    BY <1>2, <2>1, DecodeNextId
  <2>3. 0 \notin DOMAIN cat[n].rows
    BY <1>2, <2>1
  <2> QED
    BY <1>1, <2>1, <2>2, <2>3, PoolAssumption
<1> QED
  BY <1>1, <1>3, IdleShape DEF Positive

\* The bounds hold when the pool is opened.
LEMMA BoundsInit ==
    ASSUME FileFits, Init PROVE BoundsInv
<1>1. Readable(StoredFile) /\ IsFiniteSet(Conn) /\ Conn # {}
  BY StoredFileOpens DEF Readable, Written, WrittenTable, FileFits
<1>2. Cardinality(Conn) \in Nat /\ MaxRowId \in Nat
  BY <1>1, FS_CardinalityType, PoolAssumption
<1>3. ASSUME NEW n \in DOMAIN StoredFile
      PROVE  \E m \in Nat \ {0} : /\ m <= MaxRowId + 1 + Cardinality(Conn)
                                  /\ DOMAIN StoredFile[n].rows \subseteq 1..(m - 1)
  <2>1. /\ MaxRowId + 1 \in Nat \ {0} /\ MaxRowId + 1 <= MaxRowId + 1 + Cardinality(Conn)
        /\ DOMAIN StoredFile[n].rows \subseteq 1..((MaxRowId + 1) - 1)
    BY <1>2 DEF FileFits
  <2> QED
    BY <2>1
<1>4. /\ Positive(catalog)
      /\ \A n \in DOMAIN catalog : catalog[n].next_row_id <= MaxRowId + 1 + Cardinality(Conn)
      /\ Cardinality(Conn) \in Nat \ {0} /\ Cardinality({}) = 0
      /\ \A c \in Conn : call[c].at = "idle"
  BY <1>1, <1>3, OpenedBounds DEF Init, Opened
<1>5. Begins = {} /\ \A n : Inserts(n) = {}
  BY <1>4 DEF Begins, Inserts, At
<1>6. Checkouts
  BY <1>4, PoolAssumption, IdleShape DEF Init, Checkouts
<1>7. TransactionRoom
  <2>1. next_transaction_id = 1 /\ DOMAIN row_locks = {}
    BY DEF Init, EmptyMap
  <2> QED
    BY <1>4, <1>5, <2>1, PoolAssumption DEF TransactionRoom, LockOwners
<1>8. Sound(catalog)
  BY PoolInit DEF PoolInv, CatalogsSound
<1>9. RowRoom
  <2>1. \A c \in Conn : Positive(transaction[c].catalog)
    BY NoTransactionPositive DEF Init
  <2>2. \A n \in DOMAIN catalog : catalog[n].next_row_id \in Nat
    BY <1>8 DEF Sound, SoundTable, RowIds
  <2>3. \A n \in DOMAIN catalog :
            catalog[n].next_row_id + Cardinality(Inserts(n)) <= MaxRowId + 1 + Cardinality(Conn)
    <3> TAKE n \in DOMAIN catalog
    <3>1. Cardinality(Inserts(n)) = 0
      BY <1>4, <1>5
    <3> QED
      BY <1>2, <1>4, <2>2, <3>1
  <2> QED
    BY <1>4, <2>1, <2>3 DEF RowRoom
<1>10. DdlCalls
  BY <1>4 DEF DdlCalls
<1> QED
  BY <1>6, <1>7, <1>9, <1>10 DEF BoundsInv

\* A restart finds no more row ids than there were.
LEMMA BoundsRestart ==
    ASSUME IsFiniteSet(Conn), Conn # {}, PoolInv, BoundsInv, Restart PROVE BoundsInv'
<1>1. PICK cat : cat = decode_with_options(file, Options).catalog
  OBVIOUS
<1>2. /\ FileBacked /\ catalog' = cat /\ row_locks' = EmptyMap /\ next_transaction_id' = 1
      /\ permits' = MaxConnections /\ open' = {}
      /\ transaction' = [c \in Conn |-> NoTransaction] /\ call' = [c \in Conn |-> Idle]
  BY <1>1 DEF Restart
<1>3. /\ DOMAIN file = DOMAIN catalog
      /\ \A n \in DOMAIN file : DOMAIN file[n].rows = DOMAIN catalog[n].rows
  BY <1>2 DEF PoolInv, FileRows
<1>4. Readable(file)
  <2>1. Readable(encode(catalog)) /\ DOMAIN encode(catalog) = DOMAIN catalog
        /\ \A n \in DOMAIN catalog : DOMAIN encode(catalog)[n].rows = DOMAIN catalog[n].rows
    BY EncodeReadable DEF PoolInv, CatalogsSound
  <2> QED
    BY <1>3, <2>1 DEF Readable
<1>5. ASSUME NEW n \in DOMAIN file
      PROVE  \E m \in Nat \ {0} : /\ m <= MaxRowId + 1 + Cardinality(Conn)
                                  /\ DOMAIN file[n].rows \subseteq 1..(m - 1)
  <2>1. PICK m : m = catalog[n].next_row_id
    OBVIOUS
  <2>2. /\ m \in Nat \ {0} /\ DOMAIN file[n].rows \subseteq 0..(m - 1)
        /\ 0 \notin DOMAIN file[n].rows
        /\ m + Cardinality(Inserts(n)) <= MaxRowId + 1 + Cardinality(Conn)
    BY <1>3, <2>1 DEF PoolInv, CatalogsSound, Sound, SoundTable, RowIds, BoundsInv, RowRoom, Positive
  <2>3. Cardinality(Inserts(n)) \in Nat /\ Cardinality(Conn) \in Nat
    BY FewerCalls DEF Inserts
  <2>4. m <= MaxRowId + 1 + Cardinality(Conn)
    BY <2>2, <2>3, PoolAssumption
  <2>5. DOMAIN file[n].rows \subseteq 1..(m - 1)
    BY <2>2
  <2> QED
    BY <2>2, <2>4, <2>5
<1>6. /\ Positive(cat)
      /\ \A n \in DOMAIN cat : cat[n].next_row_id <= MaxRowId + 1 + Cardinality(Conn)
      /\ Cardinality(Conn) \in Nat \ {0} /\ Cardinality({}) = 0
      /\ \A c \in Conn : call'[c].at = "idle"
  BY <1>1, <1>2, <1>4, <1>5, OpenedBounds
<1>7. Begins' = {} /\ \A n : Inserts(n)' = {}
  BY <1>6 DEF Begins, Inserts, At
<1>8. Checkouts'
  BY <1>2, <1>6, PoolAssumption, IdleShape DEF Checkouts
<1>9. TransactionRoom'
  <2>1. DOMAIN row_locks' = {}
    BY <1>2 DEF EmptyMap
  <2> QED
    BY <1>2, <1>6, <1>7, <2>1, PoolAssumption DEF TransactionRoom, LockOwners
<1>10. RowRoom'
  <2>1. \A c \in Conn : Positive(transaction'[c].catalog)
    BY <1>2, NoTransactionPositive
  <2>2. \A n \in DOMAIN cat : cat[n].next_row_id \in Nat
    BY <1>1, <1>4, DecodeSound DEF Sound, SoundTable, RowIds
  <2> QED
    BY <1>2, <1>6, <1>7, <2>1, <2>2 DEF RowRoom
<1>11. DdlCalls'
  BY <1>6 DEF DdlCalls
<1> QED
  BY <1>8, <1>9, <1>10, <1>11 DEF BoundsInv

\* The bounds are kept by every step.
LEMMA BoundsStep ==
    ASSUME FileFits, PoolInv, BoundsInv, [Next]_vars PROVE BoundsInv'
<1>1. ASSUME NEW c \in Conn, Step(c) PROVE BoundsInv'
  BY <1>1, CheckoutsStep, TransactionRoomStep, DdlCallsStep, RowRoomStep DEF BoundsInv, FileFits
<1>2. CASE UNCHANGED vars
  BY <1>2 DEF vars, BoundsInv, Checkouts, TransactionRoom, LockOwners, DdlCalls, RowRoom, Begins, Inserts, At
<1> QED
  BY <1>1, <1>2, BoundsRestart DEF Next, FileFits

\* Connections in use hold exactly the missing permits, a dropped connection
\* leaves neither a call nor a transaction, every lock has an owner whose id
\* was handed out, and committed and staged row ids lie between 1 and their
\* table's next_row_id (pool.rs get, Drop, execute_inner,
\* reserve_insert_row_id, merge_catalogs), for any number of connections,
\* whatever fails or restarts.  FileFits: the bound on row ids leaves room for
\* the rows of the file the pool is opened on.
THEOREM PoolTypes == FileFits => (Spec => []TypeOK)
<1> SUFFICES ASSUME FileFits PROVE Spec => []TypeOK
  OBVIOUS
<1>1. PoolInv /\ BoundsInv => TypeOK
  <2> SUFFICES ASSUME PoolInv, BoundsInv PROVE TypeOK
    OBVIOUS
  <2>1. Cardinality(Conn) \in Nat /\ Cardinality(Begins) \in Nat
        /\ \A n : Cardinality(Inserts(n)) \in Nat
    BY FewerCalls DEF FileFits, Begins, Inserts
  <2>2. next_transaction_id \in 1..(MaxTx + Cardinality(Conn))
    BY <2>1, PoolAssumption DEF PoolInv, TransactionIds, BoundsInv, TransactionRoom
  <2>3. \A n \in DOMAIN catalog : catalog[n].next_row_id \in 1..(MaxRowId + 1 + Cardinality(Conn))
    <3> TAKE n \in DOMAIN catalog
    <3>1. catalog[n].next_row_id \in Nat \ {0}
      BY DEF PoolInv, CatalogsSound, Sound, SoundTable, RowIds, BoundsInv, RowRoom, Positive
    <3>2. catalog[n].next_row_id + Cardinality(Inserts(n)) <= MaxRowId + 1 + Cardinality(Conn)
      BY DEF BoundsInv, RowRoom
    <3> QED
      BY <2>1, <3>1, <3>2, PoolAssumption
  <2>4. ASSUME NEW cat, Sound(cat), Positive(cat),
               \A n \in DOMAIN cat : n \in DOMAIN catalog /\ cat[n].next_row_id <= catalog[n].next_row_id
        PROVE  RowIdsOK(cat)
    <3>1. ASSUME NEW n \in DOMAIN cat
          PROVE  /\ cat[n].next_row_id \in 1..(MaxRowId + 1 + Cardinality(Conn))
                 /\ DOMAIN cat[n].rows \subseteq 1..(cat[n].next_row_id - 1)
      <4>1. /\ cat[n].next_row_id \in Nat \ {0} /\ 0 \notin DOMAIN cat[n].rows
            /\ DOMAIN cat[n].rows \subseteq 0..(cat[n].next_row_id - 1)
        BY <2>4 DEF Sound, SoundTable, RowIds, Positive
      <4>2. /\ cat[n].next_row_id <= catalog[n].next_row_id
            /\ catalog[n].next_row_id \in 1..(MaxRowId + 1 + Cardinality(Conn))
        BY <2>3, <2>4
      <4> QED
        BY <2>1, <4>1, <4>2, PoolAssumption
    <3> QED
      BY <3>1 DEF RowIdsOK
  <2>5. RowIdsOK(catalog)
    <3>1. \A n \in DOMAIN catalog : catalog[n].next_row_id <= catalog[n].next_row_id
      BY <2>1, <2>3, PoolAssumption
    <3> QED
      BY <2>4, <3>1 DEF PoolInv, CatalogsSound, BoundsInv, RowRoom
  <2>6. \A c \in Conn : RowIdsOK(transaction[c].catalog)
    BY <2>4 DEF PoolInv, CatalogsSound, StagedBelow, BoundsInv, RowRoom
  <2> QED
    BY <2>2, <2>5, <2>6 DEF TypeOK, PoolInv, Shapes, TransactionIds, BoundsInv, Checkouts,
       TransactionRoom, LockOwners
<1>2. Init => BoundsInv
  BY BoundsInit
<1>3. PoolInv /\ BoundsInv /\ [Next]_vars => BoundsInv'
  BY BoundsStep
<1> QED
  BY <1>1, <1>2, <1>3, PoolInvariant, PTL DEF Spec

-----------------------------------------------------------------------------
(* The redo stream *)

\* Of each statement that is logged: its lines in the redo stream, the calls
\* that run it, and the difference.
Lines(redo, events, s) == {i \in DOMAIN redo : redo[i][1] \in events /\ redo[i][2] = s}
Running(s) == {c \in Conn : call[c].at # "idle" /\ call[c].stmt = s}
Logged(s) == mutates_catalog(s) \/ commits(s)
RedoLines == {"BEGIN", "COMMIT", "ABORT"} \X Statements

RedoInv ==
    /\ DOMAIN log = {"undo", "redo", "bin"} /\ log.redo \in Seq(RedoLines)
    /\ \A s \in Statements : Logged(s) =>
          /\ IsFiniteSet(Lines(log.redo, {"BEGIN"}, s))
          /\ IsFiniteSet(Lines(log.redo, {"COMMIT", "ABORT"}, s))
          /\ Cardinality(Lines(log.redo, {"BEGIN"}, s))
                 - Cardinality(Lines(log.redo, {"COMMIT", "ABORT"}, s)) = Cardinality(Running(s))

\* There is a redo stream, it and the binlog take their lines, and the process
\* does not end: a lost line or a lost call is a BEGIN without an answer.
RedoKept ==
    /\ "redo" \in Streams /\ LogFaults \subseteq {"undo"} /\ ~Restarts /\ IsFiniteSet(Conn)

\* One more line.
LEMMA LinesAppend ==
    ASSUME NEW redo \in Seq(RedoLines), NEW e \in {"BEGIN", "COMMIT", "ABORT"}, NEW u \in Statements,
           NEW events, NEW s, IsFiniteSet(Lines(redo, events, s))
    PROVE  LET new == Append(redo, <<e, u>>)
           IN /\ new \in Seq(RedoLines) /\ IsFiniteSet(Lines(new, events, s))
              /\ Cardinality(Lines(redo, events, s)) \in Nat
              /\ Cardinality(Lines(new, events, s)) =
                     Cardinality(Lines(redo, events, s)) + (IF e \in events /\ u = s THEN 1 ELSE 0)
<1>1. PICK new : new = Append(redo, <<e, u>>)
  OBVIOUS
<1>2. <<e, u>> \in RedoLines
  BY DEF RedoLines
<1>3. /\ new \in Seq(RedoLines) /\ Len(redo) \in Nat /\ DOMAIN redo = 1..Len(redo)
      /\ DOMAIN new = 1..(Len(redo) + 1) /\ new[Len(redo) + 1] = <<e, u>>
      /\ \A i \in 1..Len(redo) : new[i] = redo[i]
  BY <1>1, <1>2
<1>4. PICK old, n : old = Lines(redo, events, s) /\ n = Len(redo) + 1
  OBVIOUS
<1>5. n \notin old /\ n \in DOMAIN new /\ DOMAIN new = DOMAIN redo \cup {n}
  BY <1>3, <1>4 DEF Lines
<1>6. new[n] = <<e, u>> /\ \A i \in DOMAIN redo : new[i] = redo[i]
  BY <1>3, <1>4
<1>7. CASE e \in events /\ u = s
  <2>1. Lines(new, events, s) = old \cup {n}
    BY <1>4, <1>5, <1>6, <1>7 DEF Lines
  <2>2. IsFiniteSet(old \cup {n}) /\ Cardinality(old \cup {n}) = Cardinality(old) + 1
    BY <1>4, <1>5, FS_AddElement
  <2> QED
    BY <1>1, <1>3, <1>4, <1>7, <2>1, <2>2, FS_CardinalityType
<1>8. CASE ~(e \in events /\ u = s)
  <2>1. Lines(new, events, s) = old
    <3>1. n \notin Lines(new, events, s)
      BY <1>6, <1>8 DEF Lines
    <3> QED
      BY <1>4, <1>5, <1>6, <3>1 DEF Lines
  <2>2. Cardinality(old) \in Nat
    BY <1>4, FS_CardinalityType
  <2> QED
    BY <1>1, <1>3, <1>4, <1>8, <2>1, <2>2
<1> QED
  BY <1>7, <1>8

\* An append, when only the undo stream may fail.
LEMMA AppendRedo ==
    ASSUME RedoKept, NEW l, DOMAIN l = {"undo", "redo", "bin"}, NEW line,
           NEW stream \in {"undo", "redo", "bin"}, NEW o \in append_optional_line(l, stream, line)
    PROVE  /\ stream # "undo" => o.ok
           /\ o.log.redo = IF stream = "redo" THEN Append(l.redo, line) ELSE l.redo
           /\ DOMAIN o.log = DOMAIN l
<1>1. PICK written : written = [l EXCEPT ![stream] = Append(l[stream], line)]
  OBVIOUS
<1>2. DOMAIN written = DOMAIN l
      /\ written.redo = IF stream = "redo" THEN Append(l.redo, line) ELSE l.redo
  BY <1>1
<1>3. CASE stream = "redo"
  <2>1. o = [ok |-> TRUE, log |-> written]
    BY <1>1, <1>3 DEF RedoKept, append_optional_line
  <2> QED
    BY <1>2, <1>3, <2>1
<1>4. CASE stream # "redo"
  <2>1. \/ o = [ok |-> TRUE, log |-> l] \/ o = [ok |-> TRUE, log |-> written]
        \/ stream \in LogFaults /\ (o = [ok |-> FALSE, log |-> l] \/ o = [ok |-> FALSE, log |-> written])
    BY <1>1 DEF append_optional_line
  <2>2. stream \in LogFaults => stream = "undo"
    BY DEF RedoKept
  <2>3. (o.ok \/ stream = "undo") /\ (o.log = l \/ o.log = written)
    BY <2>1, <2>2
  <2> QED
    BY <1>2, <1>4, <2>3
<1> QED
  BY <1>3, <1>4

\* Before a statement: its BEGIN if the call goes on.
LEMMA BeforeLines ==
    ASSUME RedoKept, NEW l, DOMAIN l = {"undo", "redo", "bin"}, NEW s, NEW snapshot,
           NEW o \in LogBefore(l, s, snapshot)
    PROVE  /\ DOMAIN o.log = {"undo", "redo", "bin"}
           /\ o.log.redo = IF o.ok /\ Logged(s) THEN Append(l.redo, <<"BEGIN", s>>) ELSE l.redo
<1>1. ASSUME NEW k, DOMAIN k = {"undo", "redo", "bin"}, NEW b \in append_redolog(k, "BEGIN", s)
      PROVE  /\ DOMAIN b.log = {"undo", "redo", "bin"} /\ b.ok
             /\ b.log.redo = Append(k.redo, <<"BEGIN", s>>)
  BY <1>1, AppendRedo DEF append_redolog
<1>2. CASE mutates_catalog(s)
  <2>1. PICK b \in append_undolog(l, s, snapshot) :
            o \in (IF b.ok THEN append_redolog(b.log, "BEGIN", s) ELSE {b})
    BY <1>2 DEF LogBefore, Then
  <2>2. DOMAIN b.log = {"undo", "redo", "bin"} /\ b.log.redo = l.redo
    BY <2>1, AppendRedo DEF append_undolog
  <2>3. CASE b.ok
    BY <1>1, <1>2, <2>1, <2>2, <2>3 DEF Logged
  <2>4. CASE ~b.ok
    BY <2>1, <2>2, <2>4
  <2> QED
    BY <2>3, <2>4
<1>3. CASE ~mutates_catalog(s) /\ commits(s)
  <2>1. o \in append_redolog(l, "BEGIN", s) /\ Logged(s)
    BY <1>3 DEF LogBefore, Logged
  <2>2. o.ok /\ o.log.redo = Append(l.redo, <<"BEGIN", s>>)
        /\ DOMAIN o.log = {"undo", "redo", "bin"}
    BY <2>1, AppendRedo DEF append_redolog
  <2> QED
    BY <2>1, <2>2
<1>4. CASE ~mutates_catalog(s) /\ ~commits(s)
  BY <1>4 DEF LogBefore, Logged
<1> QED
  BY <1>2, <1>3, <1>4

\* The call of c goes on with the same statement.
GoesOn(c) ==
    \/ UNCHANGED call
    \/ /\ \A d \in Conn : d # c => call'[d] = call[d]
       /\ call[c].at # "idle" /\ call'[c].at # "idle" /\ call'[c].stmt = call[c].stmt

\* A step that adds no redo line and neither starts nor ends a call.
LEMMA RedoSame ==
    ASSUME RedoInv, NEW c \in Conn, GoesOn(c), log'.redo = log.redo, DOMAIN log' = DOMAIN log
    PROVE  RedoInv'
<1>1. \A s : Running(s)' = Running(s)
  BY DEF GoesOn, Running
<1>2. ASSUME NEW s \in Statements, Logged(s)
      PROVE  /\ IsFiniteSet(Lines(log'.redo, {"BEGIN"}, s))
             /\ IsFiniteSet(Lines(log'.redo, {"COMMIT", "ABORT"}, s))
             /\ Cardinality(Lines(log'.redo, {"BEGIN"}, s))
                    - Cardinality(Lines(log'.redo, {"COMMIT", "ABORT"}, s)) = Cardinality(Running(s)')
  BY <1>1, <1>2 DEF RedoInv
<1> QED
  BY <1>2 DEF RedoInv

\* A call starts.
LEMMA RedoStart ==
    ASSUME RedoKept, PoolInv, RedoInv, NEW c \in Conn, NEW s \in Statements, Start(c, s)
    PROVE  RedoInv'
<1>1. PICK seen : seen = IF Active(c) THEN transaction[c].catalog ELSE catalog
  OBVIOUS
<1>2. PICK before \in LogBefore(log, s, encode(seen)) :
          /\ log' = before.log
          /\ call' = IF before.ok
                     THEN [call EXCEPT ![c] = [at |-> "execute", stmt |-> s, ok |-> TRUE]] ELSE call
  BY <1>1 DEF Start
<1>3. /\ DOMAIN log = {"undo", "redo", "bin"} /\ DOMAIN log' = {"undo", "redo", "bin"}
      /\ log'.redo = IF before.ok /\ Logged(s) THEN Append(log.redo, <<"BEGIN", s>>) ELSE log.redo
  BY <1>2, BeforeLines DEF RedoInv
<1>4. CASE ~before.ok
  BY <1>2, <1>3, <1>4, RedoSame DEF GoesOn
<1>5. CASE before.ok
  <2>1. /\ call[c].at = "idle" /\ call'[c].at = "execute" /\ call'[c].stmt = s
        /\ \A d \in Conn : d # c => call'[d] = call[d]
    BY <1>2, <1>5 DEF Start, PoolInv, Shapes
  <2>2. /\ Running(s)' = Running(s) \cup {c} /\ c \notin Running(s)
        /\ \A u : u # s => Running(u)' = Running(u)
    BY <2>1 DEF Running
  <2>3. ASSUME NEW u \in Statements, Logged(u)
        PROVE  /\ IsFiniteSet(Lines(log'.redo, {"BEGIN"}, u))
               /\ IsFiniteSet(Lines(log'.redo, {"COMMIT", "ABORT"}, u))
               /\ Cardinality(Lines(log'.redo, {"BEGIN"}, u))
                      - Cardinality(Lines(log'.redo, {"COMMIT", "ABORT"}, u)) = Cardinality(Running(u)')
    <3>0. PICK b, e : b = Lines(log.redo, {"BEGIN"}, u) /\ e = Lines(log.redo, {"COMMIT", "ABORT"}, u)
      OBVIOUS
    <3>1. /\ IsFiniteSet(b) /\ IsFiniteSet(e) /\ log.redo \in Seq(RedoLines)
          /\ Cardinality(b) - Cardinality(e) = Cardinality(Running(u))
      BY <2>3, <3>0 DEF RedoInv
    <3>2. /\ Cardinality(b) \in Nat /\ Cardinality(e) \in Nat
          /\ IsFiniteSet(Running(u)) /\ Cardinality(Running(u)) \in Nat
      BY <3>1, FS_CardinalityType, FS_Subset DEF RedoKept, Running
    <3>3. CASE u = s
      <4>1. log'.redo = Append(log.redo, <<"BEGIN", s>>)
        BY <1>3, <1>5, <2>3, <3>3
      <4>2. /\ IsFiniteSet(Lines(log'.redo, {"BEGIN"}, u))
            /\ Cardinality(Lines(log'.redo, {"BEGIN"}, u)) = Cardinality(b) + 1
        BY <3>0, <3>1, <3>3, <4>1, LinesAppend
      <4>3. /\ IsFiniteSet(Lines(log'.redo, {"COMMIT", "ABORT"}, u))
            /\ Cardinality(Lines(log'.redo, {"COMMIT", "ABORT"}, u)) = Cardinality(e) + 0
        BY <3>0, <3>1, <3>3, <4>1, LinesAppend, SMTT(20)
      <4>4. Cardinality(Running(u)') = Cardinality(Running(u)) + 1
        BY <2>2, <3>2, <3>3, FS_AddElement
      <4> QED
        BY <3>1, <3>2, <4>2, <4>3, <4>4
    <3>4. CASE u # s
      <4>1. /\ IsFiniteSet(Lines(log'.redo, {"BEGIN"}, u))
            /\ Cardinality(Lines(log'.redo, {"BEGIN"}, u)) = Cardinality(b)
            /\ IsFiniteSet(Lines(log'.redo, {"COMMIT", "ABORT"}, u))
            /\ Cardinality(Lines(log'.redo, {"COMMIT", "ABORT"}, u)) = Cardinality(e)
        <5>1. CASE log'.redo = log.redo
          BY <3>0, <3>1, <5>1
        <5>2. CASE log'.redo = Append(log.redo, <<"BEGIN", s>>)
          <6>1. /\ IsFiniteSet(Lines(log'.redo, {"BEGIN"}, u))
                /\ Cardinality(Lines(log'.redo, {"BEGIN"}, u)) = Cardinality(b) + 0
            BY <3>0, <3>1, <3>4, <5>2, LinesAppend
          <6>2. /\ IsFiniteSet(Lines(log'.redo, {"COMMIT", "ABORT"}, u))
                /\ Cardinality(Lines(log'.redo, {"COMMIT", "ABORT"}, u)) = Cardinality(e) + 0
            BY <3>0, <3>1, <3>4, <5>2, LinesAppend
          <6> QED
            BY <3>2, <6>1, <6>2
        <5> QED
          BY <1>3, <5>1, <5>2
      <4>2. Running(u)' = Running(u)
        BY <2>2, <3>4
      <4> QED
        BY <3>1, <4>1, <4>2
    <3> QED
      BY <3>3, <3>4
  <2>4. log'.redo \in Seq(RedoLines)
    <3>1. log.redo \in Seq(RedoLines) /\ <<"BEGIN", s>> \in RedoLines
      BY DEF RedoInv, RedoLines
    <3> QED
      BY <1>3, <3>1
  <2> QED
    BY <1>3, <2>3, <2>4 DEF RedoInv
<1> QED
  BY <1>4, <1>5

\* A call ends.
LEMMA RedoEnd ==
    ASSUME RedoKept, PoolInv, RedoInv, NEW c \in Conn, WriteRedo(c)
    PROVE  RedoInv'
<1>1. PICK s, ok : s = call[c].stmt /\ ok = call[c].ok
  OBVIOUS
<1>2. PICK after \in LogOutcome(log, s, ok) : log' = after.log
  BY <1>1 DEF WriteRedo
<1>3. s \in Statements /\ DOMAIN log = {"undo", "redo", "bin"} /\ log.redo \in Seq(RedoLines)
  BY <1>1 DEF WriteRedo, PoolInv, Shapes, RedoInv
<1>4. PICK e \in {"COMMIT", "ABORT"} :
          /\ DOMAIN log' = {"undo", "redo", "bin"}
          /\ log'.redo = IF Logged(s) THEN Append(log.redo, <<e, s>>) ELSE log.redo
  <2>1. CASE ~Logged(s)
    <3>1. log' = log
      BY <1>2, <2>1 DEF LogOutcome, Logged
    <3> QED
      BY <1>3, <2>1, <3>1
  <2>2. CASE Logged(s)
    <3>1. PICK e \in {"COMMIT", "ABORT"} : \E o \in append_redolog(log, e, s) : log' = o.log
      BY <1>2, <2>2 DEF LogOutcome, Logged
    <3>2. DOMAIN log' = {"undo", "redo", "bin"} /\ log'.redo = Append(log.redo, <<e, s>>)
      BY <1>3, <3>1, AppendRedo DEF append_redolog
    <3> QED
      BY <2>2, <3>2
  <2> QED
    BY <2>1, <2>2
<1>5. /\ call[c].at # "idle" /\ call[c].stmt = s /\ call'[c].at = "idle"
      /\ \A d \in Conn : d # c => call'[d] = call[d]
  BY <1>1, IdleShape DEF WriteRedo, PoolInv, Shapes
<1>6. /\ Running(s)' = Running(s) \ {c} /\ c \in Running(s)
      /\ \A u : u # s => Running(u)' = Running(u)
  BY <1>5 DEF Running
<1>7. ASSUME NEW u \in Statements, Logged(u)
      PROVE  /\ IsFiniteSet(Lines(log'.redo, {"BEGIN"}, u))
             /\ IsFiniteSet(Lines(log'.redo, {"COMMIT", "ABORT"}, u))
             /\ Cardinality(Lines(log'.redo, {"BEGIN"}, u))
                    - Cardinality(Lines(log'.redo, {"COMMIT", "ABORT"}, u)) = Cardinality(Running(u)')
  <2>0. PICK b, d : b = Lines(log.redo, {"BEGIN"}, u) /\ d = Lines(log.redo, {"COMMIT", "ABORT"}, u)
    OBVIOUS
  <2>1. /\ IsFiniteSet(b) /\ IsFiniteSet(d)
        /\ Cardinality(b) - Cardinality(d) = Cardinality(Running(u))
    BY <1>7, <2>0 DEF RedoInv
  <2>2. /\ Cardinality(b) \in Nat /\ Cardinality(d) \in Nat
        /\ IsFiniteSet(Running(u)) /\ Cardinality(Running(u)) \in Nat
    BY <2>1, FS_CardinalityType, FS_Subset DEF RedoKept, Running
  <2>3. ASSUME log'.redo = Append(log.redo, <<e, s>>)
        PROVE  /\ IsFiniteSet(Lines(log'.redo, {"BEGIN"}, u))
               /\ Cardinality(Lines(log'.redo, {"BEGIN"}, u)) = Cardinality(b) + 0
               /\ IsFiniteSet(Lines(log'.redo, {"COMMIT", "ABORT"}, u))
               /\ Cardinality(Lines(log'.redo, {"COMMIT", "ABORT"}, u)) =
                      Cardinality(d) + (IF u = s THEN 1 ELSE 0)
    <3>1. /\ IsFiniteSet(Lines(log'.redo, {"BEGIN"}, u))
          /\ Cardinality(Lines(log'.redo, {"BEGIN"}, u)) = Cardinality(b) + 0
      BY <1>3, <2>0, <2>1, <2>3, LinesAppend
    <3>2. /\ IsFiniteSet(Lines(log'.redo, {"COMMIT", "ABORT"}, u))
          /\ Cardinality(Lines(log'.redo, {"COMMIT", "ABORT"}, u)) =
                 Cardinality(d) + (IF u = s THEN 1 ELSE 0)
      BY <1>3, <2>0, <2>1, <2>3, LinesAppend
    <3> QED
      BY <3>1, <3>2
  <2>4. CASE u = s
    <3>1. log'.redo = Append(log.redo, <<e, s>>)
      BY <1>4, <1>7, <2>4
    <3>2. Cardinality(Running(u)') = Cardinality(Running(u)) - 1
      BY <1>6, <2>2, <2>4, FS_RemoveElement
    <3> QED
      BY <2>1, <2>2, <2>3, <2>4, <3>1, <3>2
  <2>5. CASE u # s
    <3>1. Running(u)' = Running(u)
      BY <1>6, <2>5
    <3>2. CASE log'.redo = log.redo
      BY <2>0, <2>1, <3>1, <3>2
    <3>3. CASE log'.redo = Append(log.redo, <<e, s>>)
      BY <2>1, <2>2, <2>3, <2>5, <3>1, <3>3
    <3> QED
      BY <1>4, <3>2, <3>3
  <2> QED
    BY <2>4, <2>5
<1>8. log'.redo \in Seq(RedoLines)
  <2>1. <<e, s>> \in RedoLines
    BY <1>3 DEF RedoLines
  <2> QED
    BY <1>3, <1>4, <2>1
<1> QED
  BY <1>4, <1>7, <1>8 DEF RedoInv

\* Every step of the pool keeps the balance.
LEMMA RedoStep ==
    ASSUME RedoKept, PoolInv, RedoInv, [Next]_vars PROVE RedoInv'
<1>0. Shapes /\ Streams # {} /\ DOMAIN log = {"undo", "redo", "bin"}
  BY DEF PoolInv, RedoKept, RedoInv
<1>1. ASSUME NEW c \in Conn, call[c].at # "idle", NEW ok, Returns(c, ok), UNCHANGED log PROVE RedoInv'
  <2>1. PICK r : r = [call[c] EXCEPT !.at = IF ok THEN "binlog" ELSE "redo", !.ok = ok]
    OBVIOUS
  <2>2. r.at # "idle" /\ r.stmt = call[c].stmt
    BY <1>0, <2>1 DEF Shapes
  <2>3. call' = [call EXCEPT ![c] = r]
    BY <1>0, <1>1, <2>1 DEF Returns
  <2>4. GoesOn(c)
    BY <1>0, <1>1, <2>2, <2>3 DEF GoesOn, Shapes
  <2> QED
    BY <1>1, <2>4, RedoSame
<1>2. ASSUME NEW c \in Conn, WriteBinlog(c) PROVE RedoInv'
  <2>1. PICK after \in append_binlog(log, call[c].stmt) :
            /\ log' = after.log
            /\ call' = [call EXCEPT ![c] = IF after.ok THEN [call[c] EXCEPT !.at = "redo"] ELSE Idle]
    BY <1>2 DEF WriteBinlog
  <2>2. after.ok /\ log'.redo = log.redo /\ DOMAIN log' = DOMAIN log
    <3>1. CASE after \in append_optional_line(log, "bin", call[c].stmt)
      BY <1>0, <2>1, <3>1, AppendRedo
    <3>2. CASE after = [ok |-> TRUE, log |-> log]
      BY <2>1, <3>2
    <3> QED
      BY <2>1, <3>1, <3>2 DEF append_binlog
  <2>3. PICK r : r = [call[c] EXCEPT !.at = "redo"]
    OBVIOUS
  <2>4. r.at # "idle" /\ r.stmt = call[c].stmt /\ call' = [call EXCEPT ![c] = r]
    BY <1>0, <2>1, <2>2, <2>3 DEF Shapes
  <2>5. GoesOn(c)
    BY <1>0, <1>2, <2>4 DEF GoesOn, Shapes, WriteBinlog
  <2> QED
    BY <2>2, <2>5, RedoSame
<1>3. ASSUME NEW c \in Conn, DdlCheck(c) PROVE RedoInv'
  <2>1. /\ call[c].at # "idle" /\ UNCHANGED log
        /\ Returns(c, FALSE) \/ call' = [call EXCEPT ![c].at = "ddl"]
    BY <1>3 DEF DdlCheck
  <2>2. call' = [call EXCEPT ![c].at = "ddl"] => GoesOn(c)
    BY <1>0, <2>1 DEF GoesOn, Shapes
  <2> QED
    BY <1>1, <2>1, <2>2, RedoSame
<1>4. ASSUME NEW c \in Conn,
             \/ ControlError(c) \/ begin(c) \/ commit(c) \/ rollback(c)
             \/ Autocommit(c) \/ LockAndWrite(c) \/ InsertRefused(c) \/ InsertStaged(c) \/ ReadStaged(c)
      PROVE  RedoInv'
  <2>1. call[c].at # "idle" /\ UNCHANGED log /\ \E ok : Returns(c, ok)
    BY <1>4 DEF ControlError, begin, commit, rollback, Autocommit, LockAndWrite, InsertRefused,
       InsertStaged, ReadStaged, At
  <2> QED
    BY <1>1, <2>1
<1>5. ASSUME NEW c \in Conn, get(c) \/ drop(c) PROVE RedoInv'
  <2>1. UNCHANGED <<call, log>>
    BY <1>5 DEF get, drop
  <2> QED
    BY <2>1, RedoSame DEF GoesOn
<1>6. CASE UNCHANGED vars
  BY <1>6 DEF vars, RedoInv, Running
<1>7. ~Restart
  BY DEF Restart, RedoKept
<1> QED
  BY <1>2, <1>3, <1>4, <1>5, <1>6, <1>7, RedoStart, RedoEnd DEF Next, Step

\* Interleaved calls leave a redo stream in which, of each statement, the
\* BEGINs not yet answered by a COMMIT or an ABORT are those of the calls
\* still running (pool.rs execute_inner, logging.rs append_redolog), for any
\* number of connections, if only the undo stream can fail and the process
\* does not end.
THEOREM RedoIsBalanced == RedoKept => (Spec => []RedoBalanced)
<1> SUFFICES ASSUME RedoKept PROVE Spec => []RedoBalanced
  OBVIOUS
<1>1. Init => RedoInv
  <2> SUFFICES ASSUME Init PROVE RedoInv
    OBVIOUS
  <2>1. log.redo = <<>> /\ DOMAIN log = {"undo", "redo", "bin"}
    BY DEF Init, EmptyLog
  <2>2. \A events, s : Lines(log.redo, events, s) = {}
    BY <2>1 DEF Lines
  <2>3. \A s : Running(s) = {}
    BY IdleShape DEF Init, Running
  <2>4. IsFiniteSet({}) /\ Cardinality({}) = 0
    BY FS_EmptySet
  <2>5. log.redo \in Seq(RedoLines)
    BY <2>1
  <2>6. \A s \in Statements :
            /\ IsFiniteSet(Lines(log.redo, {"BEGIN"}, s))
            /\ IsFiniteSet(Lines(log.redo, {"COMMIT", "ABORT"}, s))
            /\ Cardinality(Lines(log.redo, {"BEGIN"}, s)) = 0
            /\ Cardinality(Lines(log.redo, {"COMMIT", "ABORT"}, s)) = 0
            /\ Cardinality(Running(s)) = 0
    BY <2>2, <2>3, <2>4
  <2> QED
    BY <2>1, <2>5, <2>6 DEF RedoInv
<1>2. PoolInv /\ RedoInv /\ [Next]_vars => RedoInv'
  BY RedoStep
<1>3. RedoInv => RedoBalanced
  BY DEF RedoInv, RedoBalanced, Lines, Running, Logged
<1> QED
  BY <1>1, <1>2, <1>3, PoolInvariant, PTL DEF Spec
=============================================================================
