--------------------------- MODULE DatabaseProofs ---------------------------
(***************************************************************************)
(* Proofs about the embedded database: what every sequence of statements,  *)
(* failures and reopenings keeps, for every set of statements and options. *)
(***************************************************************************)
EXTENDS Database, DataProofs

\* A catalog that statements can be executed on: consistent tables whose row
\* ids are positive and within the bound.
Bounded(t) == t.next_row_id \in 1..(MaxRowId + 1) /\ DOMAIN t.rows \subseteq 1..(t.next_row_id - 1)
GoodCatalog(cat) ==
    Sound(cat) /\ DataCatalog(cat) /\ \A n \in DOMAIN cat : Bounded(cat[n])

\* A staged catalog has the committed tables, and new rows under ids that the
\* committed tables have not handed out.
Ahead(old, new) ==
    \A n \in DOMAIN old :
        /\ n \in DOMAIN new
        /\ old[n].next_row_id <= new[n].next_row_id
        /\ \A r \in DOMAIN new[n].rows \ DOMAIN old[n].rows : r >= old[n].next_row_id

DbInv ==
    /\ options \in OptionSet
    /\ result \in {"Ok", "Err"}
    /\ transaction = <<>> \/ transaction = <<transaction[1]>>
    /\ GoodCatalog(catalog)
    /\ transaction # <<>> => GoodCatalog(transaction[1]) /\ Ahead(catalog, transaction[1])
    /\ FileBacked => file = encode(catalog)

\* The full-text maps of all catalogs are those of the open tokenizer, and only
\* tables that some statement gives a full-text index have one.
TextIndexed(n) ==
    \E s \in Statements : s.op = "CreateIndex" /\ s.table = n /\ s.fulltext
TextInv ==
    \A c \in Staged : \A n \in DOMAIN c :
        /\ ExactTexts(c[n], options.fulltext_tokenizer)
        /\ DOMAIN c[n].fulltext_indexes # {} => TextIndexed(n)

\* The tokenizer that create_index falls back to is the one in use, or no table
\* gets both kinds of index.
OneTokenizer ==
    \/ \A o \in OptionSet : o.fulltext_tokenizer = DefaultOptions.fulltext_tokenizer
    \/ \A s \in Statements :
           s.op = "CreateIndex" /\ TextIndexed(s.table) => s.fulltext

-----------------------------------------------------------------------------
(* One statement on one catalog *)

\* A table that a statement adds is a new one, that of CREATE TABLE.
LEMMA ExecuteNew ==
    ASSUME NEW cat, NEW s, NEW o, NEW n \in DOMAIN execute_statement(cat, s, o).catalog,
           n \notin DOMAIN cat
    PROVE  /\ s.op = "CreateTable" /\ n = s.table
           /\ execute_statement(cat, s, o).catalog[n] = NewTable(s.columns)
<1> DEFINE new == execute_statement(cat, s, o).catalog
<1>1. \/ new = cat
      \/ s.op = "CreateTable" /\ new = Put(cat, s.table, NewTable(s.columns))
      \/ /\ s.table \in DOMAIN cat
         /\ new = Put(cat, s.table, OnTable(cat[s.table], s, o).table)
  BY DEF execute_statement
<1> HIDE DEF new
<1>2. n \in DOMAIN new
  BY DEF new
<1>3. s.op = "CreateTable" /\ n = s.table /\ new[n] = NewTable(s.columns)
  BY <1>1, <1>2 DEF Put
<1> QED
  BY <1>3 DEF new

\* What is neither a mutation nor DDL leaves every table (Select, ParsedOnly).
LEMMA ExecuteRead ==
    ASSUME NEW cat, NEW s, ~mutates_catalog(s), NEW o
    PROVE  LET new == execute_statement(cat, s, o).catalog
           IN DOMAIN new = DOMAIN cat /\ \A n \in DOMAIN cat : new[n] = cat[n]
<1> DEFINE new == execute_statement(cat, s, o).catalog
<1>1. new = cat \/ (s.table \in DOMAIN cat /\ new = Put(cat, s.table, cat[s.table]))
  BY DEF execute_statement, mutates_catalog, OnTable
<1> HIDE DEF new
<1>2. DOMAIN new = DOMAIN cat /\ \A n \in DOMAIN cat : new[n] = cat[n]
  BY <1>1 DEF Put
<1> QED
  BY <1>2 DEF new

\* The bound on inserts, on one catalog (RowRoom).
Room(cat, s) ==
    (s.op = "Insert" /\ s.table \in DOMAIN cat) => cat[s.table].next_row_id <= MaxRowId

\* A statement, failed or not, takes a good catalog to a good one that is ahead.
LEMMA ExecuteGood ==
    ASSUME NEW cat, GoodCatalog(cat), NEW s, IsStatement(s), Room(cat, s), NEW o
    PROVE  LET new == execute_statement(cat, s, o).catalog
           IN GoodCatalog(new) /\ Ahead(cat, new)
<1>1. PICK new : new = execute_statement(cat, s, o).catalog
  OBVIOUS
<1>2. /\ Sound(new) /\ DataCatalog(new)
      /\ \A n \in DOMAIN cat : n \in DOMAIN new /\ Steps(cat[n], new[n], s.op = "Insert")
      /\ \A n \in DOMAIN cat : n # s.table => new[n] = cat[n]
  BY <1>1, ExecuteSteps, ExecuteData DEF GoodCatalog
<1>3. ASSUME NEW n \in DOMAIN cat
      PROVE  /\ Bounded(new[n]) /\ cat[n].next_row_id <= new[n].next_row_id
             /\ \A r \in DOMAIN new[n].rows \ DOMAIN cat[n].rows : r >= cat[n].next_row_id
  <2>1. PICK t : t = cat[n]
    OBVIOUS
  <2>2. PICK u : u = new[n]
    OBVIOUS
  <2>3. Steps(t, u, s.op = "Insert") /\ Bounded(t)
    BY <1>2, <2>1, <2>2 DEF GoodCatalog
  <2>4. s.op = "Insert" /\ n = s.table => t.next_row_id <= MaxRowId
    BY <2>1 DEF Room
  <2>5. n # s.table => u = t
    BY <1>2, <2>1, <2>2
  <2>6. MaxRowId \in Nat
    BY DatabaseAssumption
  <2>7. /\ Bounded(u) /\ t.next_row_id <= u.next_row_id
        /\ \A r \in DOMAIN u.rows \ DOMAIN t.rows : r >= t.next_row_id
    <3>1. CASE u = t
      BY <2>3, <3>1 DEF Bounded
    <3>2. CASE n = s.table
      <4>1. /\ RowIds(u)
            /\ \/ u.next_row_id = t.next_row_id
               \/ u.next_row_id = t.next_row_id + 1 /\ t.next_row_id <= MaxRowId
            /\ DOMAIN u.rows \subseteq DOMAIN t.rows \cup {t.next_row_id}
        BY <2>3, <2>4, <3>2 DEF Steps, SoundTable
      <4> QED
        BY <2>3, <2>6, <4>1 DEF Bounded, RowIds
    <3> QED
      BY <2>5, <3>1, <3>2
  <2> QED
    BY <2>1, <2>2, <2>7
<1>4. ASSUME NEW n \in DOMAIN new, n \notin DOMAIN cat PROVE Bounded(new[n])
  <2>1. new[n] = NewTable(s.columns)
    BY <1>1, <1>4, ExecuteNew
  <2>2. new[n].next_row_id = 1 /\ DOMAIN new[n].rows = {}
    BY <2>1 DEF NewTable, EmptyMap
  <2> QED
    BY <2>2, DatabaseAssumption DEF Bounded
<1>5. GoodCatalog(new)
  BY <1>2, <1>3, <1>4 DEF GoodCatalog
<1>6. Ahead(cat, new)
  BY <1>2, <1>3 DEF Ahead
<1> QED
  BY <1>1, <1>5, <1>6

\* Ahead is a preorder on good catalogs.
LEMMA AheadOrder ==
    ASSUME NEW a, NEW b, NEW c, GoodCatalog(a), GoodCatalog(b), GoodCatalog(c)
    PROVE  Ahead(a, a) /\ (Ahead(a, b) /\ Ahead(b, c) => Ahead(a, c))
<1>1. Ahead(a, a)
  BY DEF Ahead, GoodCatalog, Bounded
<1>2. ASSUME Ahead(a, b), Ahead(b, c), NEW n \in DOMAIN a
      PROVE  /\ n \in DOMAIN c /\ a[n].next_row_id <= c[n].next_row_id
             /\ \A r \in DOMAIN c[n].rows \ DOMAIN a[n].rows : r >= a[n].next_row_id
  <2>1. PICK x, y, z : x = a[n] /\ y = b[n] /\ z = c[n]
    OBVIOUS
  <2>2. /\ n \in DOMAIN b /\ n \in DOMAIN c
        /\ x.next_row_id <= y.next_row_id /\ y.next_row_id <= z.next_row_id
        /\ \A r \in DOMAIN y.rows \ DOMAIN x.rows : r >= x.next_row_id
        /\ \A r \in DOMAIN z.rows \ DOMAIN y.rows : r >= y.next_row_id
    BY <1>2, <2>1 DEF Ahead
  <2>3. Bounded(x) /\ Bounded(y) /\ Bounded(z)
    BY <2>1, <2>2 DEF GoodCatalog
  <2>4. x.next_row_id <= z.next_row_id
        /\ \A r \in DOMAIN z.rows \ DOMAIN x.rows : r >= x.next_row_id
    BY <2>2, <2>3, DatabaseAssumption DEF Bounded
  <2> QED
    BY <2>1, <2>2, <2>4
<1> QED
  BY <1>1, <1>2 DEF Ahead

-----------------------------------------------------------------------------
(* The log streams *)

\* Only appends to undo, which come before the statement, may fail.
OnlyUndoFails == LogFaults \subseteq {"undo"}

\* An append that cannot fail.
LEMMA AppendSucceeds ==
    ASSUME NEW l, NEW stream, stream \notin LogFaults, NEW line,
           NEW a \in append_optional_line(l, stream, line)
    PROVE  a.ok
BY DEF append_optional_line

\* Then the result of a call is that of its statement.
LEMMA LogAfterResult ==
    ASSUME OnlyUndoFails, NEW l, NEW s, NEW ok, NEW a \in LogAfter(l, s, ok)
    PROVE  a.ok <=> ok
<1>1. "redo" \notin LogFaults /\ "bin" \notin LogFaults
  BY DEF OnlyUndoFails
<1>2. \A k : \A b \in append_binlog(k, s) : b.ok
  BY <1>1, AppendSucceeds DEF append_binlog
<1>3. \A k, event : \A b \in append_redolog(k, event, s) : b.ok
  BY <1>1, AppendSucceeds DEF append_redolog
<1>4. \A k : \A b \in LogOutcome(k, s, TRUE) : b.ok
  BY <1>3 DEF LogOutcome
<1>5. \A k : \A b \in LogOutcome(k, s, FALSE) : ~b.ok
  BY DEF LogOutcome
<1>6. CASE ok
  <2>1. PICK b \in append_binlog(l, s) :
            a \in (IF b.ok THEN LogOutcome(b.log, s, TRUE) ELSE {b})
    BY <1>6 DEF LogAfter, Then
  <2> QED
    BY <1>2, <1>4, <1>6, <2>1
<1>7. CASE ~ok
  BY <1>5, <1>7 DEF LogAfter
<1> QED
  BY <1>6, <1>7

-----------------------------------------------------------------------------
(* What a step does to the catalogs and the file, whatever the logs do *)

\* With OnlyUndoFails, an error of the statement itself or of its undo line.
Error == OnlyUndoFails /\ result' = "Err"

Quiet == UNCHANGED <<options, catalog, transaction, file>>
BeginMove ==
    transaction = <<>> /\ transaction' = <<catalog>> /\ UNCHANGED <<options, catalog, file>>
CommitMove ==
    /\ transaction # <<>> /\ transaction' = <<>> /\ catalog' = transaction[1]
    /\ file' = IF FileBacked THEN encode(transaction[1]) ELSE file
    /\ UNCHANGED options
RollbackMove ==
    transaction # <<>> /\ transaction' = <<>> /\ UNCHANGED <<options, catalog, file>>
StageMove(s) ==
    /\ transaction # <<>>
    /\ transaction' = <<execute_statement(transaction[1], s, options).catalog>>
    /\ UNCHANGED <<options, catalog, file>>
RunMove(s) ==
    /\ transaction = <<>> /\ transaction' = <<>>
    /\ catalog' = execute_statement(catalog, s, options).catalog
    /\ file' = IF FileBacked /\ mutates_catalog(s) THEN encode(catalog') ELSE file
    /\ mutates_catalog(s) => execute_statement(catalog, s, options).ok
    /\ UNCHANGED options
StatementMove ==
    \E s \in Statements :
        /\ Room(active_catalog, s)
        /\ StageMove(s) \/ RunMove(s)
        /\ Error => ~execute_statement(active_catalog, s, options).ok

\* execute: nothing happens when the undo line cannot be written, else one of
\* the statement's outcomes does.
LEMMA ExecuteOutcome ==
    ASSUME NEW s, NEW outcomes, Execute(s, outcomes)
    PROVE  /\ result' \in {"Ok", "Err"}
           /\ \/ Quiet
              \/ \E o \in outcomes :
                    /\ catalog' = o.catalog /\ transaction' = o.transaction /\ file' = o.file
                    /\ UNCHANGED options
                    /\ Error => ~o.ok
<1>1. PICK before \in LogBefore(log, s, undo_snapshot) :
        IF ~before.ok
        THEN /\ log' = before.log
             /\ result' = "Err"
             /\ UNCHANGED <<options, catalog, transaction, file>>
        ELSE \E o \in outcomes : \E after \in LogAfter(before.log, s, o.ok) :
                /\ catalog' = o.catalog
                /\ transaction' = o.transaction
                /\ file' = o.file
                /\ log' = after.log
                /\ result' = IF after.ok THEN "Ok" ELSE "Err"
                /\ UNCHANGED options
  BY DEF Execute
<1>2. CASE ~before.ok
  BY <1>1, <1>2 DEF Quiet
<1>3. CASE before.ok
  <2>1. PICK o \in outcomes : \E after \in LogAfter(before.log, s, o.ok) :
                /\ catalog' = o.catalog
                /\ transaction' = o.transaction
                /\ file' = o.file
                /\ log' = after.log
                /\ result' = IF after.ok THEN "Ok" ELSE "Err"
                /\ UNCHANGED options
    BY <1>1, <1>3
  <2>2. PICK after \in LogAfter(before.log, s, o.ok) :
                /\ catalog' = o.catalog
                /\ transaction' = o.transaction
                /\ file' = o.file
                /\ result' = IF after.ok THEN "Ok" ELSE "Err"
                /\ UNCHANGED options
    BY <2>1
  <2>3. Error => ~o.ok
    BY <2>2, LogAfterResult DEF Error
  <2> QED
    BY <2>2, <2>3
<1> QED
  BY <1>2, <1>3

\* Every step is one of these.
LEMMA Moves ==
    ASSUME Next
    PROVE  /\ result' \in {"Ok", "Err"}
           /\ \/ Quiet
              \/ ~Error /\ (BeginMove \/ CommitMove \/ RollbackMove \/ Reopen)
              \/ StatementMove
<1>1. CASE Begin
  <2>1. PICK s \in Statements : Execute(s, begin)
    BY <1>1 DEF Begin, Calls
  <2>2. \A o \in begin : \/ o = Outcome(FALSE, catalog, transaction, file)
                         \/ transaction = <<>> /\ o = Outcome(TRUE, catalog, <<catalog>>, file)
    BY DEF begin, Unchanged
  <2> QED
    BY <2>1, <2>2, ExecuteOutcome DEF Outcome, Quiet, BeginMove
<1>2. CASE Commit
  <2>1. PICK s \in Statements : Execute(s, commit)
    BY <1>2 DEF Commit, Calls
  <2>2. \A o \in commit :
            \/ o = Outcome(FALSE, catalog, transaction, file)
            \/ /\ transaction # <<>>
               /\ o = Outcome(TRUE, transaction[1], <<>>,
                              IF FileBacked THEN encode(transaction[1]) ELSE file)
    BY DEF commit, persist, Unchanged
  <2> QED
    BY <2>1, <2>2, ExecuteOutcome DEF Outcome, Quiet, CommitMove
<1>3. CASE Rollback
  <2>1. PICK s \in Statements : Execute(s, rollback)
    BY <1>3 DEF Rollback, Calls
  <2>2. \A o \in rollback : \/ o = Outcome(FALSE, catalog, transaction, file)
                            \/ transaction # <<>> /\ o = Outcome(TRUE, catalog, <<>>, file)
    BY DEF rollback, Unchanged
  <2> QED
    BY <2>1, <2>2, ExecuteOutcome DEF Outcome, Quiet, RollbackMove
<1>4. CASE Explain
  <2>1. PICK s \in Statements : Execute(s, explain(s))
    BY <1>4 DEF Explain, Calls
  <2>2. \A o \in explain(s) :
            o.catalog = catalog /\ o.transaction = transaction /\ o.file = file
    BY DEF explain, Unchanged, Outcome
  <2> QED
    BY <2>1, <2>2, ExecuteOutcome DEF Quiet
<1>5. ASSUME NEW op, Statement(op)
      PROVE  result' \in {"Ok", "Err"} /\ (Quiet \/ StatementMove)
  <2>1. PICK s \in Statements : RowRoom(s) /\ Execute(s, execute_catalog_statement(s))
    BY <1>5 DEF Statement, Calls
  <2>2. Room(active_catalog, s)
    BY <2>1 DEF Room, RowRoom
  <2> DEFINE done == execute_statement(active_catalog, s, options)
             written == IF FileBacked /\ mutates_catalog(s) THEN encode(done.catalog) ELSE file
  <2>3. \A o \in execute_catalog_statement(s) :
            \/ o = Outcome(FALSE, catalog, transaction, file)
            \/ transaction # <<>> /\ o = Outcome(done.ok, catalog, <<done.catalog>>, file)
            \/ /\ transaction = <<>> /\ o = Outcome(done.ok, done.catalog, <<>>, written)
               /\ mutates_catalog(s) => done.ok
    <3>1. CASE transaction # <<>>
      BY <3>1 DEF execute_catalog_statement
    <3>2. CASE transaction = <<>> /\ ~mutates_catalog(s)
      BY <3>2 DEF execute_catalog_statement
    <3>3. CASE transaction = <<>> /\ mutates_catalog(s) /\ done.ok
      <4>1. execute_catalog_statement(s) = persist(done.catalog, <<>>, Unchanged(FALSE))
        BY <3>3 DEF execute_catalog_statement
      <4> HIDE DEF done
      <4>2. \A o \in execute_catalog_statement(s) :
                \/ o = Outcome(FALSE, catalog, transaction, file)
                \/ o = Outcome(TRUE, done.catalog, <<>>, written)
        BY <3>3, <4>1 DEF persist, Unchanged
      <4> QED
        BY <3>3, <4>2
    <3>4. CASE transaction = <<>> /\ mutates_catalog(s) /\ ~done.ok
      BY <3>4 DEF execute_catalog_statement, Unchanged
    <3> QED
      BY <3>1, <3>2, <3>3, <3>4
  <2>4. transaction # <<>> => active_catalog = transaction[1]
    BY DEF active_catalog
  <2>5. transaction = <<>> => active_catalog = catalog
    BY DEF active_catalog
  <2> QED
    BY <2>1, <2>2, <2>3, <2>4, <2>5, ExecuteOutcome
    DEF Outcome, Quiet, StatementMove, StageMove, RunMove
<1>6. CASE Reopen
  BY <1>6 DEF Reopen, Error
<1> QED
  BY <1>1, <1>2, <1>3, <1>4, <1>5, <1>6 DEF Next

-----------------------------------------------------------------------------
(* The invariant *)

\* What a database finds when it is opened on its own file: the rows, under
\* their ids, and next row ids that are no higher than before.
LEMMA OpenGood ==
    ASSUME NEW cat, GoodCatalog(cat), NEW o
    PROVE  LET new == decode_with_options(encode(cat), o).catalog
           IN /\ GoodCatalog(new) /\ encode(new) = encode(cat) /\ DOMAIN new = DOMAIN cat
              /\ \A n \in DOMAIN cat : DOMAIN new[n].rows = DOMAIN cat[n].rows
<1>1. PICK new : new = decode_with_options(encode(cat), o).catalog
  OBVIOUS
<1>2. PICK F : F = encode(cat)
  OBVIOUS
<1>3. /\ Readable(F) /\ DOMAIN F = DOMAIN cat
      /\ \A n \in DOMAIN cat : DOMAIN F[n].rows = DOMAIN cat[n].rows
  BY <1>2, EncodeReadable DEF GoodCatalog
<1>4. Written(F) /\ decode_with_options(F, o).ok
  BY <1>2, EncodeData DEF GoodCatalog
<1>5. /\ Sound(new) /\ DOMAIN new = DOMAIN F
      /\ \A n \in DOMAIN F : DOMAIN new[n].rows = DOMAIN F[n].rows
  BY <1>1, <1>2, <1>3, DecodeSound
<1>6. encode(new) = F /\ DataCatalog(new)
  BY <1>1, <1>2, <1>4, DecodeData
<1>7. ASSUME NEW n \in DOMAIN cat PROVE Bounded(new[n])
  <2>1. PICK t, u : t = cat[n] /\ u = new[n]
    OBVIOUS
  <2>2. Bounded(t) /\ SoundTable(u) /\ DOMAIN u.rows = DOMAIN t.rows
    BY <1>3, <1>5, <2>1 DEF GoodCatalog, Sound
  <2>3. t.next_row_id \in Nat \ {0} /\ DOMAIN t.rows \subseteq 1..(t.next_row_id - 1)
    BY <2>2, DatabaseAssumption DEF Bounded
  <2>4. u.next_row_id \in 1..t.next_row_id
    BY <1>1, <1>2, <1>3, <2>1, <2>3, DecodeNextId
  <2> QED
    BY <2>1, <2>2, <2>3, <2>4, DatabaseAssumption DEF Bounded, SoundTable, RowIds
<1>8. GoodCatalog(new)
  BY <1>3, <1>5, <1>6, <1>7 DEF GoodCatalog
<1> QED
  BY <1>1, <1>2, <1>3, <1>5, <1>6, <1>8

\* A good catalog opens with any options.
LEMMA OpenOk ==
    ASSUME NEW cat, GoodCatalog(cat), NEW o
    PROVE  decode_with_options(encode(cat), o).ok
BY EncodeData DEF GoodCatalog

\* Catalogs with the same tables have the same file.
LEMMA SameEncoding ==
    ASSUME NEW a, NEW b, DOMAIN a = DOMAIN b, \A n \in DOMAIN a : a[n] = b[n]
    PROVE  encode(a) = encode(b)
BY DEF encode

\* A statement outside a transaction: the file holds the new catalog, also when
\* the statement is none that is written.
LEMMA RunFile ==
    ASSUME DbInv, FileBacked, NEW s, RunMove(s)
    PROVE  file' = encode(catalog')
<1>1. CASE mutates_catalog(s)
  BY <1>1 DEF RunMove
<1>2. CASE ~mutates_catalog(s)
  <2>1. DOMAIN catalog' = DOMAIN catalog /\ \A n \in DOMAIN catalog : catalog'[n] = catalog[n]
    BY <1>2, ExecuteRead DEF RunMove
  <2>2. file' = file /\ file = encode(catalog)
    BY <1>2 DEF RunMove, DbInv
  <2> QED
    BY <2>1, <2>2, SameEncoding
<1> QED
  BY <1>1, <1>2

\* What a statement makes of the catalog it runs on.
LEMMA StatementGood ==
    ASSUME DbInv, NEW s \in Statements, Room(active_catalog, s)
    PROVE  LET new == execute_statement(active_catalog, s, options).catalog
           IN GoodCatalog(active_catalog) /\ GoodCatalog(new) /\ Ahead(active_catalog, new)
<1>1. GoodCatalog(active_catalog)
  BY DEF DbInv, active_catalog
<1>2. IsStatement(s)
  BY StatementsParsed
<1> QED
  BY <1>1, <1>2, ExecuteGood

\* Init establishes the invariant.
LEMMA DbInvInit ==
    ASSUME Init PROVE DbInv
<1>1. DOMAIN EmptyCatalog = {}
  BY DEF EmptyCatalog, EmptyMap
<1>2. GoodCatalog(EmptyCatalog)
  BY <1>1 DEF GoodCatalog, Sound, DataCatalog
<1> QED
  BY <1>2 DEF Init, DbInv

\* Every step keeps it.
LEMMA DbInvNext ==
    ASSUME DbInv, [Next]_vars PROVE DbInv'
<1>0. CASE UNCHANGED vars
  BY <1>0 DEF vars, DbInv
<1> SUFFICES ASSUME Next PROVE DbInv'
  BY <1>0
<1>1. result' \in {"Ok", "Err"}
  BY Moves
<1>2. CASE Quiet
  BY <1>1, <1>2 DEF Quiet, DbInv
<1>3. CASE BeginMove
  <2>1. transaction' = <<catalog>> /\ UNCHANGED <<options, catalog, file>>
    BY <1>3 DEF BeginMove
  <2>2. Ahead(catalog, catalog)
    BY AheadOrder DEF DbInv
  <2> QED
    BY <1>1, <2>1, <2>2 DEF DbInv
<1>4. CASE CommitMove
  BY <1>1, <1>4 DEF CommitMove, DbInv
<1>5. CASE RollbackMove
  BY <1>1, <1>5 DEF RollbackMove, DbInv
<1>6. CASE Reopen
  <2>1. GoodCatalog(catalog') /\ encode(catalog') = encode(catalog)
    BY <1>6, OpenGood DEF Reopen, DbInv
  <2> QED
    BY <1>1, <1>6, <2>1 DEF Reopen, DbInv
<1>7. CASE StatementMove
  <2>1. PICK s \in Statements : Room(active_catalog, s) /\ (StageMove(s) \/ RunMove(s))
    BY <1>7 DEF StatementMove
  <2>2. PICK new : new = execute_statement(active_catalog, s, options).catalog
    OBVIOUS
  <2>3. GoodCatalog(active_catalog) /\ GoodCatalog(new) /\ Ahead(active_catalog, new)
    BY <2>1, <2>2, StatementGood
  <2>4. CASE StageMove(s)
    <3>1. /\ active_catalog = transaction[1] /\ transaction' = <<new>>
          /\ UNCHANGED <<options, catalog, file>>
      BY <2>2, <2>4 DEF StageMove, active_catalog
    <3>2. GoodCatalog(catalog) /\ Ahead(catalog, transaction[1])
      BY <2>4 DEF StageMove, DbInv
    <3>3. Ahead(catalog, new)
      BY <2>3, <3>1, <3>2, AheadOrder
    <3> QED
      BY <1>1, <2>3, <3>1, <3>3 DEF DbInv
  <2>5. CASE RunMove(s)
    <3>1. /\ active_catalog = catalog /\ transaction' = <<>> /\ catalog' = new
          /\ UNCHANGED options
      BY <2>2, <2>5 DEF RunMove, active_catalog
    <3>2. FileBacked => file' = encode(catalog')
      BY <2>5, RunFile
    <3> QED
      BY <1>1, <2>3, <3>1, <3>2 DEF DbInv
  <2> QED
    BY <2>1, <2>4, <2>5
<1> QED
  BY <1>2, <1>3, <1>4, <1>5, <1>6, <1>7, Moves

\* Whatever statements ran, failed or were rolled back and however often the
\* database was reopened (execute_inner, open_with_options), committed and
\* staged catalogs have typed rows, unique keys and exact lookup maps, and the
\* file holds the committed one.
THEOREM DbInvariant == Spec => []DbInv
BY DbInvInit, DbInvNext, PTL DEF Spec

-----------------------------------------------------------------------------
(* Consequences *)

\* A catalog is staged when it is the committed one or that of the transaction.
LEMMA StagedGood ==
    ASSUME DbInv, NEW c \in Staged PROVE GoodCatalog(c)
<1>1. c = catalog \/ (transaction # <<>> /\ c = transaction[1])
  BY DEF Staged, DbInv
<1> QED
  BY <1>1 DEF DbInv

\* TypeOK: the options, the result, at most one transaction, and rows of exactly
\* their table's columns under positive ids below a bounded next_row_id.
THEOREM DatabaseTypes == Spec => []TypeOK
<1>1. ASSUME DbInv PROVE TypeOK
  <2>1. Len(transaction) <= 1
    BY <1>1 DEF DbInv
  <2>2. ASSUME NEW c \in Staged, NEW n \in DOMAIN c
        PROVE  /\ c[n].next_row_id \in 1..(MaxRowId + 1)
               /\ DOMAIN c[n].rows \subseteq 1..(c[n].next_row_id - 1)
               /\ \A r \in DOMAIN c[n].rows : DOMAIN c[n].rows[r] = ColumnNames(c[n])
    <3>1. DataTable(c[n]) /\ Bounded(c[n])
      BY <1>1, StagedGood DEF GoodCatalog, DataCatalog
    <3> QED
      BY <3>1 DEF Bounded, DataTable, TypedTable, TypedRows
  <2> QED
    BY <1>1, <2>1, <2>2 DEF TypeOK, DbInv
<1> QED
  BY <1>1, DbInvariant, PTL

\* Keys stay unique and every lookup map is what the rows say, whatever
\* statements failed and whenever the database was reopened.
THEOREM LookupMapsExact == Spec => []IndexesExact
<1>1. ASSUME DbInv PROVE IndexesExact
  <2>1. ASSUME NEW c \in Staged, NEW n \in DOMAIN c PROVE ExactTable(c[n])
    BY <1>1, StagedGood DEF GoodCatalog, DataCatalog, DataTable
  <2> QED
    BY <2>1 DEF IndexesExact, ExactTable
<1> QED
  BY <1>1, DbInvariant, PTL

\* The file holds the committed catalog, and opens, with any options, to it.
THEOREM FileHoldsCatalog == Spec => []FileIsCommitted
<1>1. ASSUME DbInv, FileBacked
      PROVE  /\ file = encode(catalog) /\ decode_with_options(file, options).ok
             /\ encode(decode_with_options(file, options).catalog) = file
  <2>1. file = encode(catalog) /\ GoodCatalog(catalog)
    BY <1>1 DEF DbInv
  <2> QED
    BY <2>1, OpenOk, OpenGood
<1>2. DbInv => FileIsCommitted
  BY <1>1 DEF FileIsCommitted
<1> QED
  BY <1>2, DbInvariant, PTL

\* A row id is handed out once while the database is open: a row that appears
\* in the committed catalog has an id that no committed row had.
THEOREM RowIdsAreNew == Spec => NewRowsTakeNewIds
<1> DEFINE A == \A n \in DOMAIN catalog \cap DOMAIN catalog' :
          \A r \in DOMAIN catalog'[n].rows \ DOMAIN catalog[n].rows : r >= catalog[n].next_row_id
<1>1. ASSUME DbInv, Next PROVE A
  <2>1. CASE UNCHANGED catalog
    BY <2>1
  <2>2. CASE CommitMove
    BY <1>1, <2>2 DEF CommitMove, DbInv, Ahead
  <2>3. CASE Reopen
    <3>1. \A n \in DOMAIN catalog : DOMAIN catalog'[n].rows = DOMAIN catalog[n].rows
      BY <1>1, <2>3, OpenGood DEF Reopen, DbInv
    <3> QED
      BY <3>1
  <2>4. CASE StatementMove /\ catalog' # catalog
    <3>1. PICK s \in Statements : Room(active_catalog, s) /\ RunMove(s)
      BY <2>4 DEF StatementMove, StageMove
    <3>2. Ahead(catalog, catalog')
      BY <1>1, <3>1, StatementGood DEF RunMove, active_catalog
    <3> QED
      BY <3>2 DEF Ahead
  <2>5. Quiet \/ BeginMove \/ CommitMove \/ RollbackMove \/ Reopen \/ StatementMove
    BY <1>1, Moves
  <2> QED
    BY <2>1, <2>2, <2>3, <2>4, <2>5 DEF Quiet, BeginMove, RollbackMove
<1>2. DbInv /\ [Next]_vars => [A]_vars
  BY <1>1
<1> QED
  BY <1>2, DbInvariant, PTL DEF Spec, NewRowsTakeNewIds

\* Catalogs with the same data per table have the same Data.
LEMMA SameTables ==
    ASSUME NEW a, NEW b, DOMAIN b = DOMAIN a, \A n \in DOMAIN a : SameData(a[n], b[n])
    PROVE  Data(b) = Data(a)
BY DEF Data, SameData

\* A call that returns an error has changed no data, no row id and not the file,
\* when only the appends before the statement may fail: an append after it can
\* fail with the statement done.
THEOREM ErrorsChangeNothing == OnlyUndoFails => (Spec => FailureChangesNothing)
<1> DEFINE A == result' = "Err" =>
          /\ Data(catalog') = Data(catalog)
          /\ DOMAIN transaction' = DOMAIN transaction
          /\ \A i \in DOMAIN transaction : Data(transaction'[i]) = Data(transaction[i])
          /\ file' = file
<1> SUFFICES ASSUME OnlyUndoFails PROVE Spec => FailureChangesNothing
  OBVIOUS
<1>1. ASSUME DbInv, Next, result' = "Err"
      PROVE  /\ Data(catalog') = Data(catalog)
             /\ DOMAIN transaction' = DOMAIN transaction
             /\ \A i \in DOMAIN transaction : Data(transaction'[i]) = Data(transaction[i])
             /\ file' = file
  <2>1. Quiet \/ StatementMove
    BY <1>1, Moves DEF Error
  <2>2. CASE Quiet
    BY <2>2 DEF Quiet
  <2>3. CASE StatementMove
    <3>1. PICK s \in Statements :
              /\ Room(active_catalog, s) /\ (StageMove(s) \/ RunMove(s))
              /\ ~execute_statement(active_catalog, s, options).ok
      BY <1>1, <2>3 DEF StatementMove, Error
    <3>2. PICK new : new = execute_statement(active_catalog, s, options).catalog
      OBVIOUS
    <3>3. IsStatement(s) /\ GoodCatalog(active_catalog)
      BY <1>1, <3>1, StatementsParsed DEF DbInv, active_catalog
    <3>4. Data(new) = Data(active_catalog)
      BY <3>1, <3>2, <3>3, ExecuteData, SameTables DEF GoodCatalog
    <3>5. CASE StageMove(s)
      <4>1. transaction = <<active_catalog>> /\ transaction' = <<new>>
        BY <1>1, <3>2, <3>5 DEF StageMove, active_catalog, DbInv
      <4> QED
        BY <3>4, <3>5, <4>1 DEF StageMove
    <3>6. CASE RunMove(s)
      <4>1. catalog = active_catalog /\ catalog' = new /\ UNCHANGED transaction
        BY <3>2, <3>6 DEF RunMove, active_catalog
      <4>2. file' = file
        BY <3>1, <3>6 DEF RunMove, active_catalog
      <4> QED
        BY <3>4, <4>1, <4>2
    <3> QED
      BY <3>1, <3>5, <3>6
  <2> QED
    BY <2>1, <2>2, <2>3
<1>2. DbInv /\ [Next]_vars => [A]_vars
  BY <1>1
<1> QED
  BY <1>2, DbInvariant, PTL DEF Spec, FailureChangesNothing

-----------------------------------------------------------------------------
(* The database implements the atomic store *)

\* The staged data of a transaction.
LEMMA StagedDataIs ==
    /\ transaction = <<>> => StagedData = <<>>
    /\ \A c : transaction = <<c>> => StagedData = <<encode(c)>>
BY DEF StagedData

\* A statement changes one table's data, or none.
LEMMA ExecuteOne ==
    ASSUME NEW cat, Sound(cat), NEW s, NEW o
    PROVE  LET new == execute_statement(cat, s, o).catalog
           IN encode(new) = encode(cat) \/ AtomicStore!OneStatement(encode(cat), encode(new))
<1>1. PICK new : new = execute_statement(cat, s, o).catalog
  OBVIOUS
<1>2. /\ DOMAIN cat \subseteq DOMAIN new
      /\ \A n \in DOMAIN cat : n # s.table => new[n] = cat[n]
  BY <1>1, ExecuteSteps
<1>3. \A n \in DOMAIN new \ DOMAIN cat : n = s.table
  BY <1>1, ExecuteNew
<1>4. PICK a, b : a = encode(cat) /\ b = encode(new)
  OBVIOUS
<1>5. /\ DOMAIN a = DOMAIN cat /\ \A n \in DOMAIN cat : a[n] = encode_table(cat[n])
      /\ DOMAIN b = DOMAIN new /\ \A n \in DOMAIN new : b[n] = encode_table(new[n])
  BY <1>4 DEF encode
<1>6. CASE s.table \in DOMAIN new
  <2>1. \A m \in DOMAIN b \ {s.table} : m \in DOMAIN a /\ b[m] = a[m]
    BY <1>2, <1>3, <1>5
  <2>2. AtomicStore!OneStatement(a, b)
    BY <1>2, <1>5, <1>6, <2>1 DEF AtomicStore!OneStatement
  <2> QED
    BY <1>1, <1>4, <2>2
<1>7. CASE s.table \notin DOMAIN new
  <2>1. DOMAIN new = DOMAIN cat /\ \A n \in DOMAIN new : new[n] = cat[n]
    BY <1>2, <1>3, <1>7
  <2> QED
    BY <1>1, <2>1, SameEncoding
<1> QED
  BY <1>6, <1>7

\* Every step of a file-backed database is a step of the store, or changes
\* neither the durable nor the staged data.
LEMMA StoreStep ==
    ASSUME DbInv, FileBacked, Next
    PROVE  AtomicStore!Next \/ UNCHANGED <<file, StagedData>>
<1>1. Quiet \/ BeginMove \/ CommitMove \/ RollbackMove \/ Reopen \/ StatementMove
  BY Moves
<1>2. PICK t, u, d, e, f, g : /\ t = transaction /\ u = transaction'
                              /\ d = StagedData /\ e = StagedData' /\ f = file /\ g = file'
  OBVIOUS
<1>3. t = <<>> \/ t = <<t[1]>>
  BY <1>2 DEF DbInv
<1>4. (t = <<>> => d = <<>>) /\ (t # <<>> => d = <<encode(t[1])>>)
  BY <1>2, <1>3, StagedDataIs
<1>5. (u = <<>> => e = <<>>) /\ \A c : u = <<c>> => e = <<encode(c)>>
  BY <1>2 DEF StagedData
<1>6. f = encode(catalog)
  BY <1>2 DEF DbInv
<1>7. CASE Quiet
  BY <1>7 DEF Quiet, StagedData
<1>8. CASE BeginMove
  <2>1. d = <<>> /\ e = <<f>> /\ g = f
    BY <1>2, <1>4, <1>5, <1>6, <1>8 DEF BeginMove
  <2> QED
    BY <1>2, <2>1 DEF AtomicStore!Next, AtomicStore!Begin
<1>9. CASE CommitMove
  <2>1. d # <<>> /\ e = <<>> /\ g = d[1]
    BY <1>2, <1>3, <1>4, <1>5, <1>9 DEF CommitMove
  <2> QED
    BY <1>2, <2>1 DEF AtomicStore!Next, AtomicStore!Commit
<1>10. CASE RollbackMove \/ Reopen
  <2>1. e = <<>> /\ g = f /\ (d = <<>> \/ d # <<>>)
    BY <1>2, <1>5, <1>10 DEF RollbackMove, Reopen
  <2> QED
    BY <1>2, <2>1 DEF AtomicStore!Next, AtomicStore!Discard
<1>11. CASE StatementMove
  <2>1. PICK s \in Statements : StageMove(s) \/ RunMove(s)
    BY <1>11 DEF StatementMove
  <2>2. CASE StageMove(s)
    <3>1. PICK c, new : c = t[1] /\ new = execute_statement(c, s, options).catalog
      OBVIOUS
    <3>2. t # <<>> /\ u = <<new>> /\ g = f /\ Sound(c)
      BY <1>2, <2>2, <3>1 DEF StageMove, DbInv, GoodCatalog
    <3>3. d = <<encode(c)>> /\ e = <<encode(new)>>
      BY <1>4, <1>5, <3>1, <3>2
    <3>4. encode(new) = encode(c) \/ AtomicStore!OneStatement(encode(c), encode(new))
      BY <3>1, <3>2, ExecuteOne
    <3>5. CASE encode(new) = encode(c)
      BY <1>2, <3>2, <3>3, <3>5
    <3>6. CASE AtomicStore!OneStatement(encode(c), encode(new))
      <4>1. d # <<>> /\ Len(e) = 1 /\ d[1] = encode(c) /\ e[1] = encode(new)
        BY <3>3
      <4>2. AtomicStore!OneStatement(d[1], e[1])
        BY <3>6, <4>1
      <4> QED
        BY <1>2, <3>2, <4>1, <4>2 DEF AtomicStore!Next, AtomicStore!Stage
    <3> QED
      BY <3>4, <3>5, <3>6
  <2>3. CASE RunMove(s)
    <3>1. PICK new : new = execute_statement(catalog, s, options).catalog
      OBVIOUS
    <3>2. /\ t = <<>> /\ u = <<>> /\ catalog' = new /\ g = encode(new) /\ Sound(catalog)
      BY <1>2, <2>3, <3>1, RunFile DEF RunMove, DbInv, GoodCatalog
    <3>3. g = f \/ AtomicStore!OneStatement(f, g)
      BY <1>6, <3>1, <3>2, ExecuteOne
    <3>4. d = <<>> /\ e = <<>>
      BY <1>4, <1>5, <3>2
    <3> QED
      BY <1>2, <3>3, <3>4 DEF AtomicStore!Next, AtomicStore!Autocommit
  <2> QED
    BY <2>1, <2>2, <2>3
<1> QED
  BY <1>1, <1>7, <1>8, <1>9, <1>10, <1>11

\* A file-backed database is an atomic store: its durable data changes by whole
\* statements and whole transactions only, and a reopening drops what was staged.
THEOREM DatabaseIsAtomic == FileBacked => (Spec => ImplementsStore)
<1> SUFFICES ASSUME FileBacked PROVE Spec => ImplementsStore
  OBVIOUS
<1>1. Init => AtomicStore!Init
  <2> SUFFICES ASSUME Init PROVE AtomicStore!Init
    OBVIOUS
  <2>1. DOMAIN file = {}
    BY DEF Init, encode, EmptyCatalog, EmptyMap
  <2> QED
    BY <2>1, StagedDataIs DEF Init, AtomicStore!Init
<1>2. DbInv /\ [Next]_vars => [AtomicStore!Next]_(AtomicStore!vars)
  <2>1. CASE UNCHANGED vars
    BY <2>1 DEF vars, AtomicStore!vars, StagedData
  <2>2. ASSUME DbInv, Next PROVE [AtomicStore!Next]_(AtomicStore!vars)
    BY <2>2, StoreStep DEF AtomicStore!vars
  <2> QED
    BY <2>1, <2>2
<1> QED
  BY <1>1, <1>2, DbInvariant, PTL DEF Spec, ImplementsStore, AtomicStore!Spec

-----------------------------------------------------------------------------
(* Answers *)

\* An equality filter, whichever map or scan serves it, returns no row that a
\* scan would not and misses none with that very value, on the committed and
\* the staged catalog.
THEOREM EqualityAnswersExact == Spec => []LookupExact
<1>1. ASSUME DbInv, NEW cat \in Staged, NEW n \in DOMAIN cat, NEW s \in Statements,
             s.op \in {"Update", "Delete", "Select"},
             s.filter[1] = "Equals", FilterOk(cat[n], s.filter, options)
      PROVE  LET col == column(cat[n], s.filter[2])
                 v == Coerce(col, s.filter[3])
                 found == matching_row_ids(cat[n], s.filter, options)
             IN /\ found \subseteq {r \in DOMAIN cat[n].rows :
                                       SameValue(cat[n].rows[r][col.name], v)}
                /\ {r \in DOMAIN cat[n].rows : cat[n].rows[r][col.name] = v} \subseteq found
  <2>1. PICK t, f, c, col, v :
            /\ t = cat[n] /\ f = s.filter /\ c = f[2]
            /\ col = column(t, c) /\ v = Coerce(col, f[3])
    OBVIOUS
  <2>2. DataTable(t)
    BY <1>1, <2>1, StagedGood DEF GoodCatalog, DataCatalog
  <2>3. f[1] = "Equals" /\ IsValue(f[3])
    BY <1>1, <2>1, StatementsParsed DEF IsStatement
  <2>4. f # <<"None">>
    BY <2>3
  <2>5. c \in ColumnNames(t) /\ Accepts(col, f[3], options)
    BY <1>1, <2>1, <2>3, <2>4 DEF FilterOk
  <2>6. col.name = c
    BY <2>1, <2>5 DEF column, ColumnNames
  <2>7. Storable(v)
    BY <2>1, <2>3, <2>5, CoerceStorable
  <2>8. matching_row_ids(t, f, options) = match_equals(t, c, v)
    BY <2>1, <2>3 DEF matching_row_ids
  <2>9. /\ match_equals(t, c, v) \subseteq {r \in DOMAIN t.rows : SameValue(t.rows[r][c], v)}
        /\ {r \in DOMAIN t.rows : t.rows[r][c] = v} \subseteq match_equals(t, c, v)
    BY <2>2, <2>5, <2>7, EqualsAnswer
  <2> QED
    BY <2>1, <2>6, <2>8, <2>9
<1>2. DbInv => LookupExact
  BY <1>1 DEF LookupExact
<1> QED
  BY <1>2, DbInvariant, PTL

-----------------------------------------------------------------------------
(* The full-text maps *)

TextCatalog(cat, o) ==
    \A n \in DOMAIN cat :
        /\ ExactTexts(cat[n], o.fulltext_tokenizer)
        /\ DOMAIN cat[n].fulltext_indexes # {} => TextIndexed(n)

\* A statement keeps the full-text maps of a catalog exact.
LEMMA ExecuteTexts ==
    ASSUME OneTokenizer, NEW cat, Sound(cat), NEW s \in Statements, NEW o \in OptionSet,
           TextCatalog(cat, o)
    PROVE  TextCatalog(execute_statement(cat, s, o).catalog, o)
<1> DEFINE new == execute_statement(cat, s, o).catalog
<1>1. CASE new = cat
  BY <1>1
<1>2. CASE s.op = "CreateTable" /\ new # cat
  <2>1. new = Put(cat, s.table, NewTable(s.columns))
    BY <1>2 DEF execute_statement
  <2>2. DOMAIN NewTable(s.columns).fulltext_indexes = {}
    BY DEF NewTable, EmptyMap
  <2> HIDE DEF new
  <2>3. TextCatalog(new, o)
    BY <2>1, <2>2 DEF Put, TextCatalog, ExactTexts
  <2> QED
    BY <2>3 DEF new
<1>3. CASE s.op # "CreateTable" /\ new # cat
  <2>1. s.op \in {"CreateIndex", "Insert", "Update", "Delete", "Select"}
    BY <1>3 DEF execute_statement
  <2>2. s.table \in DOMAIN cat /\ new = Put(cat, s.table, OnTable(cat[s.table], s, o).table)
    BY <1>3, <2>1 DEF execute_statement
  <2> HIDE DEF new
  <2>3. PICK t, u : t = cat[s.table] /\ u = OnTable(t, s, o).table
    OBVIOUS
  <2>4. /\ DOMAIN t = Fields /\ ExactTexts(t, o.fulltext_tokenizer)
        /\ DOMAIN t.fulltext_indexes # {} => TextIndexed(s.table)
    BY <2>2, <2>3 DEF Sound, SoundTable, TextCatalog
  <2>5. \/ o.fulltext_tokenizer = DefaultOptions.fulltext_tokenizer
        \/ s.op = "CreateIndex" => s.fulltext \/ DOMAIN t.fulltext_indexes = {}
    BY <2>4 DEF OneTokenizer
  <2>6. /\ ExactTexts(u, o.fulltext_tokenizer)
        /\ \/ DOMAIN u.fulltext_indexes = DOMAIN t.fulltext_indexes
           \/ s.op = "CreateIndex" /\ s.fulltext
    BY <2>1, <2>3, <2>4, <2>5, OnTableTexts
  <2>7. DOMAIN u.fulltext_indexes # {} => TextIndexed(s.table)
    BY <2>4, <2>6 DEF TextIndexed
  <2>8. TextCatalog(new, o)
    BY <2>2, <2>3, <2>6, <2>7 DEF Put, TextCatalog
  <2> QED
    BY <2>8 DEF new
<1> QED
  BY <1>1, <1>2, <1>3

\* So does opening the database again, with the tokenizer of the new options.
LEMMA OpenTexts ==
    ASSUME NEW cat, NEW old, TextCatalog(cat, old), NEW o
    PROVE  TextCatalog(decode_with_options(encode(cat), o).catalog, o)
<1>1. PICK F, new : F = encode(cat) /\ new = decode_with_options(F, o).catalog
  OBVIOUS
<1>2. /\ DOMAIN new = DOMAIN F
      /\ \A n \in DOMAIN F : new[n] = rebuild_indexes(parse_table(F[n]), o)
  BY <1>1 DEF decode_with_options, Rebuilt
<1>3. /\ DOMAIN F = DOMAIN cat
      /\ \A n \in DOMAIN F : DOMAIN F[n].fulltext_indexes = DOMAIN cat[n].fulltext_indexes
  BY <1>1 DEF encode, encode_table, indexes_for_encoding
<1>4. ASSUME NEW n \in DOMAIN F
      PROVE  /\ ExactTexts(new[n], o.fulltext_tokenizer)
             /\ DOMAIN new[n].fulltext_indexes # {} => TextIndexed(n)
  <2> DEFINE p == parse_table(F[n])
  <2>1. DOMAIN p = Fields /\ DOMAIN p.fulltext_indexes = DOMAIN F[n].fulltext_indexes
    BY DEF parse_table, persisted_indexes, Fields
  <2> HIDE DEF p
  <2>2. /\ ExactTexts(rebuild_indexes(p, o), o.fulltext_tokenizer)
        /\ DOMAIN rebuild_indexes(p, o).fulltext_indexes = DOMAIN p.fulltext_indexes
    BY <2>1, RebuildTexts
  <2> QED
    BY <1>2, <1>3, <2>1, <2>2 DEF TextCatalog, p
<1> QED
  BY <1>1, <1>2, <1>4 DEF TextCatalog

\* TextInv, catalog by catalog.
LEMMA TextInvParts ==
    ASSUME DbInv
    PROVE  TextInv <=> /\ TextCatalog(catalog, options)
                       /\ transaction # <<>> => TextCatalog(transaction[1], options)
BY DEF TextInv, TextCatalog, Staged, DbInv

\* Every step keeps the full-text maps exact.
LEMMA TextInvNext ==
    ASSUME OneTokenizer, DbInv, DbInv', TextInv, Next PROVE TextInv'
<1>1. Quiet \/ BeginMove \/ CommitMove \/ RollbackMove \/ Reopen \/ StatementMove
  BY Moves
<1>2. /\ TextCatalog(catalog, options)
      /\ transaction # <<>> => TextCatalog(transaction[1], options)
  BY TextInvParts
<1>3. TextInv' <=> /\ TextCatalog(catalog', options')
                   /\ transaction' # <<>> => TextCatalog(transaction'[1], options')
  BY DEF TextInv, TextCatalog, Staged, DbInv
<1>4. CASE Quiet
  BY <1>2, <1>3, <1>4 DEF Quiet
<1>5. CASE BeginMove
  BY <1>2, <1>3, <1>5 DEF BeginMove
<1>6. CASE CommitMove
  BY <1>2, <1>3, <1>6 DEF CommitMove
<1>7. CASE RollbackMove
  BY <1>2, <1>3, <1>7 DEF RollbackMove
<1>8. CASE Reopen
  <2>1. TextCatalog(catalog', options') /\ transaction' = <<>>
    BY <1>2, <1>8, OpenTexts DEF Reopen, DbInv
  <2> QED
    BY <1>3, <2>1
<1>9. CASE StatementMove
  <2>1. PICK s \in Statements : StageMove(s) \/ RunMove(s)
    BY <1>9 DEF StatementMove
  <2>2. CASE StageMove(s)
    <3>1. TextCatalog(execute_statement(transaction[1], s, options).catalog, options)
      BY <1>2, <2>2, ExecuteTexts DEF StageMove, DbInv, GoodCatalog
    <3>2. /\ transaction' = <<execute_statement(transaction[1], s, options).catalog>>
          /\ options' = options /\ catalog' = catalog
      BY <2>2 DEF StageMove
    <3>3. transaction'[1] = execute_statement(transaction[1], s, options).catalog
      BY <3>2
    <3> QED
      BY <1>2, <1>3, <3>1, <3>2, <3>3
  <2>3. CASE RunMove(s)
    <3>1. TextCatalog(execute_statement(catalog, s, options).catalog, options)
      BY <1>2, <2>3, ExecuteTexts DEF DbInv, GoodCatalog
    <3> QED
      BY <1>3, <2>3, <3>1 DEF RunMove
  <2> QED
    BY <2>1, <2>2, <2>3
<1> QED
  BY <1>1, <1>4, <1>5, <1>6, <1>7, <1>8, <1>9

\* The full-text maps hold the tokens of the tokenizer in use, if create_index
\* cannot meet a full-text index that another tokenizer filled (OneTokenizer).
\* The run db_tokenizer shows that the condition is needed.
THEOREM TextMapsExact == OneTokenizer => (Spec => []FullTextExact)
<1> SUFFICES ASSUME OneTokenizer PROVE Spec => []FullTextExact
  OBVIOUS
<1>1. Init => TextInv
  BY DEF Init, TextInv, Staged, EmptyCatalog, EmptyMap
<1>2. DbInv /\ DbInv' /\ TextInv /\ [Next]_vars => TextInv'
  <2>1. CASE UNCHANGED vars
    BY <2>1 DEF vars, TextInv, Staged
  <2> QED
    BY <2>1, TextInvNext
<1>3. TextInv => FullTextExact
  BY DEF TextInv, ExactTexts, FullTextExact
<1> QED
  BY <1>1, <1>2, <1>3, DbInvariant, PTL DEF Spec

-----------------------------------------------------------------------------
(* The redo stream *)

RedoEvents == {"BEGIN", "COMMIT", "ABORT"}
RedoInv ==
    /\ DOMAIN log = {"undo", "redo", "bin"}
    /\ log.redo \in Seq(RedoEvents \X Statements)
    /\ RedoBracketed

\* An append writes to its own stream: one line, or nothing when it fails or
\* the stream is off.
LEMMA AppendRedo ==
    ASSUME NEW l, DOMAIN l = {"undo", "redo", "bin"}, NEW stream, NEW line,
           NEW a \in append_optional_line(l, stream, line)
    PROVE  /\ DOMAIN a.log = {"undo", "redo", "bin"}
           /\ stream # "redo" => a.log.redo = l.redo
           /\ (stream = "redo" /\ "redo" \notin LogFaults) =>
                 a.log.redo = IF "redo" \in Streams THEN Append(l.redo, line) ELSE l.redo
<1> DEFINE written == [l EXCEPT ![stream] = Append(l[stream], line)]
<1>1. /\ stream \notin Streams => a.log = l
      /\ stream \in Streams => a.log = written \/ (stream \in LogFaults /\ a.log = l)
  <2>1. a \in IF stream \notin Streams THEN {[ok |-> TRUE, log |-> l]}
              ELSE {[ok |-> TRUE, log |-> written]} \cup
                   (IF stream \in LogFaults
                    THEN {[ok |-> FALSE, log |-> l], [ok |-> FALSE, log |-> written]} ELSE {})
    BY DEF append_optional_line
  <2> HIDE DEF written
  <2> QED
    BY <2>1
<1>2. DOMAIN written = DOMAIN l
  OBVIOUS
<1>3. stream # "redo" => written.redo = l.redo
  OBVIOUS
<1>4. stream = "redo" => written.redo = Append(l.redo, line)
  OBVIOUS
<1> HIDE DEF written
<1> QED
  BY <1>1, <1>2, <1>3, <1>4

\* The lines of redo that event leaves.
Line(redo, event, s) == IF "redo" \in Streams THEN Append(redo, <<event, s>>) ELSE redo

\* Before a mutation or a COMMIT: its BEGIN, if the call goes on.
LEMMA BeforeRedo ==
    ASSUME OnlyUndoFails, NEW l, DOMAIN l = {"undo", "redo", "bin"}, NEW s, NEW snapshot,
           NEW a \in LogBefore(l, s, snapshot)
    PROVE  /\ DOMAIN a.log = {"undo", "redo", "bin"}
           /\ ~a.ok => a.log.redo = l.redo
           /\ a.ok => a.log.redo = IF mutates_catalog(s) \/ commits(s)
                                   THEN Line(l.redo, "BEGIN", s) ELSE l.redo
<1>1. "redo" \notin LogFaults
  BY DEF OnlyUndoFails
<1>2. ASSUME NEW k, DOMAIN k = {"undo", "redo", "bin"}, NEW b \in append_redolog(k, "BEGIN", s)
      PROVE  /\ DOMAIN b.log = {"undo", "redo", "bin"} /\ b.ok
             /\ b.log.redo = Line(k.redo, "BEGIN", s)
  BY <1>1, <1>2, AppendRedo, AppendSucceeds DEF append_redolog, Line
<1>3. CASE mutates_catalog(s)
  <2>1. PICK b \in append_undolog(l, s, snapshot) :
            a \in (IF b.ok THEN append_redolog(b.log, "BEGIN", s) ELSE {b})
    BY <1>3 DEF LogBefore, Then
  <2>2. DOMAIN b.log = {"undo", "redo", "bin"} /\ b.log.redo = l.redo
    BY <2>1, AppendRedo DEF append_undolog
  <2>3. CASE b.ok
    BY <1>2, <1>3, <2>1, <2>2, <2>3
  <2>4. CASE ~b.ok
    BY <2>1, <2>2, <2>4
  <2> QED
    BY <2>3, <2>4
<1>4. CASE ~mutates_catalog(s) /\ commits(s)
  BY <1>2, <1>4 DEF LogBefore
<1>5. CASE ~mutates_catalog(s) /\ ~commits(s)
  BY <1>5 DEF LogBefore
<1> QED
  BY <1>3, <1>4, <1>5

\* After it: COMMIT or ABORT.
LEMMA AfterRedo ==
    ASSUME OnlyUndoFails, NEW l, DOMAIN l = {"undo", "redo", "bin"}, NEW s, NEW ok,
           NEW a \in LogAfter(l, s, ok)
    PROVE  /\ DOMAIN a.log = {"undo", "redo", "bin"}
           /\ \E event \in {"COMMIT", "ABORT"} :
                 a.log.redo = IF mutates_catalog(s) \/ commits(s)
                              THEN Line(l.redo, event, s) ELSE l.redo
<1>1. "redo" \notin LogFaults /\ "bin" \notin LogFaults
  BY DEF OnlyUndoFails
<1>2. ASSUME NEW k, DOMAIN k = {"undo", "redo", "bin"}, NEW event, NEW b \in append_redolog(k, event, s)
      PROVE  DOMAIN b.log = {"undo", "redo", "bin"} /\ b.log.redo = Line(k.redo, event, s)
  BY <1>1, <1>2, AppendRedo DEF append_redolog, Line
<1>3. ASSUME NEW k, DOMAIN k = {"undo", "redo", "bin"}, NEW done \in BOOLEAN,
             NEW b \in LogOutcome(k, s, done)
      PROVE  /\ DOMAIN b.log = {"undo", "redo", "bin"}
             /\ \E event \in {"COMMIT", "ABORT"} :
                   b.log.redo = IF mutates_catalog(s) \/ commits(s)
                                THEN Line(k.redo, event, s) ELSE k.redo
  <2>1. CASE ~(mutates_catalog(s) \/ commits(s))
    BY <1>3, <2>1 DEF LogOutcome
  <2>2. CASE (mutates_catalog(s) \/ commits(s)) /\ done
    BY <1>2, <1>3, <2>2 DEF LogOutcome
  <2>3. CASE (mutates_catalog(s) \/ commits(s)) /\ ~done
    <3>1. PICK c \in append_redolog(k, "ABORT", s) : b = [ok |-> FALSE, log |-> c.log]
      BY <1>3, <2>3 DEF LogOutcome
    <3> QED
      BY <1>2, <1>3, <2>3, <3>1
  <2> QED
    BY <2>1, <2>2, <2>3
<1>4. CASE ok
  <2>1. PICK b \in append_binlog(l, s) :
            a \in (IF b.ok THEN LogOutcome(b.log, s, TRUE) ELSE {b})
    BY <1>4 DEF LogAfter, Then
  <2>2. b.ok /\ DOMAIN b.log = {"undo", "redo", "bin"} /\ b.log.redo = l.redo
    BY <1>1, <2>1, AppendRedo, AppendSucceeds DEF append_binlog
  <2>3. PICK k : k = b.log
    OBVIOUS
  <2>4. a \in LogOutcome(k, s, TRUE) /\ DOMAIN k = {"undo", "redo", "bin"} /\ k.redo = l.redo
    BY <2>1, <2>2, <2>3
  <2> QED
    BY <1>3, <2>4
<1>5. CASE ~ok
  BY <1>3, <1>5 DEF LogAfter
<1> QED
  BY <1>4, <1>5

\* A call adds a pair of lines to redo, or none.
LEMMA ExecuteRedo ==
    ASSUME OnlyUndoFails, DOMAIN log = {"undo", "redo", "bin"}, NEW s, NEW outcomes,
           Execute(s, outcomes)
    PROVE  /\ DOMAIN log' = {"undo", "redo", "bin"}
           /\ \/ log'.redo = log.redo
              \/ \E event \in {"COMMIT", "ABORT"} :
                    log'.redo = Append(Append(log.redo, <<"BEGIN", s>>), <<event, s>>)
<1>1. PICK before \in LogBefore(log, s, undo_snapshot) :
          \/ ~before.ok /\ log' = before.log
          \/ before.ok /\ \E ok : \E after \in LogAfter(before.log, s, ok) : log' = after.log
  BY DEF Execute
<1>2. /\ DOMAIN before.log = {"undo", "redo", "bin"}
      /\ ~before.ok => before.log.redo = log.redo
      /\ before.ok => before.log.redo = IF mutates_catalog(s) \/ commits(s)
                                        THEN Line(log.redo, "BEGIN", s) ELSE log.redo
  BY <1>1, BeforeRedo
<1>3. CASE ~before.ok
  BY <1>1, <1>2, <1>3
<1>4. CASE before.ok
  <2>0. PICK k : k = before.log
    OBVIOUS
  <2>1. PICK ok : \E after \in LogAfter(k, s, ok) : log' = after.log
    BY <1>1, <1>4, <2>0
  <2>3. PICK after \in LogAfter(k, s, ok) : log' = after.log
    BY <2>1
  <2>2. PICK event \in {"COMMIT", "ABORT"} :
            /\ DOMAIN log' = {"undo", "redo", "bin"}
            /\ log'.redo = IF mutates_catalog(s) \/ commits(s)
                           THEN Line(k.redo, event, s) ELSE k.redo
    <3>1. DOMAIN k = {"undo", "redo", "bin"}
      BY <1>2, <2>0
    <3>2. /\ DOMAIN after.log = {"undo", "redo", "bin"}
          /\ \E event \in {"COMMIT", "ABORT"} :
                after.log.redo = IF mutates_catalog(s) \/ commits(s)
                                 THEN Line(k.redo, event, s) ELSE k.redo
      BY <3>1, AfterRedo
    <3> QED
      BY <2>3, <3>2
  <2> QED
    BY <1>2, <1>4, <2>0, <2>2 DEF Line
<1> QED
  BY <1>3, <1>4

\* A closed pair of lines keeps the stream bracketed.
LEMMA BracketPair ==
    ASSUME NEW redo \in Seq(RedoEvents \X Statements), NEW s \in Statements,
           NEW event \in {"COMMIT", "ABORT"},
           \A i \in DOMAIN redo : redo[i][1] = "BEGIN" =>
               /\ i < Len(redo) /\ redo[i + 1][1] \in {"COMMIT", "ABORT"}
               /\ redo[i + 1][2] = redo[i][2]
    PROVE  LET new == Append(Append(redo, <<"BEGIN", s>>), <<event, s>>)
           IN /\ new \in Seq(RedoEvents \X Statements)
              /\ \A i \in DOMAIN new : new[i][1] = "BEGIN" =>
                     /\ i < Len(new) /\ new[i + 1][1] \in {"COMMIT", "ABORT"}
                     /\ new[i + 1][2] = new[i][2]
<1>1. <<"BEGIN", s>> \in RedoEvents \X Statements /\ <<event, s>> \in RedoEvents \X Statements
  BY DEF RedoEvents
<1>2. PICK new : new = Append(Append(redo, <<"BEGIN", s>>), <<event, s>>)
  OBVIOUS
<1>3. /\ new \in Seq(RedoEvents \X Statements) /\ Len(new) = Len(redo) + 2
      /\ DOMAIN new = 1..(Len(redo) + 2) /\ DOMAIN redo = 1..Len(redo) /\ Len(redo) \in Nat
      /\ \A i \in 1..Len(redo) : new[i] = redo[i]
      /\ new[Len(redo) + 1] = <<"BEGIN", s>> /\ new[Len(redo) + 2] = <<event, s>>
  BY <1>1, <1>2
<1>4. ASSUME NEW i \in DOMAIN new, new[i][1] = "BEGIN"
      PROVE  /\ i < Len(new) /\ new[i + 1][1] \in {"COMMIT", "ABORT"}
             /\ new[i + 1][2] = new[i][2]
  <2>1. CASE i \in 1..Len(redo)
    BY <1>3, <1>4, <2>1
  <2>2. CASE i = Len(redo) + 1
    <3>1. i + 1 = Len(redo) + 2 /\ i < Len(new)
      BY <1>3, <2>2
    <3>2. new[i + 1] = <<event, s>> /\ new[i] = <<"BEGIN", s>>
      BY <1>3, <2>2, <3>1
    <3> QED
      BY <3>1, <3>2
  <2>3. CASE i = Len(redo) + 2
    BY <1>3, <1>4, <2>3
  <2> QED
    BY <1>3, <2>1, <2>2, <2>3
<1> QED
  BY <1>2, <1>3, <1>4

\* Between two calls no BEGIN is open in redo, if only undo appends may fail.
THEOREM RedoIsBracketed == OnlyUndoFails => (Spec => []RedoBracketed)
<1> SUFFICES ASSUME OnlyUndoFails PROVE Spec => []RedoBracketed
  OBVIOUS
<1>1. Init => RedoInv
  BY DEF Init, EmptyLog, RedoInv, RedoBracketed
<1>2. ASSUME RedoInv, NEW s \in Statements, NEW outcomes, Execute(s, outcomes) PROVE RedoInv'
  <2>1. PICK old, new : old = log.redo /\ new = log'.redo
    OBVIOUS
  <2>2. /\ DOMAIN log' = {"undo", "redo", "bin"}
        /\ \/ new = old
           \/ \E event \in {"COMMIT", "ABORT"} :
                 new = Append(Append(old, <<"BEGIN", s>>), <<event, s>>)
    BY <1>2, <2>1, ExecuteRedo DEF RedoInv
  <2>3. /\ old \in Seq(RedoEvents \X Statements)
        /\ \A i \in DOMAIN old : old[i][1] = "BEGIN" =>
               /\ i < Len(old) /\ old[i + 1][1] \in {"COMMIT", "ABORT"}
               /\ old[i + 1][2] = old[i][2]
    BY <1>2, <2>1 DEF RedoInv, RedoBracketed
  <2>4. /\ new \in Seq(RedoEvents \X Statements)
        /\ \A i \in DOMAIN new : new[i][1] = "BEGIN" =>
               /\ i < Len(new) /\ new[i + 1][1] \in {"COMMIT", "ABORT"}
               /\ new[i + 1][2] = new[i][2]
    <3>1. CASE new = old
      BY <2>3, <3>1
    <3>2. CASE new # old
      <4>1. PICK event \in {"COMMIT", "ABORT"} :
                new = Append(Append(old, <<"BEGIN", s>>), <<event, s>>)
        BY <2>2, <3>2
      <4> QED
        BY <2>3, <4>1, BracketPair, ZenonT(40)
    <3> QED
      BY <3>1, <3>2
  <2> QED
    BY <2>1, <2>2, <2>4 DEF RedoInv, RedoBracketed
<1>3. RedoInv /\ [Next]_vars => RedoInv'
  <2> SUFFICES ASSUME RedoInv, [Next]_vars PROVE RedoInv'
    OBVIOUS
  <2>1. CASE UNCHANGED log
    BY <2>1 DEF RedoInv, RedoBracketed
  <2>2. Next => Reopen \/ \E s \in Statements : \E outcomes : Execute(s, outcomes)
    BY DEF Next, Begin, Commit, Rollback, Explain, Statement, Calls
  <2> QED
    BY <1>2, <2>1, <2>2 DEF vars, Reopen
<1>4. RedoInv => RedoBracketed
  BY DEF RedoInv
<1> QED
  BY <1>1, <1>3, <1>4, PTL DEF Spec

-----------------------------------------------------------------------------
(* Replaying the binlog *)

\* A nonempty set of naturals has a smallest element.
LEMMA SmallestNat ==
    ASSUME NEW S, S \subseteq Nat, S # {}
    PROVE  \E x \in S : \A y \in S : x <= y
<1>1. PICK x \in S : \A y \in S : ~(<<y, x>> \in OpToRel(<, Nat))
  BY NatLessThanWellFounded, WFMin
<1>2. \A y \in S : ~(y < x)
  BY <1>1 DEF OpToRel
<1> QED
  BY <1>2

\* A nonempty set of numbers up to n has a largest element, which is Max.
LEMMA MaxOfRange ==
    ASSUME NEW n \in Nat, NEW S, S \subseteq 1..n, S # {}
    PROVE  Max(S) \in S /\ \A x \in S : x <= Max(S)
<1> DEFINE bounds == {m \in Nat : \A x \in S : x <= m}
<1>1. n \in bounds
  OBVIOUS
<1>2. PICK m \in bounds : \A b \in bounds : m <= b
  <2>1. bounds \subseteq Nat /\ bounds # {}
    BY <1>1
  <2> HIDE DEF bounds
  <2> QED
    BY <2>1, SmallestNat
<1>3. m \in S
  <2> SUFFICES ASSUME m \notin S PROVE FALSE
    OBVIOUS
  <2>1. \A x \in S : x <= m - 1 /\ x >= 1
    BY <1>2
  <2>2. m - 1 \in bounds
    <3>1. PICK x \in S : x >= 1 /\ x <= m - 1
      BY <2>1
    <3>2. m \in Nat /\ x \in Nat
      BY <1>2
    <3>3. m - 1 \in Nat
      BY <3>1, <3>2
    <3> QED
      BY <2>1, <3>3
  <2> QED
    BY <1>2, <2>2
<1> QED
  BY <1>2, <1>3 DEF Max

\* f is what the recursion of FoldLeft in Replay computes on the first n lines.
Folds(f, lines, o, n) ==
    f = [S \in SUBSET (1..n) |->
            IF S = {} THEN <<EmptyCatalog>>
            ELSE ReplayLine(f[S \ {Max(S)}], lines[Max(S)], o)]

FoldOf(lines, o, n) == CHOOSE f : Folds(f, lines, o, n)

LEMMA ReplayIs ==
    ASSUME NEW lines, NEW n, DOMAIN lines = 1..n, NEW o
    PROVE  Replay(lines, o) = FoldOf(lines, o, n)[1..n]
BY DEF Replay, FoldLeft, MapThenFoldSet, Folds, FoldOf

LEMMA FoldsEmpty ==
    ASSUME NEW f, NEW lines, NEW o, NEW n \in Nat, Folds(f, lines, o, n)
    PROVE  DOMAIN f = SUBSET (1..n) /\ f[{}] = <<EmptyCatalog>>
BY DEF Folds

LEMMA FoldsStep ==
    ASSUME NEW f, NEW lines, NEW o, NEW n \in Nat, Folds(f, lines, o, n),
           NEW S \in SUBSET (1..n), S # {}
    PROVE  f[S] = ReplayLine(f[S \ {Max(S)}], lines[Max(S)], o)
BY DEF Folds

\* There is one for every sequence ...
LEMMA FoldsExist ==
    ASSUME NEW lines, NEW o, NEW n \in Nat
    PROVE  \E f : Folds(f, lines, o, n)
<1> DEFINE without == {m \in Nat : ~ \E f : Folds(f, lines, o, m)}
<1> SUFFICES ASSUME without # {} PROVE FALSE
  OBVIOUS
<1>1. PICK m \in without : \A k \in without : m <= k
  <2>1. without \subseteq Nat
    OBVIOUS
  <2> HIDE DEF without
  <2> QED
    BY <2>1, SmallestNat
<1>2. m # 0
  <2>1. Folds([S \in {{}} |-> <<EmptyCatalog>>], lines, o, 0)
    <3>1. SUBSET (1..0) = {{}}
      OBVIOUS
    <3> QED
      BY <3>1 DEF Folds
  <2> QED
    BY <2>1
<1>3. PICK f : Folds(f, lines, o, m - 1)
  <2>1. m - 1 \in Nat /\ m - 1 \notin without
    BY <1>1, <1>2
  <2> QED
    BY <2>1
<1>4. DOMAIN f = SUBSET (1..(m - 1)) /\ f[{}] = <<EmptyCatalog>>
      /\ \A S \in SUBSET (1..(m - 1)) : S # {} =>
             f[S] = ReplayLine(f[S \ {Max(S)}], lines[Max(S)], o)
  <2>1. PICK k \in Nat : k = m - 1
    BY <1>1, <1>2
  <2>2. Folds(f, lines, o, k)
    BY <1>3, <2>1
  <2>3. /\ DOMAIN f = SUBSET (1..k) /\ f[{}] = <<EmptyCatalog>>
        /\ \A S \in SUBSET (1..k) : S # {} =>
               f[S] = ReplayLine(f[S \ {Max(S)}], lines[Max(S)], o)
    <3>1. DOMAIN f = SUBSET (1..k) /\ f[{}] = <<EmptyCatalog>>
      BY <2>2, FoldsEmpty
    <3>2. ASSUME NEW S \in SUBSET (1..k), S # {}
          PROVE  f[S] = ReplayLine(f[S \ {Max(S)}], lines[Max(S)], o)
      BY <2>2, <3>2, FoldsStep
    <3> QED
      BY <3>1, <3>2
  <2> QED
    BY <2>1, <2>3
<1> DEFINE g == [S \in SUBSET (1..m) |->
                    IF m \in S THEN ReplayLine(f[S \ {m}], lines[m], o) ELSE f[S]]
<1>5. ASSUME NEW S \in SUBSET (1..m)
      PROVE  g[S] = IF S = {} THEN <<EmptyCatalog>>
                    ELSE ReplayLine(g[S \ {Max(S)}], lines[Max(S)], o)
  <2>1. CASE S = {}
    BY <1>4, <2>1
  <2>2. CASE m \in S
    <3>0. m \in Nat /\ \A x \in S : x \in Nat /\ x <= m
      BY <1>1
    <3>1. Max(S) \in S /\ \A x \in S : x <= Max(S)
      BY <2>2, <3>0, MaxOfRange
    <3>2. Max(S) = m
      <4>1. PICK x : x = Max(S)
        OBVIOUS
      <4>2. x \in S /\ m <= x /\ x <= m /\ x \in Nat
        BY <2>2, <3>0, <3>1, <4>1
      <4> QED
        BY <3>0, <4>1, <4>2
    <3>3. g[S \ {m}] = f[S \ {m}]
      OBVIOUS
    <3>4. g[S] = ReplayLine(f[S \ {m}], lines[m], o)
      BY <2>2
    <3> HIDE DEF g
    <3> QED
      BY <2>2, <3>2, <3>3, <3>4
  <2>3. CASE m \notin S /\ S # {}
    <3>1. S \in SUBSET (1..(m - 1))
      BY <2>3
    <3>2. g[S] = f[S] /\ g[S \ {Max(S)}] = f[S \ {Max(S)}]
      BY <2>3
    <3> HIDE DEF g
    <3> QED
      BY <1>4, <2>3, <3>1, <3>2
  <2> QED
    BY <2>1, <2>2, <2>3
<1>6. Folds(g, lines, o, m)
  <2>1. g = [S \in SUBSET (1..m) |-> g[S]]
    OBVIOUS
  <2> HIDE DEF g
  <2>2. g = [S \in SUBSET (1..m) |->
               IF S = {} THEN <<EmptyCatalog>>
               ELSE ReplayLine(g[S \ {Max(S)}], lines[Max(S)], o)]
    BY <1>5, <2>1
  <2> QED
    BY <2>2 DEF Folds
<1> HIDE DEF g
<1> QED
  BY <1>1, <1>6

\* ... and only one, which depends on the first n lines alone.
LEMMA FoldsAgree ==
    ASSUME NEW f, NEW g, NEW k, NEW l, NEW o, NEW n \in Nat, NEW m \in n..(n + 1),
           Folds(f, k, o, n), Folds(g, l, o, m), \A i \in 1..n : k[i] = l[i]
    PROVE  f[1..n] = g[1..n]
<1> DEFINE apart == {i \in 0..n : \E S \in SUBSET (1..i) : f[S] # g[S]}
<1> SUFFICES ASSUME apart # {} PROVE FALSE
  <2>1. n \in 0..n /\ 1..n \in SUBSET (1..n)
    OBVIOUS
  <2> QED
    BY <2>1
<1>1. PICK i \in apart : \A j \in apart : i <= j
  <2>1. apart \subseteq Nat
    OBVIOUS
  <2> HIDE DEF apart
  <2> QED
    BY <2>1, SmallestNat
<1>2. PICK S \in SUBSET (1..i) : f[S] # g[S]
  OBVIOUS
<1>3. S \in SUBSET (1..n) /\ S \in SUBSET (1..m) /\ m \in Nat
  BY <1>1, <1>2
<1>4. S # {}
  <2>1. f[{}] = g[{}]
    BY <1>3, FoldsEmpty
  <2> QED
    BY <1>2, <2>1
<1>5. PICK x : x = Max(S) /\ x \in S /\ \A y \in S : y <= x
  BY <1>3, <1>4, MaxOfRange
<1>6. f[S \ {x}] = g[S \ {x}]
  <2>1. x - 1 \in 0..n /\ x - 1 < i /\ S \ {x} \in SUBSET (1..(x - 1))
    <3>1. i \in 0..n /\ x \in 1..i /\ \A y \in S : y \in 1..i
      BY <1>1, <1>2, <1>5
    <3>2. x - 1 \in 0..n /\ x - 1 < i
      BY <3>1
    <3>3. \A y \in S \ {x} : y \in 1..(x - 1)
      BY <1>5, <3>1
    <3> QED
      BY <3>2, <3>3
  <2>2. x - 1 \notin apart
    BY <1>1, <2>1
  <2> QED
    BY <2>1, <2>2
<1>7. f[S] = ReplayLine(f[S \ {x}], k[x], o) /\ g[S] = ReplayLine(g[S \ {x}], l[x], o)
  <2>1. f[S] = ReplayLine(f[S \ {Max(S)}], k[Max(S)], o)
    BY <1>3, <1>4, FoldsStep
  <2>2. g[S] = ReplayLine(g[S \ {Max(S)}], l[Max(S)], o)
    BY <1>3, <1>4, FoldsStep
  <2> QED
    BY <1>5, <2>1, <2>2
<1>8. k[x] = l[x]
  BY <1>3, <1>5
<1> QED
  BY <1>2, <1>6, <1>7, <1>8

\* Replay is a solution of the recursion.
LEMMA ReplayFolds ==
    ASSUME NEW lines, NEW n \in Nat, DOMAIN lines = 1..n, NEW o
    PROVE  \E f : Folds(f, lines, o, n) /\ Replay(lines, o) = f[1..n]
<1>1. \E f : Folds(f, lines, o, n)
  BY FoldsExist
<1>2. Folds(FoldOf(lines, o, n), lines, o, n)
  BY <1>1 DEF FoldOf
<1>3. Replay(lines, o) = FoldOf(lines, o, n)[1..n]
  BY ReplayIs
<1> QED
  BY <1>2, <1>3

\* Replaying one line more is a step from what was replayed before it.
LEMMA ReplayAppend ==
    ASSUME NEW X, NEW lines \in Seq(X), NEW s \in X, NEW o
    PROVE  Replay(Append(lines, s), o) = ReplayLine(Replay(lines, o), s, o)
<1>1. PICK n \in Nat : n = Len(lines)
  OBVIOUS
<1>2. PICK new : new = Append(lines, s)
  OBVIOUS
<1>3. /\ DOMAIN lines = 1..n /\ DOMAIN new = 1..(n + 1)
      /\ new[n + 1] = s /\ \A i \in 1..n : new[i] = lines[i]
  BY <1>1, <1>2
<1>4. PICK f : Folds(f, lines, o, n) /\ Replay(lines, o) = f[1..n]
  BY <1>3, ReplayFolds
<1>5. PICK g : Folds(g, new, o, n + 1) /\ Replay(new, o) = g[1..(n + 1)]
  <2>1. PICK k \in Nat : k = n + 1
    OBVIOUS
  <2>2. \E h : Folds(h, new, o, k) /\ Replay(new, o) = h[1..k]
    BY <1>3, <2>1, ReplayFolds
  <2> QED
    BY <2>1, <2>2
<1>6. f[1..n] = g[1..n]
  <2>1. n + 1 \in n..(n + 1)
    BY <1>1
  <2>2. \A i \in 1..n : lines[i] = new[i]
    BY <1>3
  <2> QED
    BY <1>4, <1>5, <2>1, <2>2, FoldsAgree
<1>7. Max(1..(n + 1)) = n + 1
  <2>1. n + 1 \in 1..(n + 1) /\ n + 1 \in Nat
    OBVIOUS
  <2>2. Max(1..(n + 1)) \in 1..(n + 1) /\ \A x \in 1..(n + 1) : x <= Max(1..(n + 1))
    <3>1. 1..(n + 1) # {} /\ 1..(n + 1) \subseteq 1..(n + 1)
      BY <2>1
    <3> QED
      BY <2>1, <3>1, MaxOfRange
  <2> QED
    BY <2>1, <2>2
<1>8. (1..(n + 1)) \ {n + 1} = 1..n /\ n + 1 \in Nat /\ n + 1 \in 1..(n + 1)
  OBVIOUS
<1>9. g[1..(n + 1)] = ReplayLine(g[1..n], new[n + 1], o)
  <2>1. PICK S \in SUBSET (1..(n + 1)) : S = 1..(n + 1)
    OBVIOUS
  <2>2. S # {}
    BY <1>8, <2>1
  <2>3. g[S] = ReplayLine(g[S \ {Max(S)}], new[Max(S)], o)
    <3>1. PICK k \in Nat : k = n + 1
      BY <1>8
    <3>2. Folds(g, new, o, k) /\ S \in SUBSET (1..k)
      BY <1>5, <3>1
    <3> QED
      BY <2>2, <3>2, FoldsStep
  <2> QED
    BY <1>7, <1>8, <2>1, <2>3
<1> QED
  BY <1>2, <1>3, <1>4, <1>5, <1>6, <1>9

LEMMA ReplayEmpty ==
    ASSUME NEW o PROVE Replay(<<>>, o) = <<EmptyCatalog>>
<1>1. PICK f : Folds(f, <<>>, o, 0) /\ Replay(<<>>, o) = f[1..0]
  <2>1. DOMAIN <<>> = 1..0 /\ 0 \in Nat
    OBVIOUS
  <2> QED
    BY <2>1, ReplayFolds
<1>2. 1..0 = {}
  OBVIOUS
<1> QED
  BY <1>1, <1>2, FoldsEmpty

\* What an append, whose fault is an undo fault, does to a stream.
LEMMA AppendLine ==
    ASSUME NEW l, DOMAIN l = {"undo", "redo", "bin"}, NEW stream, NEW line,
           NEW a \in append_optional_line(l, stream, line)
    PROVE  /\ DOMAIN a.log = {"undo", "redo", "bin"}
           /\ \A other \in DOMAIN l \ {stream} : a.log[other] = l[other]
           /\ stream \notin Streams => a.log = l
           /\ stream \in Streams \cap DOMAIN l =>
                 a.log[stream] = l[stream] \/ a.log[stream] = Append(l[stream], line)
           /\ (stream \in Streams \cap DOMAIN l /\ a.ok) => a.log[stream] = Append(l[stream], line)
<1> DEFINE written == [l EXCEPT ![stream] = Append(l[stream], line)]
<1>1. /\ stream \notin Streams => a.log = l
      /\ stream \in Streams => a.log = written \/ (~a.ok /\ a.log = l)
  <2>1. a \in IF stream \notin Streams THEN {[ok |-> TRUE, log |-> l]}
              ELSE {[ok |-> TRUE, log |-> written]} \cup
                   (IF stream \in LogFaults
                    THEN {[ok |-> FALSE, log |-> l], [ok |-> FALSE, log |-> written]} ELSE {})
    BY DEF append_optional_line
  <2> HIDE DEF written
  <2> QED
    BY <2>1
<1>2. DOMAIN written = DOMAIN l
  OBVIOUS
<1>3. \A other \in DOMAIN l \ {stream} : written[other] = l[other]
  OBVIOUS
<1>4. stream \in DOMAIN l => written[stream] = Append(l[stream], line)
  OBVIOUS
<1> HIDE DEF written
<1> QED
  BY <1>1, <1>2, <1>3, <1>4

\* The lines that a call leaves in the undo stream and the binlog.
UndoLine(undo, s) ==
    IF mutates_catalog(s) /\ "undo" \in Streams THEN Append(undo, <<s, undo_snapshot>>) ELSE undo
BinLine(bin, s, ok) ==
    IF ok /\ (mutates_catalog(s) \/ transaction_control(s)) /\ "bin" \in Streams
    THEN Append(bin, s) ELSE bin

LEMMA BeforeLines ==
    ASSUME OnlyUndoFails, NEW l, DOMAIN l = {"undo", "redo", "bin"}, NEW s,
           NEW a \in LogBefore(l, s, undo_snapshot)
    PROVE  /\ DOMAIN a.log = {"undo", "redo", "bin"}
           /\ a.log.bin = l.bin
           /\ a.log.undo = l.undo \/ a.log.undo = UndoLine(l.undo, s)
           /\ a.ok => a.log.undo = UndoLine(l.undo, s)
<1>1. "redo" \notin LogFaults
  BY DEF OnlyUndoFails
<1>2. ASSUME NEW k, DOMAIN k = {"undo", "redo", "bin"}, NEW b \in append_redolog(k, "BEGIN", s)
      PROVE  DOMAIN b.log = {"undo", "redo", "bin"} /\ b.log.bin = k.bin /\ b.log.undo = k.undo
  BY <1>2, AppendLine DEF append_redolog
<1>3. CASE mutates_catalog(s)
  <2>1. PICK b \in append_undolog(l, s, undo_snapshot) :
            a \in (IF b.ok THEN append_redolog(b.log, "BEGIN", s) ELSE {b})
    BY <1>3 DEF LogBefore, Then
  <2>2. /\ DOMAIN b.log = {"undo", "redo", "bin"} /\ b.log.bin = l.bin
        /\ b.log.undo = l.undo \/ b.log.undo = UndoLine(l.undo, s)
        /\ b.ok => b.log.undo = UndoLine(l.undo, s)
    <3>1. PICK line : line = <<s, undo_snapshot>>
      OBVIOUS
    <3>2. b \in append_optional_line(l, "undo", line)
      BY <2>1, <3>1 DEF append_undolog
    <3>3. /\ DOMAIN b.log = {"undo", "redo", "bin"} /\ b.log["bin"] = l["bin"]
          /\ "undo" \notin Streams => b.log = l
          /\ "undo" \in Streams => b.log["undo"] = l["undo"] \/ b.log["undo"] = Append(l["undo"], line)
          /\ ("undo" \in Streams /\ b.ok) => b.log["undo"] = Append(l["undo"], line)
      BY <3>2, AppendLine
    <3>4. UndoLine(l.undo, s) = IF "undo" \in Streams THEN Append(l.undo, line) ELSE l.undo
      BY <1>3, <3>1 DEF UndoLine
    <3> QED
      BY <3>3, <3>4
  <2>3. CASE b.ok
    <3>1. PICK k : k = b.log
      OBVIOUS
    <3>2. a \in append_redolog(k, "BEGIN", s)
      BY <2>1, <2>3, <3>1
    <3> QED
      BY <1>2, <2>2, <2>3, <3>1, <3>2
  <2>4. CASE ~b.ok
    BY <2>1, <2>2, <2>4
  <2> QED
    BY <2>3, <2>4
<1>4. CASE ~mutates_catalog(s) /\ commits(s)
  BY <1>2, <1>4 DEF LogBefore, UndoLine
<1>5. CASE ~mutates_catalog(s) /\ ~commits(s)
  BY <1>5 DEF LogBefore, UndoLine
<1> QED
  BY <1>3, <1>4, <1>5

LEMMA AfterLines ==
    ASSUME OnlyUndoFails, NEW l, DOMAIN l = {"undo", "redo", "bin"}, NEW s, NEW ok,
           NEW a \in LogAfter(l, s, ok)
    PROVE  /\ DOMAIN a.log = {"undo", "redo", "bin"}
           /\ a.log.undo = l.undo /\ a.log.bin = BinLine(l.bin, s, ok)
<1>1. "redo" \notin LogFaults /\ "bin" \notin LogFaults
  BY DEF OnlyUndoFails
<1>2. ASSUME NEW k, DOMAIN k = {"undo", "redo", "bin"}, NEW event, NEW b \in append_redolog(k, event, s)
      PROVE  DOMAIN b.log = {"undo", "redo", "bin"} /\ b.log.bin = k.bin /\ b.log.undo = k.undo
  BY <1>2, AppendLine DEF append_redolog
<1>3. ASSUME NEW k, DOMAIN k = {"undo", "redo", "bin"}, NEW done, NEW b \in LogOutcome(k, s, done)
      PROVE  DOMAIN b.log = {"undo", "redo", "bin"} /\ b.log.bin = k.bin /\ b.log.undo = k.undo
  <2>1. CASE ~(mutates_catalog(s) \/ commits(s))
    BY <1>3, <2>1 DEF LogOutcome
  <2>2. CASE (mutates_catalog(s) \/ commits(s)) /\ done
    BY <1>2, <1>3, <2>2 DEF LogOutcome
  <2>3. CASE (mutates_catalog(s) \/ commits(s)) /\ ~done
    <3>1. PICK c \in append_redolog(k, "ABORT", s) : b = [ok |-> FALSE, log |-> c.log]
      BY <1>3, <2>3 DEF LogOutcome
    <3> QED
      BY <1>2, <1>3, <3>1
  <2> QED
    BY <2>1, <2>2, <2>3
<1>4. CASE ok
  <2>1. PICK b \in append_binlog(l, s) :
            a \in (IF b.ok THEN LogOutcome(b.log, s, TRUE) ELSE {b})
    BY <1>4 DEF LogAfter, Then
  <2>2. /\ b.ok /\ DOMAIN b.log = {"undo", "redo", "bin"} /\ b.log.undo = l.undo
        /\ b.log.bin = BinLine(l.bin, s, TRUE)
    <3>1. CASE mutates_catalog(s) \/ transaction_control(s)
      <4>1. b \in append_optional_line(l, "bin", s)
        BY <2>1, <3>1 DEF append_binlog
      <4>2. b.ok
        BY <1>1, <4>1, AppendSucceeds
      <4>3. /\ DOMAIN b.log = {"undo", "redo", "bin"} /\ b.log["undo"] = l["undo"]
            /\ "bin" \notin Streams => b.log = l
            /\ "bin" \in Streams => b.log["bin"] = Append(l["bin"], s)
        BY <4>1, <4>2, AppendLine
      <4>4. BinLine(l.bin, s, TRUE) = IF "bin" \in Streams THEN Append(l.bin, s) ELSE l.bin
        BY <3>1 DEF BinLine
      <4> QED
        BY <4>2, <4>3, <4>4
    <3>2. CASE ~(mutates_catalog(s) \/ transaction_control(s))
      BY <2>1, <3>2 DEF append_binlog, BinLine
    <3> QED
      BY <3>1, <3>2
  <2>3. PICK k : k = b.log
    OBVIOUS
  <2>4. a \in LogOutcome(k, s, TRUE)
    BY <2>1, <2>2, <2>3
  <2>5. DOMAIN a.log = {"undo", "redo", "bin"} /\ a.log.bin = k.bin /\ a.log.undo = k.undo
    BY <1>3, <2>2, <2>3, <2>4
  <2> QED
    BY <1>4, <2>2, <2>3, <2>5 DEF BinLine
<1>5. CASE ~ok
  BY <1>3, <1>5 DEF LogAfter, BinLine
<1> QED
  BY <1>4, <1>5

\* A call whose undo line cannot be written does nothing; any other has one of
\* the statement's outcomes, and its lines in both streams.
LEMMA ExecuteLines ==
    ASSUME OnlyUndoFails, DOMAIN log = {"undo", "redo", "bin"}, NEW s, NEW outcomes,
           Execute(s, outcomes)
    PROVE  /\ DOMAIN log' = {"undo", "redo", "bin"} /\ options' = options
           /\ \/ /\ UNCHANGED <<catalog, transaction>> /\ log'.bin = log.bin
                 /\ log'.undo = log.undo \/ log'.undo = UndoLine(log.undo, s)
              \/ /\ \E o \in outcomes :
                       /\ catalog' = o.catalog /\ transaction' = o.transaction
                       /\ log'.bin = BinLine(log.bin, s, o.ok)
                 /\ log'.undo = UndoLine(log.undo, s)
<1>1. PICK before \in LogBefore(log, s, undo_snapshot) :
          \/ /\ ~before.ok /\ log' = before.log
             /\ UNCHANGED <<options, catalog, transaction>>
          \/ /\ before.ok
             /\ \E o \in outcomes : \E after \in LogAfter(before.log, s, o.ok) :
                    /\ catalog' = o.catalog /\ transaction' = o.transaction
                    /\ log' = after.log /\ options' = options
  BY DEF Execute
<1>2. /\ DOMAIN before.log = {"undo", "redo", "bin"}
      /\ before.log.bin = log.bin
      /\ before.log.undo = log.undo \/ before.log.undo = UndoLine(log.undo, s)
      /\ before.ok => before.log.undo = UndoLine(log.undo, s)
  BY <1>1, BeforeLines
<1>3. CASE ~before.ok
  BY <1>1, <1>2, <1>3
<1>4. CASE before.ok
  <2>1. PICK k : k = before.log
    OBVIOUS
  <2>2. PICK o \in outcomes : \E after \in LogAfter(k, s, o.ok) :
            /\ catalog' = o.catalog /\ transaction' = o.transaction
            /\ log' = after.log /\ options' = options
    BY <1>1, <1>4, <2>1
  <2>3. PICK ok : ok = o.ok
    OBVIOUS
  <2>4. PICK after \in LogAfter(k, s, ok) :
            /\ catalog' = o.catalog /\ transaction' = o.transaction
            /\ log' = after.log /\ options' = options
    BY <2>2, <2>3
  <2>5. /\ DOMAIN after.log = {"undo", "redo", "bin"}
        /\ after.log.undo = k.undo /\ after.log.bin = BinLine(k.bin, s, ok)
    BY <1>2, <2>1, <2>4, AfterLines
  <2> QED
    BY <1>2, <1>4, <2>1, <2>2, <2>3, <2>4, <2>5
<1> QED
  BY <1>3, <1>4

\* Sequences of one and two catalogs: <<committed>>, or <<committed, staged>>.
LEMMA PairFacts ==
    ASSUME NEW c, NEW t
    PROVE  /\ <<c>> \in Seq({c, t}) /\ <<t>> \in Seq({c, t}) /\ <<c, t>> \in Seq({c, t})
           /\ Len(<<c>>) = 1 /\ Len(<<t>>) = 1 /\ Len(<<c, t>>) = 2
           /\ <<c>>[1] = c /\ <<t>>[1] = t /\ <<c, t>>[1] = c /\ <<c, t>>[2] = t
OBVIOUS

LEMMA JoinNone ==
    ASSUME NEW c PROVE <<c>> \o <<>> = <<c>>
<1>1. <<c>> \in Seq({c})
  OBVIOUS
<1> QED
  BY <1>1, ConcatEmptySeq

LEMMA JoinOne ==
    ASSUME NEW c, NEW t PROVE <<c>> \o <<t>> = <<c, t>>
<1>1. PICK a, b, d : a = <<c>> /\ b = <<t>> /\ d = a \o b
  OBVIOUS
<1>2. d \in Seq({c, t}) /\ Len(d) = 2 /\ d[1] = c /\ d[2] = t
  BY <1>1, PairFacts, ConcatProperties
<1>3. \A i \in 1..2 : d[i] = <<c, t>>[i]
  BY <1>2, PairFacts
<1>4. d = <<c, t>>
  BY <1>2, <1>3, PairFacts, SeqEqual
<1> QED
  BY <1>1, <1>4

LEMMA FrontLastOne ==
    ASSUME NEW c PROVE Front(<<c>>) = <<>> /\ Last(<<c>>) = c
<1>1. SubSeq(<<c>>, 1, 0) = <<>>
  BY SubSeqEmpty
<1> QED
  BY <1>1 DEF Front, Last

LEMMA FrontLastTwo ==
    ASSUME NEW c, NEW t PROVE Front(<<c, t>>) = <<c>> /\ Last(<<c, t>>) = t
<1>1. PICK a, d : a = <<c, t>> /\ d = SubSeq(a, 1, 1)
  OBVIOUS
<1>2. d \in Seq({c, t}) /\ Len(d) = 1 /\ d[1] = c
  BY <1>1, PairFacts, SubSeqProperties
<1>3. \A i \in 1..1 : d[i] = <<c>>[i]
  BY <1>2, PairFacts
<1>4. d = <<c>>
  BY <1>2, <1>3, PairFacts, SeqEqual
<1>5. Len(a) = 2 /\ a[2] = t
  BY <1>1, PairFacts
<1>6. Front(a) = d /\ Last(a) = t
  BY <1>1, <1>5 DEF Front, Last
<1> QED
  BY <1>1, <1>4, <1>6

LEMMA AppendToNone ==
    ASSUME NEW x PROVE Append(<<>>, x) = <<x>>
<1>1. PICK a, d : a = <<>> /\ d = Append(a, x)
  OBVIOUS
<1>2. a \in Seq({x}) /\ <<x>> \in Seq({x})
  BY <1>1
<1>3. d \in Seq({x}) /\ Len(d) = 1 /\ d[1] = x
  BY <1>1, <1>2, AppendProperties
<1>4. \A i \in 1..1 : d[i] = <<x>>[i]
  BY <1>3
<1> QED
  BY <1>1, <1>2, <1>3, <1>4, SeqEqual

LEMMA AppendToOne ==
    ASSUME NEW c, NEW x PROVE Append(<<c>>, x) = <<c, x>>
<1>1. PICK a, d : a = <<c>> /\ d = Append(a, x)
  OBVIOUS
<1>2. d \in Seq({c, x}) /\ Len(d) = 2 /\ d[1] = c /\ d[2] = x
  BY <1>1, PairFacts, AppendProperties
<1>3. \A i \in 1..2 : d[i] = <<c, x>>[i]
  BY <1>2, PairFacts
<1> QED
  BY <1>1, <1>2, <1>3, PairFacts, SeqEqual, ZenonT(40)

\* What a line of each kind does to them.
LEMMA LineBegin ==
    ASSUME NEW c, NEW s, NEW o, s.op = "Begin"
    PROVE  ReplayLine(<<c>>, s, o) = <<c, c>>
<1>1. PICK db : db = <<c>>
  OBVIOUS
<1>2. db[1] = c
  BY <1>1, PairFacts
<1>3. ReplayLine(db, s, o) = <<db[1], db[1]>>
  BY DEF ReplayLine
<1> QED
  BY <1>1, <1>2, <1>3

LEMMA LineCommit ==
    ASSUME NEW c, NEW t, NEW s, NEW o, s.op = "Commit"
    PROVE  ReplayLine(<<c, t>>, s, o) = <<t>>
<1>1. PICK db : db = <<c, t>>
  OBVIOUS
<1>2. db[2] = t
  BY <1>1, PairFacts
<1>3. ReplayLine(db, s, o) = <<db[2]>>
  BY DEF ReplayLine
<1> QED
  BY <1>1, <1>2, <1>3

LEMMA LineRollback ==
    ASSUME NEW c, NEW t, NEW s, NEW o, s.op = "Rollback"
    PROVE  ReplayLine(<<c, t>>, s, o) = <<c>>
<1>1. PICK db : db = <<c, t>>
  OBVIOUS
<1>2. db[1] = c
  BY <1>1, PairFacts
<1>3. ReplayLine(db, s, o) = <<db[1]>>
  BY DEF ReplayLine
<1> QED
  BY <1>1, <1>2, <1>3

LEMMA LineMutation ==
    ASSUME NEW db, NEW s, NEW o, mutates_catalog(s)
    PROVE  ReplayLine(db, s, o) = Append(Front(db), execute_statement(Last(db), s, o).catalog)
<1>1. s.op \notin {"Begin", "Commit", "Rollback"}
  BY DEF mutates_catalog
<1> QED
  BY <1>1 DEF ReplayLine

LEMMA LineOutside ==
    ASSUME NEW c, NEW s, NEW o, mutates_catalog(s)
    PROVE  ReplayLine(<<c>>, s, o) = <<execute_statement(c, s, o).catalog>>
<1>1. PICK db : db = <<c>>
  OBVIOUS
<1>2. Front(db) = <<>> /\ Last(db) = c
  BY <1>1, FrontLastOne
<1>3. ReplayLine(db, s, o) = Append(<<>>, execute_statement(c, s, o).catalog)
  BY <1>2, LineMutation
<1> QED
  BY <1>1, <1>3, AppendToNone

LEMMA LineInside ==
    ASSUME NEW c, NEW t, NEW s, NEW o, mutates_catalog(s)
    PROVE  ReplayLine(<<c, t>>, s, o) = <<c, execute_statement(t, s, o).catalog>>
<1>1. PICK db : db = <<c, t>>
  OBVIOUS
<1>2. Front(db) = <<c>> /\ Last(db) = t
  BY <1>1, FrontLastTwo
<1>3. ReplayLine(db, s, o) = Append(<<c>>, execute_statement(t, s, o).catalog)
  BY <1>2, LineMutation
<1> QED
  BY <1>1, <1>3, AppendToOne

\* Catalogs whose tables have the shape that execution keeps.
Shaped(c, t) == ShapedCatalog(c) /\ (t # <<>> => ShapedCatalog(t[1]))
Logged(s) == mutates_catalog(s) \/ transaction_control(s)

\* An outcome of an operation is what replaying its line does, or nothing if
\* it writes none.
Replays(s, o) ==
    /\ Shaped(o.catalog, o.transaction)
    /\ <<o.catalog>> \o o.transaction =
           IF o.ok /\ Logged(s) THEN ReplayLine(<<catalog>> \o transaction, s, options)
           ELSE <<catalog>> \o transaction

LEMMA ControlReplays ==
    ASSUME DbInv, Shaped(catalog, transaction), NEW s
    PROVE  /\ s.op = "Begin" => \A o \in begin : Replays(s, o)
           /\ s.op = "Commit" => \A o \in commit : Replays(s, o)
           /\ s.op = "Rollback" => \A o \in rollback : Replays(s, o)
           /\ s.op = "Explain" => \A o \in explain(s) : Replays(s, o)
<1>0. transaction = <<>> \/ transaction = <<transaction[1]>>
  BY DEF DbInv
<1>1. ASSUME NEW o, o.catalog = catalog, o.transaction = transaction, ~o.ok \/ ~Logged(s)
      PROVE  Replays(s, o)
  BY <1>1 DEF Replays
<1>2. ASSUME s.op = "Begin", NEW o \in begin PROVE Replays(s, o)
  <2>1. \/ o = Outcome(FALSE, catalog, transaction, file)
        \/ transaction = <<>> /\ o = Outcome(TRUE, catalog, <<catalog>>, file)
    BY <1>2 DEF begin, Unchanged
  <2>2. CASE o = Outcome(FALSE, catalog, transaction, file)
    BY <1>1, <2>2 DEF Outcome
  <2>3. CASE transaction = <<>> /\ o = Outcome(TRUE, catalog, <<catalog>>, file)
    <3>1. o.ok /\ o.catalog = catalog /\ o.transaction = <<catalog>>
      BY <2>3 DEF Outcome
    <3>2. Shaped(o.catalog, o.transaction)
      BY <3>1 DEF Shaped
    <3>3. <<catalog>> \o transaction = <<catalog>> /\ <<o.catalog>> \o o.transaction = <<catalog, catalog>>
      BY <2>3, <3>1, JoinNone, JoinOne
    <3>4. ReplayLine(<<catalog>>, s, options) = <<catalog, catalog>>
      BY <1>2, LineBegin
    <3>5. Logged(s)
      BY <1>2 DEF Logged, transaction_control
    <3> QED
      BY <3>1, <3>2, <3>3, <3>4, <3>5 DEF Replays
  <2> QED
    BY <2>1, <2>2, <2>3
<1>3. ASSUME s.op = "Commit", NEW o \in commit PROVE Replays(s, o)
  <2>1. \/ o = Outcome(FALSE, catalog, transaction, file)
        \/ /\ transaction # <<>> /\ o.ok
           /\ o.catalog = transaction[1] /\ o.transaction = <<>>
    BY <1>3 DEF commit, persist, Unchanged, Outcome
  <2>2. CASE o = Outcome(FALSE, catalog, transaction, file)
    BY <1>1, <2>2 DEF Outcome
  <2>3. CASE transaction # <<>> /\ o.ok /\ o.catalog = transaction[1] /\ o.transaction = <<>>
    <3>1. PICK t : t = transaction[1] /\ transaction = <<t>>
      BY <1>0, <2>3
    <3>2. Shaped(o.catalog, o.transaction)
      BY <2>3 DEF Shaped
    <3>3. <<catalog>> \o transaction = <<catalog, t>> /\ <<o.catalog>> \o o.transaction = <<t>>
      BY <2>3, <3>1, JoinNone, JoinOne
    <3>4. ReplayLine(<<catalog, t>>, s, options) = <<t>>
      BY <1>3, LineCommit
    <3>5. Logged(s)
      BY <1>3 DEF Logged, transaction_control
    <3> QED
      BY <2>3, <3>2, <3>3, <3>4, <3>5 DEF Replays
  <2> QED
    BY <2>1, <2>2, <2>3
<1>4. ASSUME s.op = "Rollback", NEW o \in rollback PROVE Replays(s, o)
  <2>1. \/ o = Outcome(FALSE, catalog, transaction, file)
        \/ transaction # <<>> /\ o = Outcome(TRUE, catalog, <<>>, file)
    BY <1>4 DEF rollback, Unchanged
  <2>2. CASE o = Outcome(FALSE, catalog, transaction, file)
    BY <1>1, <2>2 DEF Outcome
  <2>3. CASE transaction # <<>> /\ o = Outcome(TRUE, catalog, <<>>, file)
    <3>1. PICK t : transaction = <<t>>
      BY <1>0, <2>3
    <3>2. o.ok /\ o.catalog = catalog /\ o.transaction = <<>>
      BY <2>3 DEF Outcome
    <3>3. Shaped(o.catalog, o.transaction)
      BY <3>2 DEF Shaped
    <3>4. <<catalog>> \o transaction = <<catalog, t>> /\ <<o.catalog>> \o o.transaction = <<catalog>>
      BY <3>1, <3>2, JoinNone, JoinOne
    <3>5. ReplayLine(<<catalog, t>>, s, options) = <<catalog>>
      BY <1>4, LineRollback
    <3>6. Logged(s)
      BY <1>4 DEF Logged, transaction_control
    <3> QED
      BY <3>2, <3>3, <3>4, <3>5, <3>6 DEF Replays
  <2> QED
    BY <2>1, <2>2, <2>3
<1>5. ASSUME s.op = "Explain", NEW o \in explain(s) PROVE Replays(s, o)
  <2>1. o.catalog = catalog /\ o.transaction = transaction
    BY <1>5 DEF explain, Unchanged, Outcome
  <2>2. ~Logged(s)
    BY <1>5 DEF Logged, mutates_catalog, transaction_control
  <2> QED
    BY <1>1, <2>1, <2>2
<1> QED
  BY <1>2, <1>3, <1>4, <1>5

LEMMA StatementReplays ==
    ASSUME DbInv, TextInv, Shaped(catalog, transaction), NEW s \in Statements,
           ~transaction_control(s), NEW o \in execute_catalog_statement(s)
    PROVE  Replays(s, o)
<1> DEFINE done == execute_statement(active_catalog, s, options)
<1>0. transaction = <<>> \/ transaction = <<transaction[1]>>
  BY DEF DbInv
<1>1. PICK a : a = active_catalog
  OBVIOUS
<1>2. /\ GoodCatalog(a) /\ ShapedCatalog(a)
      /\ \A n \in DOMAIN a : ExactTexts(a[n], options.fulltext_tokenizer)
  BY <1>1, TextInvParts DEF active_catalog, DbInv, Shaped, TextCatalog
<1>3. IsStatement(s)
  BY StatementsParsed
<1>4. PICK new, ok : done.catalog = new /\ done.ok = ok
  OBVIOUS
<1>5. ~ok \/ ~mutates_catalog(s) => new = a
  BY <1>1, <1>2, <1>3, <1>4, ExecuteSame DEF GoodCatalog
<1>6. ShapedCatalog(new)
  BY <1>1, <1>2, <1>4, ExecuteShaped
<1>7. new = execute_statement(a, s, options).catalog
  BY <1>1, <1>4
<1>8. /\ transaction # <<>> => o = Outcome(ok, catalog, <<new>>, file)
      /\ (transaction = <<>> /\ ~mutates_catalog(s)) => o = Outcome(ok, new, <<>>, file)
      /\ (transaction = <<>> /\ mutates_catalog(s) /\ ok) =>
             o = Outcome(FALSE, catalog, transaction, file) \/ \E f : o = Outcome(TRUE, new, <<>>, f)
      /\ (transaction = <<>> /\ mutates_catalog(s) /\ ~ok) =>
             o = Outcome(FALSE, catalog, transaction, file)
  <2>1. o \in IF transaction # <<>> THEN {Outcome(ok, catalog, <<new>>, file)}
              ELSE IF ~mutates_catalog(s) THEN {Outcome(ok, new, <<>>, file)}
              ELSE IF ok THEN persist(new, <<>>, Unchanged(FALSE))
              ELSE {Unchanged(FALSE)}
    BY <1>4 DEF execute_catalog_statement
  <2>2. persist(new, <<>>, Unchanged(FALSE)) \subseteq
            {Outcome(FALSE, catalog, transaction, file)} \cup
            {Outcome(TRUE, new, <<>>, f) : f \in {file, encode(new)}}
    BY DEF persist, Unchanged
  <2> QED
    BY <2>1, <2>2 DEF Unchanged
<1> HIDE DEF done
<1>9. CASE transaction # <<>>
  <2>1. PICK t : t = transaction[1] /\ transaction = <<t>> /\ a = t
    BY <1>0, <1>1, <1>9 DEF active_catalog
  <2>2. o.ok = ok /\ o.catalog = catalog /\ o.transaction = <<new>>
    BY <1>8, <1>9 DEF Outcome
  <2>3. Shaped(o.catalog, o.transaction)
    BY <1>6, <2>2 DEF Shaped
  <2>4. <<catalog>> \o transaction = <<catalog, t>> /\ <<o.catalog>> \o o.transaction = <<catalog, new>>
    BY <2>1, <2>2, JoinNone, JoinOne
  <2>5. mutates_catalog(s) => ReplayLine(<<catalog, t>>, s, options) = <<catalog, new>>
    BY <1>7, <2>1, LineInside
  <2> QED
    BY <1>5, <2>1, <2>2, <2>3, <2>4, <2>5 DEF Replays, Logged
<1>10. CASE transaction = <<>>
  <2>1. a = catalog /\ <<catalog>> \o transaction = <<catalog>>
    BY <1>1, <1>10, JoinNone, JoinOne DEF active_catalog
  <2>2. CASE o.catalog = catalog /\ o.transaction = transaction /\ ~o.ok
    BY <2>2 DEF Replays
  <2>3. CASE o.catalog = new /\ o.transaction = <<>> /\ mutates_catalog(s) /\ o.ok
    <3>1. ReplayLine(<<catalog>>, s, options) = <<new>>
      BY <1>7, <2>1, <2>3, LineOutside
    <3>2. <<o.catalog>> \o o.transaction = <<new>>
      BY <2>3, JoinNone, JoinOne
    <3> QED
      BY <1>6, <2>1, <2>3, <3>1, <3>2 DEF Replays, Logged, Shaped
  <2>4. CASE o.catalog = new /\ o.transaction = <<>> /\ ~mutates_catalog(s)
    BY <1>5, <1>10, <2>1, <2>4 DEF Replays, Logged, Shaped
  <2> QED
    BY <1>8, <1>10, <2>2, <2>3, <2>4 DEF Outcome
<1> QED
  BY <1>9, <1>10

\* What replaying needs: the catalogs have the shape that execution keeps, and
\* the two streams are sequences.
BinInv ==
    /\ DOMAIN log = {"undo", "redo", "bin"} /\ IsVec(log.undo) /\ log.bin \in Seq(Statements)
    /\ Shaped(catalog, transaction)
    /\ BinlogReplays /\ UndoReverts

\* The catalog that statements work on is the last one replayed.
LEMMA ActiveReplayed ==
    ASSUME DbInv PROVE Last(<<catalog>> \o transaction) = active_catalog
<1>1. CASE transaction = <<>>
  BY <1>1, JoinNone, FrontLastOne DEF active_catalog
<1>2. CASE transaction # <<>>
  <2>1. PICK t : t = transaction[1] /\ transaction = <<t>>
    BY <1>2 DEF DbInv
  <2>2. active_catalog = t
    BY <1>2, <2>1 DEF active_catalog
  <2>3. <<catalog>> \o transaction = <<catalog, t>>
    BY <2>1, JoinOne
  <2> QED
    BY <2>2, <2>3, FrontLastTwo
<1> QED
  BY <1>1, <1>2

LEMMA AppendParts ==
    ASSUME NEW X, NEW lines \in Seq(X), NEW s \in X
    PROVE  /\ Append(lines, s) \in Seq(X) /\ Append(lines, s) # <<>>
           /\ Front(Append(lines, s)) = lines /\ Last(Append(lines, s)) = s
<1>1. PICK new : new = Append(lines, s)
  OBVIOUS
<1>2. new \in Seq(X) /\ Len(new) = Len(lines) + 1 /\ new[Len(new)] = s
      /\ \A i \in 1..Len(lines) : new[i] = lines[i]
  BY <1>1, AppendProperties
<1>3. new # <<>> /\ Last(new) = s
  BY <1>2 DEF Last
<1>4. SubSeq(new, 1, Len(lines)) = lines
  <2>1. PICK d, n : n = Len(lines) /\ d = SubSeq(new, 1, n)
    OBVIOUS
  <2>2. n \in Nat /\ \A i \in 1..n : new[i] \in X
    BY <1>2, <2>1
  <2>3. d \in Seq(X) /\ Len(d) = n /\ \A i \in 1..n : d[i] = new[i]
    BY <2>1, <2>2, SubSeqProperties
  <2> QED
    BY <1>2, <2>1, <2>3, SeqEqual
<1>5. Front(new) = lines
  <2>1. Len(new) - 1 = Len(lines)
    BY <1>2
  <2> QED
    BY <1>4, <2>1 DEF Front
<1> QED
  BY <1>1, <1>2, <1>3, <1>5

LEMMA AppendToVec ==
    ASSUME NEW v, IsVec(v), NEW x
    PROVE  /\ IsVec(Append(v, x))
           /\ Range(v) \subseteq Range(Append(v, x)) /\ x \in Range(Append(v, x))
<1>1. PICK X : v \in Seq(X) /\ x \in X
  <2>1. v \in Seq({v[i] : i \in DOMAIN v} \cup {x})
    BY DEF IsVec
  <2> QED
    BY <2>1
<1>2. PICK new : new = Append(v, x)
  OBVIOUS
<1>3. /\ new \in Seq(X) /\ DOMAIN v = 1..Len(v) /\ DOMAIN new = 1..(Len(v) + 1)
      /\ new[Len(v) + 1] = x /\ \A i \in 1..Len(v) : new[i] = v[i]
  BY <1>1, <1>2
<1>4. Len(v) \in Nat
  BY <1>1
<1>5. IsVec(new)
  <2>1. \A i \in 1..Len(new) : new[i] \in {new[j] : j \in DOMAIN new}
    BY <1>3
  <2> QED
    BY <1>3, <2>1 DEF IsVec
<1>6. Range(v) \subseteq Range(new) /\ x \in Range(new)
  BY <1>3, <1>4 DEF Range
<1> QED
  BY <1>2, <1>5, <1>6

LEMMA UndoLineGrows ==
    ASSUME NEW undo, IsVec(undo), NEW s
    PROVE  /\ IsVec(UndoLine(undo, s)) /\ Range(undo) \subseteq Range(UndoLine(undo, s))
           /\ (mutates_catalog(s) /\ "undo" \in Streams) =>
                  <<s, undo_snapshot>> \in Range(UndoLine(undo, s))
<1>1. PICK line : line = <<s, undo_snapshot>>
  OBVIOUS
<1>2. UndoLine(undo, s) = IF mutates_catalog(s) /\ "undo" \in Streams THEN Append(undo, line) ELSE undo
  BY <1>1 DEF UndoLine
<1> QED
  BY <1>1, <1>2, AppendToVec

\* A call of a statement whose outcomes do what replaying its line does.
LEMMA CallReplays ==
    ASSUME OnlyUndoFails, DbInv, BinInv, NEW s \in Statements, NEW outcomes,
           Execute(s, outcomes), \A o \in outcomes : Replays(s, o)
    PROVE  BinInv'
<1>1. /\ DOMAIN log = {"undo", "redo", "bin"} /\ IsVec(log.undo) /\ log.bin \in Seq(Statements)
      /\ Shaped(catalog, transaction)
  BY DEF BinInv
<1>2. /\ DOMAIN log' = {"undo", "redo", "bin"} /\ options' = options
      /\ \/ /\ UNCHANGED <<catalog, transaction>> /\ log'.bin = log.bin
            /\ log'.undo = log.undo \/ log'.undo = UndoLine(log.undo, s)
         \/ /\ \E o \in outcomes :
                  /\ catalog' = o.catalog /\ transaction' = o.transaction
                  /\ log'.bin = BinLine(log.bin, s, o.ok)
            /\ log'.undo = UndoLine(log.undo, s)
  BY <1>1, ExecuteLines
<1>3. IsVec(log'.undo) /\ Range(log.undo) \subseteq Range(log'.undo)
  BY <1>1, <1>2, UndoLineGrows
<1>4. \/ UNCHANGED <<catalog, transaction>> /\ log'.bin = log.bin
      \/ /\ Shaped(catalog', transaction')
         /\ <<catalog'>> \o transaction' = <<catalog>> \o transaction
         /\ log'.bin = log.bin
      \/ /\ Shaped(catalog', transaction')
         /\ <<catalog'>> \o transaction' = ReplayLine(<<catalog>> \o transaction, s, options)
         /\ log'.bin = IF "bin" \in Streams THEN Append(log.bin, s) ELSE log.bin
         /\ log'.undo = UndoLine(log.undo, s)
  BY <1>2 DEF Replays, BinLine, Logged
<1>5. CASE log'.bin = log.bin /\ ("bin" \in Streams => <<catalog'>> \o transaction' = <<catalog>> \o transaction)
  <2>1. log'.bin \in Seq(Statements)
    BY <1>1, <1>5
  <2>2. Shaped(catalog', transaction')
    BY <1>1, <1>4
  <2>3. BinlogReplays'
    BY <1>2, <1>5 DEF BinInv, BinlogReplays
  <2>4. UndoReverts'
    BY <1>2, <1>3, <1>5 DEF BinInv, UndoReverts
  <2> QED
    BY <1>2, <1>3, <2>1, <2>2, <2>3, <2>4 DEF BinInv
<1>6. CASE /\ Shaped(catalog', transaction') /\ "bin" \in Streams
           /\ <<catalog'>> \o transaction' = ReplayLine(<<catalog>> \o transaction, s, options)
           /\ log'.bin = Append(log.bin, s)
           /\ log'.undo = UndoLine(log.undo, s)
  <2>1. PICK bin, new : bin = log.bin /\ new = log'.bin
    OBVIOUS
  <2>2. /\ new \in Seq(Statements) /\ new # <<>>
        /\ Front(new) = bin /\ Last(new) = s
    <3>1. bin \in Seq(Statements) /\ new = Append(bin, s)
      BY <1>1, <1>6, <2>1
    <3> QED
      BY <3>1, AppendParts
  <2>3. Replay(bin, options) = <<catalog>> \o transaction
    BY <1>6, <2>1 DEF BinInv, BinlogReplays
  <2>4. Replay(new, options) = ReplayLine(Replay(bin, options), s, options)
    BY <1>1, <1>6, <2>1, ReplayAppend
  <2>5. BinlogReplays'
    BY <1>2, <1>6, <2>1, <2>3, <2>4 DEF BinlogReplays
  <2>6. UndoReverts'
    <3>1. SUFFICES ASSUME "undo" \in Streams, mutates_catalog(s)
                   PROVE  <<s, encode(Last(Replay(bin, options)))>> \in Range(log'.undo)
      BY <1>2, <2>1, <2>2 DEF UndoReverts
    <3>2. Last(Replay(bin, options)) = active_catalog
      BY <2>3, ActiveReplayed
    <3>3. <<s, undo_snapshot>> \in Range(log'.undo)
      BY <1>1, <1>6, <3>1, UndoLineGrows
    <3> QED
      BY <3>2, <3>3 DEF undo_snapshot
  <2> QED
    BY <1>2, <1>3, <1>6, <2>1, <2>2, <2>5, <2>6 DEF BinInv
<1> QED
  BY <1>4, <1>5, <1>6

LEMMA BinInvInit == Init => BinInv
<1> SUFFICES ASSUME Init PROVE BinInv
  OBVIOUS
<1>1. DOMAIN log = {"undo", "redo", "bin"} /\ log.undo = <<>> /\ log.bin = <<>>
  BY DEF Init, EmptyLog
<1>2. IsVec(log.undo) /\ log.bin \in Seq(Statements)
  BY <1>1 DEF IsVec
<1>3. Shaped(catalog, transaction)
  BY DEF Init, Shaped, ShapedCatalog, EmptyCatalog, EmptyMap
<1>4. Replay(<<>>, options) = <<catalog>> \o transaction
  BY ReplayEmpty, JoinNone DEF Init
<1> QED
  BY <1>1, <1>2, <1>3, <1>4 DEF BinInv, BinlogReplays, UndoReverts

LEMMA BinInvNext ==
    ASSUME OnlyUndoFails, ~Restarts, DbInv, TextInv, BinInv, Next PROVE BinInv'
<1>0. Shaped(catalog, transaction)
  BY DEF BinInv
<1>1. CASE Begin
  <2>1. PICK s \in Statements : s.op = "Begin" /\ Execute(s, begin)
    BY <1>1 DEF Begin, Calls
  <2> QED
    BY <1>0, <2>1, ControlReplays, CallReplays
<1>2. CASE Commit
  <2>1. PICK s \in Statements : s.op = "Commit" /\ Execute(s, commit)
    BY <1>2 DEF Commit, Calls
  <2> QED
    BY <1>0, <2>1, ControlReplays, CallReplays
<1>3. CASE Rollback
  <2>1. PICK s \in Statements : s.op = "Rollback" /\ Execute(s, rollback)
    BY <1>3 DEF Rollback, Calls
  <2> QED
    BY <1>0, <2>1, ControlReplays, CallReplays
<1>4. CASE Explain
  <2>1. PICK s \in Statements : s.op = "Explain" /\ Execute(s, explain(s))
    BY <1>4 DEF Explain, Calls
  <2> QED
    BY <1>0, <2>1, ControlReplays, CallReplays
<1>5. ASSUME NEW op, op \notin {"Begin", "Commit", "Rollback"}, Statement(op) PROVE BinInv'
  <2>1. PICK s \in Statements : s.op = op /\ Execute(s, execute_catalog_statement(s))
    BY <1>5 DEF Statement, Calls
  <2>2. ~transaction_control(s)
    BY <1>5, <2>1 DEF transaction_control
  <2>3. \A o \in execute_catalog_statement(s) : Replays(s, o)
    BY <1>0, <2>2, StatementReplays
  <2> QED
    BY <2>1, <2>3, CallReplays
<1>6. ~Reopen
  BY DEF Reopen
<1> QED
  BY <1>1, <1>2, <1>3, <1>4, <1>5, <1>6 DEF Next

LEMMA BinInvariant ==
    ASSUME OnlyUndoFails, OneTokenizer, ~Restarts PROVE Spec => []BinInv
<1>1. Init => DbInv /\ TextInv /\ BinInv
  <2>1. ASSUME Init PROVE TextInv
    BY <2>1 DEF Init, TextInv, Staged, EmptyCatalog, EmptyMap
  <2> QED
    BY <2>1, DbInvInit, BinInvInit
<1>2. DbInv /\ TextInv /\ BinInv /\ [Next]_vars => (DbInv /\ TextInv /\ BinInv)'
  <2>1. CASE Next
    BY <2>1, DbInvNext, TextInvNext, BinInvNext
  <2>2. CASE UNCHANGED vars
    BY <2>2 DEF vars, DbInv, TextInv, BinInv, Staged, BinlogReplays, UndoReverts
  <2> QED
    BY <2>1, <2>2
<1> QED
  BY <1>1, <1>2, PTL DEF Spec

\* When only appends to undo fail, one tokenizer is in use and the database
\* stays open, replaying the binlog on an empty database rebuilds the committed
\* and the staged catalog after every call: nothing that changed them is missing
\* from it, nothing that failed or did not persist is in it (execute_inner).
THEOREM BinlogIsHistory ==
    OnlyUndoFails /\ OneTokenizer /\ ~Restarts => (Spec => []BinlogReplays)
<1> SUFFICES ASSUME OnlyUndoFails, OneTokenizer, ~Restarts PROVE Spec => []BinlogReplays
  OBVIOUS
<1>1. BinInv => BinlogReplays
  BY DEF BinInv
<1> QED
  BY <1>1, BinInvariant, PTL

\* Under the same conditions, a mutation in the binlog has its snapshot in the
\* undo stream, the catalog that the binlog without its line rebuilds, whatever
\* appends to undo have failed (execute_inner, active_catalog).
THEOREM UndoIsInverse ==
    OnlyUndoFails /\ OneTokenizer /\ ~Restarts => (Spec => []UndoReverts)
<1> SUFFICES ASSUME OnlyUndoFails, OneTokenizer, ~Restarts PROVE Spec => []UndoReverts
  OBVIOUS
<1>1. BinInv => UndoReverts
  BY DEF BinInv
<1> QED
  BY <1>1, BinInvariant, PTL

-----------------------------------------------------------------------------
(* Sums *)

\* f is what the recursion of MapThenSumSet computes for the numbers g on the
\* subsets of S with at most k elements.
Some(s) == CHOOSE x \in s : TRUE
Level(S, k) == {s \in SUBSET S : Cardinality(s) <= k}
Sums(f, g, S, k) ==
    f = [s \in Level(S, k) |-> IF s = {} THEN 0 ELSE g[Some(s)] + f[s \ {Some(s)}]]

\* One step of the recursion.
LEMMA SumsStep ==
    ASSUME NEW f, NEW g, NEW S, NEW k, Sums(f, g, S, k), NEW s \in Level(S, k), s # {}
    PROVE  f[s] = g[Some(s)] + f[s \ {Some(s)}]
BY DEF Sums

\* The empty sum.
LEMMA SumsEmpty ==
    ASSUME NEW f, NEW g, NEW S, NEW k, Sums(f, g, S, k), {} \in Level(S, k)
    PROVE  f[{}] = 0
BY DEF Sums

\* What is left of a set without one element is one level below.
LEMMA LevelDown ==
    ASSUME NEW S, IsFiniteSet(S), NEW k \in Nat, NEW s \in Level(S, k), s # {}
    PROVE  /\ Some(s) \in s /\ k # 0 /\ s \ {Some(s)} \in Level(S, k - 1)
           /\ Cardinality(s) \in Nat /\ Cardinality(s \ {Some(s)}) = Cardinality(s) - 1
<1>1. Some(s) \in s
  BY DEF Some
<1>2. s \in SUBSET S /\ Cardinality(s) <= k
  BY DEF Level
<1>3. IsFiniteSet(s)
  BY <1>2, FS_Subset
<1>4. Cardinality(s) \in Nat
  BY <1>3, FS_CardinalityType
<1>5. Cardinality(s \ {Some(s)}) = Cardinality(s) - 1 /\ IsFiniteSet(s \ {Some(s)})
  BY <1>1, <1>3, FS_RemoveElement
<1>6. Cardinality(s \ {Some(s)}) \in Nat
  BY <1>5, FS_CardinalityType
<1>7. k # 0 /\ Cardinality(s \ {Some(s)}) <= k - 1
  BY <1>2, <1>4, <1>5, <1>6
<1> QED
  BY <1>1, <1>2, <1>4, <1>5, <1>7 DEF Level

\* Each level holds the one below.
LEMMA LevelUp ==
    ASSUME NEW S, NEW k \in Int, NEW s \in Level(S, k), IsFiniteSet(S) PROVE s \in Level(S, k + 1)
<1>1. s \in SUBSET S /\ Cardinality(s) <= k
  BY DEF Level
<1>2. Cardinality(s) \in Nat
  BY <1>1, FS_Subset, FS_CardinalityType
<1> QED
  BY <1>1, <1>2 DEF Level

\* The empty set is on every level.
LEMMA EmptyLevel ==
    ASSUME NEW S, NEW k \in Nat PROVE {} \in Level(S, k)
BY FS_EmptySet DEF Level

\* The recursion has a solution on every finite set: a smallest set without
\* one would have one level below it.
LEMMA SumsExist ==
    ASSUME NEW g, NEW S, IsFiniteSet(S), NEW n \in Nat
    PROVE  \E f : Sums(f, g, S, n)
<1> DEFINE without == {m \in Nat : ~ \E f : Sums(f, g, S, m)}
<1> SUFFICES ASSUME without # {} PROVE FALSE
  OBVIOUS
<1>1. PICK m \in without : \A k \in without : m <= k
  <2>1. without \subseteq Nat
    OBVIOUS
  <2> HIDE DEF without
  <2> QED
    BY <2>1, SmallestNat
<1>2. m # 0
  <2> SUFFICES ASSUME m = 0 PROVE FALSE
    OBVIOUS
  <2>1. \A s \in Level(S, 0) : s = {}
    BY LevelDown
  <2>2. Sums([s \in Level(S, 0) |-> 0], g, S, 0)
    BY <2>1 DEF Sums
  <2> QED
    BY <1>1, <2>2
<1>3. PICK k \in Nat : k = m - 1
  BY <1>1, <1>2
<1>4. PICK f : Sums(f, g, S, k)
  BY <1>1, <1>3
<1> DEFINE h == [s \in Level(S, m) |->
                    IF s = {} THEN 0 ELSE g[Some(s)] + f[s \ {Some(s)}]]
<1>5. ASSUME NEW s \in Level(S, k) PROVE h[s] = f[s]
  <2>0. s \in Level(S, m)
    BY <1>1, <1>3, LevelUp
  <2>1. CASE s = {}
    BY <1>4, <2>0, <2>1, SumsEmpty
  <2>2. CASE s # {}
    <3>1. h[s] = g[Some(s)] + f[s \ {Some(s)}]
      BY <2>0, <2>2
    <3>2. f[s] = g[Some(s)] + f[s \ {Some(s)}]
      BY <1>4, <2>2, SumsStep
    <3> HIDE DEF h
    <3> QED
      BY <3>1, <3>2
  <2> QED
    BY <2>1, <2>2
<1>6. ASSUME NEW s \in Level(S, m)
      PROVE  h[s] = IF s = {} THEN 0 ELSE g[Some(s)] + h[s \ {Some(s)}]
  <2>1. CASE s = {}
    BY <2>1
  <2>2. CASE s # {}
    <3>1. h[s] = g[Some(s)] + f[s \ {Some(s)}]
      BY <2>2
    <3>2. s \ {Some(s)} \in Level(S, k)
      <4>1. s \ {Some(s)} \in Level(S, m - 1)
        BY <1>1, <2>2, LevelDown
      <4> QED
        BY <1>3, <4>1
    <3>3. h[s \ {Some(s)}] = f[s \ {Some(s)}]
      <4> HIDE DEF h
      <4> QED
        BY <1>5, <3>2
    <3> HIDE DEF h
    <3> QED
      BY <2>2, <3>1, <3>3
  <2> QED
    BY <2>1, <2>2
<1>7. Sums(h, g, S, m)
  <2>1. h = [s \in Level(S, m) |-> h[s]]
    OBVIOUS
  <2> HIDE DEF h
  <2>2. h = [s \in Level(S, m) |-> IF s = {} THEN 0 ELSE g[Some(s)] + h[s \ {Some(s)}]]
    BY <1>6, <2>1
  <2> QED
    BY <2>2 DEF Sums
<1> HIDE DEF h
<1> QED
  BY <1>1, <1>7

\* A sum of numbers from a set closed under addition is in that set.
LEMMA SumsIn ==
    ASSUME NEW T, T \subseteq Int, 0 \in T, \A a, b \in T : a + b \in T,
           NEW S, IsFiniteSet(S), NEW g, \A x \in S : g[x] \in T,
           NEW n \in Nat, NEW f, Sums(f, g, S, n), NEW u \in Level(S, n)
    PROVE  f[u] \in T
<1> DEFINE outside == {k \in 0..n : \E s \in Level(S, k) : f[s] \notin T}
<1> SUFFICES ASSUME outside # {} PROVE FALSE
  <2>1. n \in 0..n
    OBVIOUS
  <2> QED
    BY <2>1
<1>1. PICK k \in outside : \A j \in outside : k <= j
  <2>1. outside \subseteq Nat
    OBVIOUS
  <2> HIDE DEF outside
  <2> QED
    BY <2>1, SmallestNat
<1>2. PICK s \in Level(S, k) : f[s] \notin T
  BY <1>1
<1>3. k \in Nat /\ k <= n
  BY <1>1
<1>4. s \in Level(S, n)
  <2>1. s \in SUBSET S /\ Cardinality(s) <= k
    BY <1>2 DEF Level
  <2>2. Cardinality(s) \in Nat
    BY <2>1, FS_Subset, FS_CardinalityType
  <2> QED
    BY <1>3, <2>1, <2>2 DEF Level
<1>5. s # {}
  BY <1>2, <1>4, SumsEmpty
<1>6. Some(s) \in s /\ k # 0 /\ s \ {Some(s)} \in Level(S, k - 1)
  BY <1>2, <1>3, <1>5, LevelDown
<1>7. f[s \ {Some(s)}] \in T
  <2>1. k - 1 \in 0..n /\ k - 1 < k
    BY <1>3, <1>6
  <2>2. k - 1 \notin outside
    BY <1>1, <2>1
  <2> QED
    BY <1>6, <2>1, <2>2
<1>8. g[Some(s)] \in T
  <2>1. Some(s) \in S
    BY <1>2, <1>6 DEF Level
  <2> QED
    BY <2>1
<1>9. f[s] = g[Some(s)] + f[s \ {Some(s)}]
  BY <1>4, <1>5, SumsStep
<1>10. \A a, b \in T : a + b \in T
  OBVIOUS
<1> QED
  BY <1>2, <1>7, <1>8, <1>9, <1>10

\* The whole sum.
TotalOf(f, g, S) ==
    f = [s \in SUBSET S |-> IF s = {} THEN 0 ELSE g[Some(s)] + f[s \ {Some(s)}]]

\* The recursion over all of S has a solution.
LEMMA TotalExists ==
    ASSUME NEW g, NEW S, IsFiniteSet(S) PROVE \E f : TotalOf(f, g, S)
<1>1. PICK n \in Nat : n = Cardinality(S)
  BY FS_CardinalityType
<1>2. Level(S, n) = SUBSET S
  BY <1>1, FS_Subset DEF Level
<1>3. PICK f : Sums(f, g, S, n)
  BY SumsExist
<1>4. TotalOf(f, g, S)
  BY <1>2, <1>3 DEF Sums, TotalOf
<1> QED
  BY <1>4

\* The whole sum is in a set closed under addition.
LEMMA TotalIn ==
    ASSUME NEW T, T \subseteq Int, 0 \in T, \A a, b \in T : a + b \in T,
           NEW S, IsFiniteSet(S), NEW g, \A x \in S : g[x] \in T,
           NEW f, TotalOf(f, g, S)
    PROVE  f[S] \in T
<1>1. PICK n \in Nat : n = Cardinality(S)
  BY FS_CardinalityType
<1>2. Level(S, n) = SUBSET S
  BY <1>1, FS_Subset DEF Level
<1>3. Sums(f, g, S, n)
  BY <1>2 DEF Sums, TotalOf
<1>4. S \in Level(S, n)
  BY <1>2
<1> QED
  BY <1>3, <1>4, SumsIn

\* A component of a vector stands for an integer.
LEMMA SignedInt ==
    ASSUME NEW x \in BOOLEAN \X Int PROVE Signed(x) \in Int
BY DEF Signed

\* A square is not negative.
LEMMA SquareNat ==
    ASSUME NEW a \in Int PROVE a * a \in Nat
OBVIOUS

\* The terms of the dot product.
Products(left, right) == [i \in DOMAIN left |-> Signed(left[i]) * Signed(right[i])]
DotSum(f, left, right) ==
    f = [s \in SUBSET DOMAIN left |->
            IF s = {} THEN 0
            ELSE Signed(left[Some(s)]) * Signed(right[Some(s)]) + f[s \ {Some(s)}]]

\* The dot product is the sum of the products.
LEMMA DotIs ==
    ASSUME NEW left, NEW right
    PROVE  dot_product(left, right) = (CHOOSE f : DotSum(f, left, right))[DOMAIN left]
BY DEF dot_product, MapThenSumSet, MapThenFoldSet, DotSum, Some

\* The recursion of the dot product is the sum of its terms.
LEMMA DotSumIs ==
    ASSUME NEW left, NEW right, NEW f
    PROVE  DotSum(f, left, right) <=> TotalOf(f, Products(left, right), DOMAIN left)
<1>1. ASSUME NEW s \in SUBSET DOMAIN left, s # {}
      PROVE  Products(left, right)[Some(s)] = Signed(left[Some(s)]) * Signed(right[Some(s)])
  <2>1. Some(s) \in DOMAIN left
    BY <1>1 DEF Some
  <2> QED
    BY <2>1 DEF Products
<1>2. \A s \in SUBSET DOMAIN left :
          (IF s = {} THEN 0
           ELSE Signed(left[Some(s)]) * Signed(right[Some(s)]) + f[s \ {Some(s)}]) =
          (IF s = {} THEN 0 ELSE Products(left, right)[Some(s)] + f[s \ {Some(s)}])
  BY <1>1
<1> QED
  BY <1>2 DEF DotSum, TotalOf

\* A dot product is an integer.
LEMMA DotInt ==
    ASSUME NEW left \in Vectors, NEW right \in Vectors, Len(left) = Len(right)
    PROVE  dot_product(left, right) \in Int
<1>1. DOMAIN left = 1..Len(left) /\ DOMAIN right = 1..Len(left) /\ Len(left) \in Nat
  BY DEF Vectors
<1>2. PICK D, g : D = DOMAIN left /\ g = Products(left, right)
  OBVIOUS
<1>3. IsFiniteSet(D)
  BY <1>1, <1>2, FS_Interval
<1>4. \A x \in D : g[x] \in Int
  <2>1. ASSUME NEW x \in D PROVE g[x] \in Int
    <3>1. left[x] \in BOOLEAN \X Int /\ right[x] \in BOOLEAN \X Int
      BY <1>1, <1>2 DEF Vectors
    <3>2. g[x] = Signed(left[x]) * Signed(right[x])
      BY <1>2 DEF Products
    <3> QED
      BY <3>1, <3>2, SignedInt
  <2> QED
    BY <2>1
<1>5. PICK f : DotSum(f, left, right) /\ dot_product(left, right) = f[D]
  BY <1>2, <1>3, DotIs, DotSumIs, TotalExists
<1>6. TotalOf(f, g, D)
  BY <1>2, <1>5, DotSumIs
<1>7. f[D] \in Int
  <2>1. \A a, b \in Int : a + b \in Int
    OBVIOUS
  <2> QED
    BY <1>3, <1>4, <1>6, <2>1, TotalIn
<1> QED
  BY <1>5, <1>7

\* A vector's dot product with itself is not negative.
LEMMA SelfDotNat ==
    ASSUME NEW left \in Vectors PROVE dot_product(left, left) \in Nat
<1>1. DOMAIN left = 1..Len(left) /\ Len(left) \in Nat
  BY DEF Vectors
<1>2. PICK D, g : D = DOMAIN left /\ g = Products(left, left)
  OBVIOUS
<1>3. IsFiniteSet(D)
  BY <1>1, <1>2, FS_Interval
<1>4. \A x \in D : g[x] \in Nat
  <2>1. ASSUME NEW x \in D PROVE g[x] \in Nat
    <3>1. left[x] \in BOOLEAN \X Int
      BY <1>1, <1>2 DEF Vectors
    <3>2. g[x] = Signed(left[x]) * Signed(left[x])
      BY <1>2 DEF Products
    <3> QED
      BY <3>1, <3>2, SignedInt, SquareNat
  <2> QED
    BY <2>1
<1>5. PICK f : DotSum(f, left, left) /\ dot_product(left, left) = f[D]
  BY <1>2, <1>3, DotIs, DotSumIs, TotalExists
<1>6. TotalOf(f, g, D)
  BY <1>2, <1>5, DotSumIs
<1>7. f[D] \in Nat
  <2>1. \A a, b \in Nat : a + b \in Nat
    OBVIOUS
  <2>2. Nat \subseteq Int /\ 0 \in Nat
    OBVIOUS
  <2> QED
    BY <1>3, <1>4, <1>6, <2>1, <2>2, TotalIn
<1> QED
  BY <1>5, <1>7

\* The terms of the Euclidean distance.
Squares(left, right) ==
    [i \in DOMAIN left |->
        (Signed(left[i]) - Signed(right[i])) * (Signed(left[i]) - Signed(right[i]))]
SquareSum(f, left, right) ==
    f = [s \in SUBSET DOMAIN left |->
            IF s = {} THEN 0
            ELSE (Signed(left[Some(s)]) - Signed(right[Some(s)]))
                     * (Signed(left[Some(s)]) - Signed(right[Some(s)])) + f[s \ {Some(s)}]]

\* The Euclidean distance is the sum of the squares over one.
LEMMA EuclideanIs ==
    ASSUME NEW left, NEW right
    PROVE  vector_distance(left, right, "Euclidean") =
               <<(CHOOSE f : SquareSum(f, left, right))[DOMAIN left], 1>>
BY DEF vector_distance, MapThenSumSet, MapThenFoldSet, SquareSum, Some

\* The recursion of the Euclidean distance is the sum of its terms.
LEMMA SquareSumIs ==
    ASSUME NEW left, NEW right, NEW f
    PROVE  SquareSum(f, left, right) <=> TotalOf(f, Squares(left, right), DOMAIN left)
<1>1. ASSUME NEW s \in SUBSET DOMAIN left, s # {}
      PROVE  Squares(left, right)[Some(s)] =
                 (Signed(left[Some(s)]) - Signed(right[Some(s)]))
                     * (Signed(left[Some(s)]) - Signed(right[Some(s)]))
  <2>1. Some(s) \in DOMAIN left
    BY <1>1 DEF Some
  <2> QED
    BY <2>1 DEF Squares
<1>2. \A s \in SUBSET DOMAIN left :
          (IF s = {} THEN 0
           ELSE (Signed(left[Some(s)]) - Signed(right[Some(s)]))
                     * (Signed(left[Some(s)]) - Signed(right[Some(s)])) + f[s \ {Some(s)}]) =
          (IF s = {} THEN 0 ELSE Squares(left, right)[Some(s)] + f[s \ {Some(s)}])
  BY <1>1
<1> QED
  BY <1>2 DEF SquareSum, TotalOf

\* A Euclidean distance, squared, is an integer.
LEMMA EuclideanInt ==
    ASSUME NEW left \in Vectors, NEW right \in Vectors, Len(left) = Len(right)
    PROVE  \E m \in Int : vector_distance(left, right, "Euclidean") = <<m, 1>>
<1>1. DOMAIN left = 1..Len(left) /\ DOMAIN right = 1..Len(left) /\ Len(left) \in Nat
  BY DEF Vectors
<1>2. PICK D, g : D = DOMAIN left /\ g = Squares(left, right)
  OBVIOUS
<1>3. IsFiniteSet(D)
  BY <1>1, <1>2, FS_Interval
<1>4. \A x \in D : g[x] \in Int
  <2>1. ASSUME NEW x \in D PROVE g[x] \in Int
    <3>1. left[x] \in BOOLEAN \X Int /\ right[x] \in BOOLEAN \X Int
      BY <1>1, <1>2 DEF Vectors
    <3>2. PICK a, b : a = Signed(left[x]) /\ b = Signed(right[x])
      OBVIOUS
    <3>3. g[x] = (a - b) * (a - b)
      BY <1>2, <3>2 DEF Squares
    <3> QED
      BY <3>1, <3>2, <3>3, SignedInt
  <2> QED
    BY <2>1
<1>5. PICK f : SquareSum(f, left, right) /\ vector_distance(left, right, "Euclidean") = <<f[D], 1>>
  BY <1>2, <1>3, EuclideanIs, SquareSumIs, TotalExists
<1>6. TotalOf(f, g, D)
  BY <1>2, <1>5, SquareSumIs
<1>7. f[D] \in Int
  <2>1. \A a, b \in Int : a + b \in Int
    OBVIOUS
  <2> QED
    BY <1>3, <1>4, <1>6, <2>1, TotalIn
<1> QED
  BY <1>5, <1>7

\* A distance is a rational number with a positive denominator.
LEMMA DistanceRational ==
    ASSUME NEW left \in Vectors, NEW right \in Vectors, NEW metric \in Metrics,
           Comparable(left, right, metric)
    PROVE  \E m \in Int, d \in Nat \ {0} : vector_distance(left, right, metric) = <<m, d>>
<1>0. Len(left) = Len(right)
  BY DEF Comparable
<1>1. PICK dot \in Int : dot = dot_product(left, right)
  BY <1>0, DotInt
<1>2. CASE metric = "Euclidean"
  BY <1>0, <1>2, EuclideanInt
<1>3. CASE metric = "DotProduct"
  <2>1. vector_distance(left, right, metric) = Negated(dot, left, right)
    BY <1>1, <1>3 DEF vector_distance
  <2>2. Negated(dot, left, right) \in {<<-1, 2>>, <<-dot, 1>>}
    BY DEF Negated
  <2>3. -dot \in Int /\ -1 \in Int /\ 1 \in Nat \ {0} /\ 2 \in Nat \ {0}
    OBVIOUS
  <2> QED
    BY <2>1, <2>2, <2>3
<1>4. CASE metric = "Cosine"
  <2>1. PICK d : d = dot_product(left, left)
    OBVIOUS
  <2>2. d \in Nat \ {0}
    BY <1>4, <2>1, SelfDotNat DEF Comparable
  <2>3. PICK m : m = IF dot < 0 THEN dot * dot ELSE -(dot * dot)
    OBVIOUS
  <2>4. m \in Int
    BY <2>3
  <2>5. vector_distance(left, right, metric) = <<m, d>>
    BY <1>1, <1>4, <2>1, <2>3 DEF vector_distance
  <2> QED
    BY <2>2, <2>4, <2>5
<1> QED
  BY <1>2, <1>3, <1>4 DEF Metrics

-----------------------------------------------------------------------------
(* The order of scores *)

\* Fractions with positive denominators compare by cross products.
LEMMA CrossProducts ==
    ASSUME NEW a \in Int, NEW b \in Int, NEW c \in Int,
           NEW p \in Nat \ {0}, NEW q \in Nat \ {0}, NEW r \in Nat \ {0},
           a * q <= b * p, b * r <= c * q
    PROVE  a * r <= c * p /\ (a * q < b * p \/ b * r < c * q => a * r < c * p)
<1>1. PICK w, x, y, z : w = a * q /\ x = b * p /\ y = b * r /\ z = c * q
  OBVIOUS
<1>2. w \in Int /\ x \in Int /\ y \in Int /\ z \in Int /\ w <= x /\ y <= z
  BY <1>1
<1>3. /\ \A i, j \in Int : i <= j => i * r <= j * r /\ i * p <= j * p
      /\ \A i, j \in Int : i < j => i * r < j * r /\ i * p < j * p
  OBVIOUS
<1>4. w * r <= x * r /\ y * p <= z * p /\ (w < x => w * r < x * r) /\ (y < z => y * p < z * p)
  BY <1>2, <1>3
<1>5. x * r = y * p
  BY <1>1
<1>6. w * r = (a * r) * q /\ z * p = (c * p) * q
  BY <1>1
<1>7. PICK m, n : m = a * r /\ n = c * p
  OBVIOUS
<1>8. m \in Int /\ n \in Int
  BY <1>7
<1>9. m * q <= n * q /\ (w < x \/ y < z => m * q < n * q)
  <2>1. PICK wr, xr, yp, zp : wr = w * r /\ xr = x * r /\ yp = y * p /\ zp = z * p
    OBVIOUS
  <2>2. wr \in Int /\ xr \in Int /\ yp \in Int /\ zp \in Int
    BY <1>2, <2>1
  <2>3. wr <= zp /\ (w < x \/ y < z => wr < zp)
    BY <1>4, <1>5, <2>1, <2>2
  <2> QED
    BY <1>6, <1>7, <2>1, <2>3
<1>10. \A i, j \in Int : (i * q <= j * q => i <= j) /\ (i * q < j * q => i < j)
  OBVIOUS
<1>11. m <= n /\ (w < x \/ y < z => m < n)
  BY <1>8, <1>9, <1>10
<1> QED
  BY <1>1, <1>7, <1>11

\* What a distance is.
Fractions == Int \X (Nat \ {0})

\* Comparing fractions is comparing integers.
LEMMA LessInts ==
    ASSUME NEW d \in Fractions, NEW e \in Fractions
    PROVE  /\ d[1] * e[2] \in Int /\ e[1] * d[2] \in Int
           /\ Less(d, e) <=> d[1] * e[2] < e[1] * d[2]
           /\ ~Less(d, e) <=> e[1] * d[2] <= d[1] * e[2]
BY DEF Fractions, Less

\* "Not greater" is transitive, and strict if one of the two is.
LEMMA LessTransitive ==
    ASSUME NEW d \in Fractions, NEW e \in Fractions, NEW f \in Fractions,
           ~Less(e, d), ~Less(f, e)
    PROVE  ~Less(f, d) /\ (Less(d, e) \/ Less(e, f) => Less(d, f))
<1>1. PICK a, p, b, q, c, r : a = d[1] /\ p = d[2] /\ b = e[1] /\ q = e[2] /\ c = f[1] /\ r = f[2]
  OBVIOUS
<1>2. /\ a \in Int /\ b \in Int /\ c \in Int
      /\ p \in Nat \ {0} /\ q \in Nat \ {0} /\ r \in Nat \ {0}
  BY <1>1 DEF Fractions
<1>3. a * q <= b * p /\ b * r <= c * q
  BY <1>1, LessInts
<1>4. a * r <= c * p /\ (a * q < b * p \/ b * r < c * q => a * r < c * p)
  BY <1>2, <1>3, CrossProducts
<1> QED
  BY <1>1, <1>4, LessInts

\* Of two fractions at most one is less.
LEMMA LessAsymmetric ==
    ASSUME NEW d \in Fractions, NEW e \in Fractions, Less(d, e) PROVE ~Less(e, d)
BY LessInts

\* Scores: a distance and a row id.
Scores == Fractions \X Nat
Precedes(x, y) == Less(x[1], y[1]) \/ (~Less(y[1], x[1]) /\ x[2] < y[2])

\* ORDER BY is the order of the scores or its reverse; equal distances
\* stay in row order.
LEMMA BeforeIs ==
    ASSUME NEW x, NEW y, NEW descending
    PROVE  Before(x, y, descending) = IF descending THEN Precedes(y, x) ELSE Precedes(x, y)
BY DEF Before, Precedes

\* Scores of different rows are ordered one way.
LEMMA PrecedesOrder ==
    ASSUME NEW x \in Scores, NEW y \in Scores
    PROVE  /\ ~Precedes(x, x)
           /\ x[2] # y[2] => Precedes(x, y) \/ Precedes(y, x)
           /\ ~(Precedes(x, y) /\ Precedes(y, x))
<1>1. x[1] \in Fractions /\ y[1] \in Fractions /\ x[2] \in Nat /\ y[2] \in Nat
  BY DEF Scores
<1>2. ~Less(x[1], x[1])
  BY <1>1, LessAsymmetric
<1>3. ~(Less(x[1], y[1]) /\ Less(y[1], x[1]))
  BY <1>1, LessAsymmetric
<1> QED
  BY <1>1, <1>2, <1>3 DEF Precedes

\* Sorted is listed as OrderExact demands.
LEMMA BeforeListed ==
    ASSUME NEW x \in Scores, NEW y \in Scores, NEW descending, Before(x, y, descending)
    PROVE  Listed(x, y, descending)
<1>1. x[1] \in Fractions /\ y[1] \in Fractions
  BY DEF Scores
<1>2. Precedes(x, y) => Nearer(x, y)
  BY <1>1, LessAsymmetric DEF Precedes, Nearer
<1>3. Precedes(y, x) => Nearer(y, x)
  BY <1>1, LessAsymmetric DEF Precedes, Nearer
<1> QED
  BY <1>2, <1>3, BeforeIs DEF Listed

\* The order of scores is transitive.
LEMMA PrecedesTransitive ==
    ASSUME NEW x \in Scores, NEW y \in Scores, NEW z \in Scores, Precedes(x, y), Precedes(y, z)
    PROVE  Precedes(x, z)
<1>1. PICK d, e, f : d = x[1] /\ e = y[1] /\ f = z[1]
  OBVIOUS
<1>2. d \in Fractions /\ e \in Fractions /\ f \in Fractions /\ x[2] \in Nat /\ y[2] \in Nat /\ z[2] \in Nat
  BY <1>1 DEF Scores
<1>3. ~Less(e, d) /\ ~Less(f, e)
  BY <1>1, <1>2, LessAsymmetric DEF Precedes
<1>4. ~Less(f, d) /\ (Less(d, e) \/ Less(e, f) => Less(d, f))
  BY <1>2, <1>3, LessTransitive
<1>5. Less(d, e) \/ Less(e, f) \/ (x[2] < y[2] /\ y[2] < z[2])
  BY <1>1 DEF Precedes
<1> QED
  BY <1>1, <1>2, <1>4, <1>5 DEF Precedes

-----------------------------------------------------------------------------
(* Sorting: the elements of a finite set by rank *)

\* A strict total order, as a set of pairs.
TotalOrder(R, S) ==
    /\ \A a \in S : <<a, a>> \notin R
    /\ \A a, b \in S : a # b => <<a, b>> \in R \/ <<b, a>> \in R
    /\ \A a, b, c \in S : <<a, b>> \in R /\ <<b, c>> \in R => <<a, c>> \in R

\* Those before an element: their number is its rank.
Below(R, S, a) == {b \in S : <<b, a>> \in R}

\* Sorted is the set's elements, each once, in order.
SortedSeq(s, R, S) ==
    /\ DOMAIN s = 1..Cardinality(S)
    /\ \A i \in 1..Cardinality(S) : s[i] \in S
    /\ \A i, j \in 1..Cardinality(S) : i < j => <<s[i], s[j]>> \in R
    /\ \A a \in S : \E i \in 1..Cardinality(S) : s[i] = a

\* A later element has more before it.
LEMMA RankMonotone ==
    ASSUME NEW S, IsFiniteSet(S), NEW R, TotalOrder(R, S), NEW a \in S, NEW b \in S, <<a, b>> \in R
    PROVE  Cardinality(Below(R, S, a)) < Cardinality(Below(R, S, b))
<1>1. PICK A, B : A = Below(R, S, a) /\ B = Below(R, S, b)
  OBVIOUS
<1>2. A \subseteq S /\ B \subseteq S
  BY <1>1 DEF Below
<1>3. \A c \in A : c \in B
  BY <1>1 DEF Below, TotalOrder
<1>4. a \in B /\ a \notin A
  BY <1>1 DEF Below, TotalOrder
<1>5. IsFiniteSet(A) /\ IsFiniteSet(B)
  BY <1>2, FS_Subset
<1>6. Cardinality(A) \in Nat /\ Cardinality(B) \in Nat
  BY <1>5, FS_CardinalityType
<1>7. A \in SUBSET B
  BY <1>3
<1>8. Cardinality(A) <= Cardinality(B) /\ (Cardinality(B) = Cardinality(A) => B = A)
  BY <1>5, <1>7, FS_Subset
<1> QED
  BY <1>1, <1>4, <1>6, <1>8

\* A rank is less than the size of the set.
LEMMA RankRange ==
    ASSUME NEW S, IsFiniteSet(S), NEW R, TotalOrder(R, S), NEW a \in S
    PROVE  Cardinality(Below(R, S, a)) \in 0..(Cardinality(S) - 1) /\ Cardinality(S) \in Nat
<1>1. PICK A : A = Below(R, S, a)
  OBVIOUS
<1>2. A \in SUBSET S /\ a \notin A
  BY <1>1 DEF Below, TotalOrder
<1>3. IsFiniteSet(A) /\ Cardinality(A) <= Cardinality(S) /\ (Cardinality(S) = Cardinality(A) => S = A)
  BY <1>2, FS_Subset
<1>4. Cardinality(A) \in Nat /\ Cardinality(S) \in Nat
  BY <1>3, FS_CardinalityType
<1> QED
  BY <1>1, <1>2, <1>3, <1>4

\* Placing every element at its rank sorts the set.
LEMMA RankSorts ==
    ASSUME NEW S, IsFiniteSet(S), NEW R, TotalOrder(R, S), NEW s,
           DOMAIN s = 1..Cardinality(S),
           \A i \in 1..Cardinality(S) :
               (\E a \in S : Cardinality(Below(R, S, a)) = i - 1) =>
                   s[i] \in S /\ Cardinality(Below(R, S, s[i])) = i - 1
    PROVE  SortedSeq(s, R, S)
<1>1. PICK n \in Nat : n = Cardinality(S)
  BY FS_CardinalityType
<1> DEFINE rank == [a \in S |-> Cardinality(Below(R, S, a))]
<1>2. \A a \in S : rank[a] \in 0..(n - 1)
  BY <1>1, RankRange
<1>3. \A a, b \in S : <<a, b>> \in R => rank[a] < rank[b]
  BY RankMonotone
<1>4. rank \in Injection(S, 0..(n - 1))
  <2>1. rank \in [S -> 0..(n - 1)]
    BY <1>2
  <2>2. ASSUME NEW a \in S, NEW b \in S, a # b PROVE rank[a] # rank[b]
    <3>1. <<a, b>> \in R \/ <<b, a>> \in R
      BY <2>2 DEF TotalOrder
    <3>2. rank[a] \in Int /\ rank[b] \in Int
      <4> HIDE DEF rank
      <4> QED
        BY <1>2
    <3>3. rank[a] < rank[b] \/ rank[b] < rank[a]
      BY <1>3, <3>1
    <3> HIDE DEF rank
    <3> QED
      BY <3>2, <3>3
  <2> HIDE DEF rank
  <2>3. \A a, b \in S : rank[a] = rank[b] => a = b
    BY <2>2
  <2> QED
    BY <2>1, <2>3 DEF Injection, IsInjective
<1>5. IsFiniteSet(0..(n - 1)) /\ Cardinality(0..(n - 1)) = n
  BY FS_Interval
<1>6. rank \in Surjection(S, 0..(n - 1))
  <2> HIDE DEF rank
  <2> QED
    BY <1>1, <1>4, <1>5, FS_Injection
<1>7. \A k \in 0..(n - 1) : \E a \in S : rank[a] = k
  <2> HIDE DEF rank
  <2> QED
    BY <1>6 DEF Surjection
<1>8. ASSUME NEW i \in 1..n PROVE s[i] \in S /\ rank[s[i]] = i - 1
  <2>1. (\E a \in S : Cardinality(Below(R, S, a)) = i - 1) =>
            s[i] \in S /\ Cardinality(Below(R, S, s[i])) = i - 1
    BY <1>1
  <2>2. \E a \in S : Cardinality(Below(R, S, a)) = i - 1
    <3>1. i - 1 \in 0..(n - 1)
      OBVIOUS
    <3>2. PICK a \in S : rank[a] = i - 1
      <4> HIDE DEF rank
      <4> QED
        BY <1>7, <3>1
    <3> QED
      BY <3>2
  <2>3. s[i] \in S /\ Cardinality(Below(R, S, s[i])) = i - 1
    BY <2>1, <2>2
  <2> QED
    BY <2>3
<1> HIDE DEF rank
<1>9. ASSUME NEW i \in 1..n, NEW j \in 1..n, i < j PROVE <<s[i], s[j]>> \in R
  <2>1. s[i] \in S /\ s[j] \in S /\ rank[s[i]] = i - 1 /\ rank[s[j]] = j - 1
    BY <1>8
  <2>2. s[i] # s[j]
    BY <1>9, <2>1
  <2>3. <<s[j], s[i]>> \notin R
    <3> SUFFICES ASSUME <<s[j], s[i]>> \in R PROVE FALSE
      OBVIOUS
    <3>1. rank[s[j]] < rank[s[i]]
      BY <1>3, <2>1
    <3> QED
      BY <1>9, <2>1, <3>1
  <2> QED
    BY <2>1, <2>2, <2>3 DEF TotalOrder
<1>10. ASSUME NEW a \in S PROVE \E i \in 1..n : s[i] = a
  <2>1. PICK i \in 1..n : rank[a] = i - 1
    <3>1. rank[a] \in 0..(n - 1)
      BY <1>2
    <3>2. rank[a] + 1 \in 1..n /\ rank[a] = (rank[a] + 1) - 1
      BY <3>1
    <3> QED
      BY <3>2
  <2>2. s[i] \in S /\ rank[s[i]] = rank[a]
    BY <1>8, <2>1
  <2>3. s[i] = a
    BY <1>4, <2>2 DEF Injection, IsInjective
  <2> QED
    BY <2>3
<1>11. DOMAIN s = 1..n
  BY <1>1
<1> QED
  BY <1>1, <1>8, <1>9, <1>10, <1>11 DEF SortedSeq

-----------------------------------------------------------------------------
(* The kinds of values *)

\* A row holds values of its columns' types.
OfType(t, c, v) == v = Null \/ Kind(v) = column(t, c).ty
KindTable(t) ==
    \A r \in DOMAIN t.rows : \A c \in ColumnNames(t) : OfType(t, c, t.rows[r][c])
KindCatalog(cat) == \A n \in DOMAIN cat : KindTable(cat[n])

\* What validate_value_with_options accepts has the column's type.
LEMMA CoerceKind ==
    ASSUME NEW col, NEW v, NEW opts, Accepts(col, v, opts)
    PROVE  Coerce(col, v) = Null \/ Kind(Coerce(col, v)) = col.ty
<1>1. CASE col.ty = "Float" /\ Kind(v) = "Integer"
  BY <1>1 DEF Coerce, Kind
<1>2. CASE ~(col.ty = "Float" /\ Kind(v) = "Integer")
  BY <1>2 DEF Coerce, Accepts
<1> QED
  BY <1>1, <1>2

\* Assigned rows hold values of their columns' types.
LEMMA AssignKinds ==
    ASSUME NEW t, NEW row, NEW target, NEW values, NEW opts,
           DOMAIN row = ColumnNames(t), \A c \in ColumnNames(t) : OfType(t, c, row[c]),
           NEW n \in Nat, DOMAIN target = 1..n,
           Assignable(t, target, values, opts)
    PROVE  \A c \in ColumnNames(t) : OfType(t, c, Assign(t, row, target, values)[c])
<1> DEFINE new == Assign(t, row, target, values)
           at(c) == {i \in DOMAIN target : target[i] = c}
<1>1. \A c \in ColumnNames(t) :
          new[c] = IF at(c) = {} THEN row[c] ELSE Coerce(column(t, c), values[Max(at(c))])
  BY DEF Assign
<1> HIDE DEF new
<1>2. ASSUME NEW c \in ColumnNames(t), at(c) # {}
      PROVE  OfType(t, c, Coerce(column(t, c), values[Max(at(c))]))
  <2>1. IsFiniteSet(1..n) /\ at(c) \subseteq 1..n
    BY FS_Interval
  <2>2. IsFiniteSet(at(c)) /\ at(c) \subseteq Nat
    BY <2>1, FS_Subset
  <2>3. Max(at(c)) \in at(c)
    <3> HIDE DEF at
    <3> QED
      BY <1>2, <2>2, MaxOfFinite
  <2>4. PICK i : i = Max(at(c))
    OBVIOUS
  <2>5. i \in DOMAIN target /\ target[i] = c
    BY <2>3, <2>4
  <2>6. Accepts(column(t, c), values[i], opts)
    BY <2>5 DEF Assignable
  <2> QED
    BY <2>4, <2>6, CoerceKind DEF OfType
<1>3. \A c \in ColumnNames(t) : OfType(t, c, new[c])
  <2> HIDE DEF at
  <2> QED
    BY <1>1, <1>2
<1> QED
  BY <1>3 DEF new

\* Tables with the same columns type their cells alike.
LEMMA SameKinds ==
    ASSUME NEW t, NEW u, u.columns = t.columns
    PROVE  ColumnNames(u) = ColumnNames(t) /\ \A c, v : OfType(u, c, v) <=> OfType(t, c, v)
BY DEF ColumnNames, OfType, column

\* A rebuild changes no cell.
LEMMA RebuildKinds ==
    ASSUME NEW t, NEW w, DOMAIN w = Fields, w.columns = t.columns, NEW opts,
           \A r \in DOMAIN w.rows : \A c \in ColumnNames(t) : OfType(t, c, w.rows[r][c])
    PROVE  KindTable(rebuild_indexes(w, opts))
<1>1. PICK u : u = rebuild_indexes(w, opts)
  OBVIOUS
<1>2. u.columns = t.columns /\ u.rows = w.rows
  BY <1>1 DEF rebuild_indexes, Fields
<1>3. ColumnNames(u) = ColumnNames(t) /\ \A c, v : OfType(u, c, v) <=> OfType(t, c, v)
  BY <1>2, SameKinds
<1>4. KindTable(u)
  BY <1>2, <1>3 DEF KindTable
<1> QED
  BY <1>1, <1>4

\* Every statement on a table leaves cells of their columns' types.
LEMMA OnTableKinds ==
    ASSUME NEW t, DataTable(t), KindTable(t), NEW s, IsStatement(s), NEW opts,
           s.op \in {"CreateIndex", "Insert", "Update", "Delete", "Select"}
    PROVE  KindTable(OnTable(t, s, opts).table)
<1>0. DOMAIN t = Fields /\ IsVec(t.columns)
      /\ \A r \in DOMAIN t.rows : DOMAIN t.rows[r] = ColumnNames(t)
  BY DEF DataTable, TypedTable, TypedRows
<1>1. PICK u : u = OnTable(t, s, opts).table
  OBVIOUS
<1>2. CASE s.op = "CreateIndex" /\ u # t
  <2>1. \/ \E x : u = rebuild_indexes([t EXCEPT !.fulltext_indexes = x], opts)
        \/ \E x : u = rebuild_indexes([t EXCEPT !.indexes = x], DefaultOptions)
    BY <1>1, <1>2 DEF OnTable, create_fulltext_index, create_index, Failed, Rebuilt
  <2>2. PICK w, o : /\ u = rebuild_indexes(w, o) /\ DOMAIN w = Fields
                    /\ w.columns = t.columns /\ w.rows = t.rows
    <3>1. \A x : LET w == [t EXCEPT !.fulltext_indexes = x]
                 IN DOMAIN w = Fields /\ w.columns = t.columns /\ w.rows = t.rows
      BY <1>0 DEF Fields
    <3>2. \A x : LET w == [t EXCEPT !.indexes = x]
                 IN DOMAIN w = Fields /\ w.columns = t.columns /\ w.rows = t.rows
      BY <1>0 DEF Fields
    <3>3. CASE \E x : u = rebuild_indexes([t EXCEPT !.fulltext_indexes = x], opts)
      <4>1. PICK x : u = rebuild_indexes([t EXCEPT !.fulltext_indexes = x], opts)
        BY <3>3
      <4>2. PICK w : w = [t EXCEPT !.fulltext_indexes = x]
        OBVIOUS
      <4>3. u = rebuild_indexes(w, opts)
        BY <4>1, <4>2
      <4> QED
        BY <3>1, <4>2, <4>3
    <3>4. CASE \E x : u = rebuild_indexes([t EXCEPT !.indexes = x], DefaultOptions)
      <4>1. PICK x : u = rebuild_indexes([t EXCEPT !.indexes = x], DefaultOptions)
        BY <3>4
      <4>2. PICK w : w = [t EXCEPT !.indexes = x]
        OBVIOUS
      <4>3. u = rebuild_indexes(w, DefaultOptions)
        BY <4>1, <4>2
      <4> QED
        BY <3>2, <4>2, <4>3
    <3> QED
      BY <2>1, <3>3, <3>4
  <2>3. KindTable(u)
    BY <2>2, RebuildKinds DEF KindTable
  <2> QED
    BY <1>1, <2>3
<1>3. CASE s.op = "Insert" /\ u # t
  <2>1. PICK target, empty : target = Target(t, s.columns) /\ empty = [c \in ColumnNames(t) |-> Null]
    OBVIOUS
  <2>2. PICK row : row = Assign(t, empty, target, s.values)
    OBVIOUS
  <2>3. /\ u = rebuild_indexes(AddRow(t, row), opts)
        /\ Len(target) = Len(s.values) /\ Assignable(t, target, s.values, opts)
    BY <1>1, <1>3, <2>1, <2>2 DEF OnTable, Insert, Failed, Rebuilt
  <2>4. IsVec(target) /\ IsVec(s.values)
    BY <1>0, <1>3, <2>1, TargetVec DEF IsStatement
  <2>5. DOMAIN target = 1..Len(target) /\ Len(target) \in Nat
    BY <2>4, VecDomain
  <2>6. \A c \in ColumnNames(t) : OfType(t, c, row[c])
    <3>1. DOMAIN empty = ColumnNames(t) /\ \A c \in ColumnNames(t) : OfType(t, c, empty[c])
      BY <2>1 DEF OfType
    <3> QED
      BY <2>2, <2>3, <2>5, <3>1, AssignKinds
  <2>7. PICK w : w = AddRow(t, row)
    OBVIOUS
  <2>8. /\ DOMAIN w = Fields /\ w.columns = t.columns
        /\ DOMAIN w.rows = DOMAIN t.rows \cup {t.next_row_id}
        /\ \A r \in DOMAIN w.rows : w.rows[r] = IF r = t.next_row_id THEN row ELSE t.rows[r]
    BY <1>0, <2>7 DEF AddRow, Put, Fields
  <2>9. \A r \in DOMAIN w.rows : \A c \in ColumnNames(t) : OfType(t, c, w.rows[r][c])
    BY <2>6, <2>8 DEF KindTable
  <2>10. KindTable(rebuild_indexes(w, opts))
    BY <2>8, <2>9, RebuildKinds
  <2> QED
    BY <1>1, <2>3, <2>7, <2>10
<1>4. CASE s.op = "Update" /\ u # t
  <2> DEFINE ids == matching_row_ids(t, s.filter, opts)
             rows == [r \in DOMAIN t.rows |->
                         IF r \in ids THEN Assign(t, t.rows[r], s.target, s.values) ELSE t.rows[r]]
             w == [t EXCEPT !.rows = rows]
  <2>1. \/ u = rebuild_indexes(t, opts)
        \/ u = rebuild_indexes(w, opts) /\ Assignable(t, s.target, s.values, opts)
    BY <1>1, <1>4 DEF OnTable, Update, Failed, Rebuilt
  <2>2. DOMAIN s.target = 1..Len(s.values) /\ Len(s.values) \in Nat
    BY <1>4, VecDomain DEF IsStatement
  <2>3. DOMAIN rows = DOMAIN t.rows
    OBVIOUS
  <2>4. ASSUME Assignable(t, s.target, s.values, opts), NEW r \in DOMAIN t.rows
        PROVE  \A c \in ColumnNames(t) : OfType(t, c, rows[r][c])
    <3>1. PICK row : row = t.rows[r]
      OBVIOUS
    <3>2. DOMAIN row = ColumnNames(t) /\ \A c \in ColumnNames(t) : OfType(t, c, row[c])
      BY <1>0, <3>1 DEF KindTable
    <3>3. \A c \in ColumnNames(t) : OfType(t, c, Assign(t, row, s.target, s.values)[c])
      BY <2>2, <2>4, <3>2, AssignKinds
    <3>4. rows[r] = IF r \in ids THEN Assign(t, row, s.target, s.values) ELSE row
      BY <3>1
    <3> HIDE DEF rows, ids
    <3> QED
      BY <3>2, <3>3, <3>4
  <2>5. DOMAIN w = Fields /\ w.columns = t.columns /\ w.rows = rows
    BY <1>0 DEF Fields
  <2> HIDE DEF w, rows, ids
  <2>6. KindTable(rebuild_indexes(t, opts))
    BY <1>0, RebuildKinds DEF KindTable
  <2>7. Assignable(t, s.target, s.values, opts) => KindTable(rebuild_indexes(w, opts))
    BY <2>3, <2>4, <2>5, RebuildKinds
  <2> QED
    BY <1>1, <2>1, <2>6, <2>7
<1>5. CASE s.op = "Delete" /\ u # t
  <2> DEFINE kept == DOMAIN t.rows \ matching_row_ids(t, s.filter, opts)
             w == [t EXCEPT !.rows = [r \in kept |-> t.rows[r]]]
  <2>1. u = rebuild_indexes(w, opts)
    BY <1>1, <1>5 DEF OnTable, Delete, Failed, Rebuilt
  <2>2. /\ DOMAIN w = Fields /\ w.columns = t.columns /\ DOMAIN w.rows = kept
        /\ \A r \in kept : w.rows[r] = t.rows[r]
    BY <1>0 DEF Fields
  <2>3. kept \subseteq DOMAIN t.rows
    OBVIOUS
  <2> HIDE DEF w, kept
  <2>4. \A r \in DOMAIN w.rows : \A c \in ColumnNames(t) : OfType(t, c, w.rows[r][c])
    BY <2>2, <2>3 DEF KindTable
  <2> QED
    BY <1>1, <2>1, <2>2, <2>4, RebuildKinds
<1>6. CASE s.op = "Select" \/ u = t
  BY <1>1, <1>6 DEF OnTable
<1> QED
  BY <1>2, <1>3, <1>4, <1>5, <1>6

\* So does every statement on a catalog.
LEMMA ExecuteKinds ==
    ASSUME NEW cat, DataCatalog(cat), KindCatalog(cat), NEW s, IsStatement(s), NEW o
    PROVE  KindCatalog(execute_statement(cat, s, o).catalog)
<1>1. PICK new : new = execute_statement(cat, s, o).catalog
  OBVIOUS
<1>2. CASE new = cat
  BY <1>1, <1>2
<1>3. CASE s.op = "CreateTable" /\ new # cat
  <2>1. new = Put(cat, s.table, NewTable(s.columns))
    BY <1>1, <1>3 DEF execute_statement
  <2>2. KindTable(NewTable(s.columns))
    BY DEF NewTable, EmptyMap, KindTable
  <2> QED
    BY <1>1, <2>1, <2>2 DEF Put, KindCatalog
<1>4. CASE s.op # "CreateTable" /\ new # cat
  <2>1. s.op \in {"CreateIndex", "Insert", "Update", "Delete", "Select"}
    BY <1>1, <1>4 DEF execute_statement
  <2>2. s.table \in DOMAIN cat /\ new = Put(cat, s.table, OnTable(cat[s.table], s, o).table)
    BY <1>1, <1>4, <2>1 DEF execute_statement
  <2>3. PICK t, u : t = cat[s.table] /\ u = OnTable(t, s, o).table
    OBVIOUS
  <2>4. DataTable(t) /\ KindTable(t)
    BY <2>2, <2>3 DEF DataCatalog, KindCatalog
  <2>5. KindTable(u)
    BY <2>1, <2>3, <2>4, OnTableKinds
  <2> QED
    BY <1>1, <2>2, <2>3, <2>5 DEF Put, KindCatalog
<1> QED
  BY <1>2, <1>3, <1>4

\* Opening the database on its file finds the cells that were written.
LEMMA OpenKinds ==
    ASSUME NEW cat, GoodCatalog(cat), KindCatalog(cat), NEW o
    PROVE  KindCatalog(decode_with_options(encode(cat), o).catalog)
<1>1. PICK new : new = decode_with_options(encode(cat), o).catalog
  OBVIOUS
<1>2. GoodCatalog(new) /\ encode(new) = encode(cat) /\ DOMAIN new = DOMAIN cat
  BY <1>1, OpenGood
<1>3. ASSUME NEW n \in DOMAIN new PROVE KindTable(new[n])
  <2>1. PICK t, u : t = cat[n] /\ u = new[n]
    OBVIOUS
  <2>2. DataTable(t) /\ DataTable(u) /\ KindTable(t)
    BY <1>2, <1>3, <2>1 DEF GoodCatalog, DataCatalog, KindCatalog
  <2>3. encode_table(u) = encode_table(t)
    <3>1. encode(new)[n] = encode_table(u) /\ encode(cat)[n] = encode_table(t)
      BY <1>2, <1>3, <2>1 DEF encode
    <3> QED
      BY <1>2, <3>1
  <2>4. PICK e, f : e = encode_table(u) /\ f = encode_table(t)
    OBVIOUS
  <2>5. /\ e.columns = u.columns /\ f.columns = t.columns
        /\ e.rows = [r \in DOMAIN u.rows |-> [c \in DOMAIN u.rows[r] |-> encode_value(u.rows[r][c])]]
        /\ f.rows = [r \in DOMAIN t.rows |-> [c \in DOMAIN t.rows[r] |-> encode_value(t.rows[r][c])]]
    BY <2>4 DEF encode_table
  <2>6. u.columns = t.columns /\ DOMAIN u.rows = DOMAIN t.rows
    BY <2>3, <2>4, <2>5
  <2>7. ColumnNames(u) = ColumnNames(t) /\ \A c, v : OfType(u, c, v) <=> OfType(t, c, v)
    BY <2>6, SameKinds
  <2>8. ASSUME NEW r \in DOMAIN u.rows, NEW c \in ColumnNames(u) PROVE OfType(u, c, u.rows[r][c])
    <3>1. PICK v, w : v = u.rows[r][c] /\ w = t.rows[r][c]
      OBVIOUS
    <3>2. /\ DOMAIN u.rows[r] = ColumnNames(u) /\ IsValue(v)
          /\ DOMAIN t.rows[r] = ColumnNames(t) /\ IsValue(w)
      BY <2>2, <2>6, <2>7, <2>8, <3>1 DEF DataTable, TypedTable, TypedRows, Storable
    <3>3. e.rows[r][c] = encode_value(v) /\ f.rows[r][c] = encode_value(w)
      BY <2>5, <2>6, <2>7, <2>8, <3>1, <3>2
    <3>4. v = w
      <4>1. encode_value(v) = encode_value(w)
        BY <2>3, <2>4, <3>3
      <4> QED
        BY <3>2, <4>1, KeyInjective DEF encode_value
    <3>5. OfType(t, c, w)
      BY <2>2, <2>6, <2>7, <2>8, <3>1 DEF KindTable
    <3> QED
      BY <2>7, <3>1, <3>4, <3>5
  <2> QED
    BY <2>1, <2>8 DEF KindTable
<1> QED
  BY <1>1, <1>3 DEF KindCatalog

\* Every catalog the database holds is typed.
KindInv ==
    KindCatalog(catalog) /\ (transaction # <<>> => KindCatalog(transaction[1]))

\* No step of the database breaks it.
LEMMA KindInvNext ==
    ASSUME DbInv, KindInv, Next PROVE KindInv'
<1>1. Quiet \/ BeginMove \/ CommitMove \/ RollbackMove \/ Reopen \/ StatementMove
  BY Moves
<1>2. CASE Quiet
  BY <1>2 DEF Quiet, KindInv
<1>3. CASE BeginMove
  BY <1>3 DEF BeginMove, KindInv
<1>4. CASE CommitMove
  BY <1>4 DEF CommitMove, KindInv
<1>5. CASE RollbackMove
  BY <1>5 DEF RollbackMove, KindInv
<1>6. CASE Reopen
  <2>1. file = encode(catalog) /\ GoodCatalog(catalog) /\ KindCatalog(catalog)
    BY <1>6 DEF Reopen, DbInv, KindInv
  <2>2. catalog' = decode_with_options(encode(catalog), options').catalog /\ transaction' = <<>>
    BY <1>6, <2>1 DEF Reopen
  <2>3. KindCatalog(catalog')
    BY <2>1, <2>2, OpenKinds
  <2> QED
    BY <2>2, <2>3 DEF KindInv
<1>7. CASE StatementMove
  <2>1. PICK s \in Statements : StageMove(s) \/ RunMove(s)
    BY <1>7 DEF StatementMove
  <2>2. IsStatement(s)
    BY StatementsParsed
  <2>3. CASE StageMove(s)
    <3>1. KindCatalog(execute_statement(transaction[1], s, options).catalog)
      BY <2>2, <2>3, ExecuteKinds DEF StageMove, DbInv, GoodCatalog, KindInv
    <3> QED
      BY <2>3, <3>1 DEF StageMove, KindInv
  <2>4. CASE RunMove(s)
    <3>1. KindCatalog(execute_statement(catalog, s, options).catalog)
      BY <2>2, ExecuteKinds DEF DbInv, GoodCatalog, KindInv
    <3> QED
      BY <2>4, <3>1 DEF RunMove, KindInv
  <2> QED
    BY <2>1, <2>3, <2>4
<1> QED
  BY <1>1, <1>2, <1>3, <1>4, <1>5, <1>6, <1>7

-----------------------------------------------------------------------------
(* Answers in order *)

\* Ascending lists a finite set of numbers.
LEMMA AscendingLists ==
    ASSUME NEW ids, ids \subseteq Nat, IsFiniteSet(ids)
    PROVE  Ascending(ids) \in Seq(Nat) /\ {Ascending(ids)[i] : i \in DOMAIN Ascending(ids)} = ids
<1>1. PICK n \in Nat : n = Cardinality(ids)
  BY FS_CardinalityType
<1> DEFINE R == {p \in ids \X ids : p[1] < p[2]}
<1>2. TotalOrder(R, ids)
  BY DEF TotalOrder
<1>3. \A r \in ids : Below(R, ids, r) = {q \in ids : q < r}
  BY DEF Below
<1>4. PICK s : s = Ascending(ids)
  OBVIOUS
<1>5. DOMAIN s = 1..n
  BY <1>1, <1>4 DEF Ascending
<1>6. ASSUME NEW i \in 1..n, \E a \in ids : Cardinality(Below(R, ids, a)) = i - 1
      PROVE  s[i] \in ids /\ Cardinality(Below(R, ids, s[i])) = i - 1
  <2> HIDE DEF R
  <2>1. s[i] = CHOOSE r \in ids : Cardinality({q \in ids : q < r}) = i - 1
    BY <1>1, <1>4 DEF Ascending
  <2>2. \E r \in ids : Cardinality({q \in ids : q < r}) = i - 1
    BY <1>3, <1>6
  <2>3. s[i] \in ids /\ Cardinality({q \in ids : q < s[i]}) = i - 1
    BY <2>1, <2>2
  <2> QED
    BY <1>3, <2>3
<1> HIDE DEF R
<1>7. SortedSeq(s, R, ids)
  BY <1>1, <1>2, <1>5, <1>6, RankSorts
<1>8. /\ \A i \in 1..n : s[i] \in ids
      /\ \A a \in ids : \E i \in 1..n : s[i] = a
  BY <1>1, <1>7 DEF SortedSeq
<1>9. s \in Seq(Nat)
  <2> DEFINE at(i) == CHOOSE r \in ids : Cardinality({q \in ids : q < r}) = i - 1
  <2>0. s = [i \in 1..n |-> at(i)]
    BY <1>1, <1>4 DEF Ascending
  <2> HIDE DEF at
  <2>1. s = [i \in 1..n |-> s[i]]
    BY <2>0
  <2>2. s \in [1..n -> Nat]
    BY <1>8, <2>1
  <2> QED
    BY <2>2
<1> QED
  BY <1>4, <1>5, <1>8, <1>9

\* Scores of different rows are ordered.
BeforePairs(scored, descending) ==
    {p \in scored \X scored : Before(p[1], p[2], descending)}

\* ORDER BY orders scores of different rows.
LEMMA BeforeTotal ==
    ASSUME NEW scored, scored \subseteq Scores, \A a, b \in scored : a[2] = b[2] => a = b,
           NEW descending
    PROVE  TotalOrder(BeforePairs(scored, descending), scored)
<1> DEFINE R == BeforePairs(scored, descending)
<1>1. \A a, b \in scored :
          <<a, b>> \in R <=> IF descending THEN Precedes(b, a) ELSE Precedes(a, b)
  BY BeforeIs DEF BeforePairs
<1> HIDE DEF R
<1>2. \A a \in scored : ~Precedes(a, a)
  BY PrecedesOrder
<1>3. \A a, b \in scored : a # b => Precedes(a, b) \/ Precedes(b, a)
  BY PrecedesOrder
<1>4. \A a, b, c \in scored : Precedes(a, b) /\ Precedes(b, c) => Precedes(a, c)
  BY PrecedesTransitive
<1>5. \A a \in scored : <<a, a>> \notin R
  BY <1>1, <1>2
<1>6. \A a, b \in scored : a # b => <<a, b>> \in R \/ <<b, a>> \in R
  BY <1>1, <1>3
<1>7. \A a, b, c \in scored : <<a, b>> \in R /\ <<b, c>> \in R => <<a, c>> \in R
  BY <1>1, <1>4
<1>8. TotalOrder(R, scored)
  BY <1>5, <1>6, <1>7 DEF TotalOrder
<1> QED
  BY <1>8 DEF R

\* sort_by lists the scores in order.
LEMMA SortBySorts ==
    ASSUME NEW scored, scored \subseteq Scores, \A a, b \in scored : a[2] = b[2] => a = b,
           IsFiniteSet(scored), NEW descending
    PROVE  SortedSeq(sort_by(scored, descending), BeforePairs(scored, descending), scored)
<1>1. PICK n, R, s : /\ n = Cardinality(scored) /\ R = BeforePairs(scored, descending)
                     /\ s = sort_by(scored, descending)
  OBVIOUS
<1>2. TotalOrder(R, scored)
  BY <1>1, BeforeTotal
<1>3. \A a \in scored : Below(R, scored, a) = {b \in scored : Before(b, a, descending)}
  BY <1>1 DEF Below, BeforePairs
<1>4. DOMAIN s = 1..n
  BY <1>1 DEF sort_by
<1>5. ASSUME NEW i \in 1..n, \E a \in scored : Cardinality(Below(R, scored, a)) = i - 1
      PROVE  s[i] \in scored /\ Cardinality(Below(R, scored, s[i])) = i - 1
  <2>1. s[i] = CHOOSE a \in scored : Cardinality({b \in scored : Before(b, a, descending)}) = i - 1
    BY <1>1 DEF sort_by
  <2>2. \E a \in scored : Cardinality({b \in scored : Before(b, a, descending)}) = i - 1
    BY <1>3, <1>5
  <2>3. s[i] \in scored /\ Cardinality({b \in scored : Before(b, s[i], descending)}) = i - 1
    BY <2>1, <2>2
  <2> QED
    BY <1>3, <2>3
<1>6. SortedSeq(s, R, scored)
  BY <1>1, <1>2, <1>4, <1>5, RankSorts
<1> QED
  BY <1>1, <1>6

\* The first m of a sorted sequence are m different elements, and every other
\* element comes later.
LEMMA PrefixSorted ==
    ASSUME NEW S, IsFiniteSet(S), NEW R, TotalOrder(R, S), NEW ids, SortedSeq(ids, R, S),
           NEW m \in Nat, m <= Cardinality(S), NEW row_ids \in Seq(S), Len(row_ids) = m,
           \A i \in 1..m : row_ids[i] = ids[i]
    PROVE  /\ Range(row_ids) \subseteq S /\ Cardinality(Range(row_ids)) = m
           /\ m = Cardinality(S) => Range(row_ids) = S
           /\ \A i, j \in DOMAIN row_ids : i < j => <<row_ids[i], row_ids[j]>> \in R
           /\ \A q \in Range(row_ids), r \in S \ Range(row_ids) : <<q, r>> \in R
<1>1. PICK n \in Nat : n = Cardinality(S)
  BY FS_CardinalityType
<1>2. PICK kept : kept = Range(row_ids)
  OBVIOUS
<1>3. DOMAIN row_ids = 1..m /\ kept = {ids[i] : i \in 1..m}
  BY <1>2 DEF Range
<1>4. /\ \A i \in 1..n : ids[i] \in S
      /\ \A i, j \in 1..n : i < j => <<ids[i], ids[j]>> \in R
      /\ \A a \in S : \E i \in 1..n : ids[i] = a
  BY <1>1 DEF SortedSeq
<1>5. \A i \in 1..m : i \in 1..n
  BY <1>1
<1>6. kept \subseteq S
  BY <1>3, <1>4, <1>5
<1>7. Cardinality(kept) = m
  <2> DEFINE f == [i \in 1..m |-> ids[i]]
  <2>1. ASSUME NEW i \in 1..m, NEW j \in 1..m, f[i] = f[j] PROVE i = j
    <3>1. \A a \in S : <<a, a>> \notin R
      BY DEF TotalOrder
    <3>2. ids[i] = ids[j] /\ ids[i] \in S
      BY <1>4, <1>5, <2>1
    <3>3. ~(i < j) /\ ~(j < i)
      BY <1>4, <1>5, <3>1, <3>2
    <3> QED
      BY <3>3
  <2>2. f \in [1..m -> kept]
    BY <1>3
  <2>3. \A k \in kept : \E i \in 1..m : f[i] = k
    BY <1>3
  <2> HIDE DEF f
  <2>4. f \in Injection(1..m, kept) /\ f \in Surjection(1..m, kept)
    BY <2>1, <2>2, <2>3 DEF Injection, IsInjective, Surjection
  <2>5. IsFiniteSet(1..m) /\ Cardinality(1..m) = m
    BY FS_Interval
  <2> QED
    BY <2>4, <2>5, FS_Surjection
<1>8. m = n => kept = S
  BY <1>3, <1>4, <1>6
<1>9. \A i, j \in DOMAIN row_ids : i < j => <<row_ids[i], row_ids[j]>> \in R
  BY <1>3, <1>4, <1>5
<1>10. ASSUME NEW q \in kept, NEW r \in S \ kept PROVE <<q, r>> \in R
  <2>1. PICK i \in 1..m : q = ids[i]
    BY <1>3
  <2>2. PICK j \in 1..n : r = ids[j]
    BY <1>4
  <2>3. j \notin 1..m
    BY <1>3, <2>2
  <2>4. i \in 1..n /\ i < j
    BY <1>5, <2>1, <2>2, <2>3
  <2> QED
    BY <1>4, <2>1, <2>2, <2>4
<1> QED
  BY <1>1, <1>2, <1>6, <1>7, <1>8, <1>9, <1>10

\* A row's vector in the ORDER BY column, and the score it gets.
VectorOf(t, order, r) == Datum(t.rows[r][order.column])
ScoreOf(t, order, metric, r) ==
    <<vector_distance(VectorOf(t, order, r), order.target, metric), r>>

\* The rows that match and have a vector.
Scored(t, s, opts) ==
    {r \in matching_row_ids(t, s.filter, opts) : t.rows[r][s.order[1].column] # Null}

\* A SELECT that passes validation, on a table that holds what it may hold.
Asks(t, s, opts) ==
    /\ SoundTable(t) /\ DataTable(t) /\ KindTable(t) /\ IsFiniteSet(DOMAIN t.rows)
    /\ IsStatement(s) /\ s.op = "Select" /\ s.order # <<>>
    /\ SelectOk(t, s.projection, s.filter, opts) /\ OrderOk(t, s.order[1], opts)
    /\ opts.metric \in Metrics /\ opts.worker_threads \in Nat

\* They are rows of the table, and their vectors are vectors.
LEMMA ScoredRows ==
    ASSUME NEW t, NEW s, NEW opts, Asks(t, s, opts)
    PROVE  /\ matching_row_ids(t, s.filter, opts) \subseteq Nat
           /\ IsFiniteSet(matching_row_ids(t, s.filter, opts))
           /\ Scored(t, s, opts) \subseteq DOMAIN t.rows /\ IsFiniteSet(Scored(t, s, opts))
           /\ Scored(t, s, opts) = {r \in matching_row_ids(t, s.filter, opts) :
                                          Kind(t.rows[r][s.order[1].column]) = "Vector"}
           /\ \A r \in Scored(t, s, opts) : VectorOf(t, s.order[1], r) \in Vectors
<1>1. PICK ids, c : ids = matching_row_ids(t, s.filter, opts) /\ c = s.order[1].column
  OBVIOUS
<1>2. s.filter[1] \in FilterKinds
  BY DEF Asks, IsStatement
<1>3. ids \subseteq DOMAIN t.rows
  BY <1>1, <1>2, MatchingRows DEF Asks
<1>4. DOMAIN t.rows \subseteq Nat
  BY DEF Asks, SoundTable, RowIds
<1>5. c \in ColumnNames(t) /\ column(t, c).ty = "Vector"
  BY <1>1 DEF Asks, OrderOk
<1>6. ASSUME NEW r \in ids
      PROVE  /\ (t.rows[r][c] # Null <=> Kind(t.rows[r][c]) = "Vector")
             /\ Kind(t.rows[r][c]) = "Vector" => Datum(t.rows[r][c]) \in Vectors
  <2>1. PICK v : v = t.rows[r][c]
    OBVIOUS
  <2>2. v = Null \/ Kind(v) = "Vector"
    BY <1>3, <1>5, <2>1 DEF Asks, KindTable, OfType
  <2>3. IsValue(v)
    BY <1>3, <1>5, <2>1 DEF Asks, DataTable, TypedTable, TypedRows, Storable
  <2>4. Kind(Null) # "Vector"
    BY DEF Kind, Null
  <2> QED
    BY <2>1, <2>2, <2>3, <2>4 DEF IsValue
<1>7. IsFiniteSet(ids)
  BY <1>3, FS_Subset DEF Asks
<1>8. PICK rows : rows = Scored(t, s, opts)
  OBVIOUS
<1>9. rows = {r \in ids : t.rows[r][c] # Null}
  BY <1>1, <1>8 DEF Scored
<1>10. rows \in SUBSET ids
  BY <1>9
<1>11. IsFiniteSet(rows)
  BY <1>7, <1>10, FS_Subset
<1>12. rows = {r \in ids : Kind(t.rows[r][c]) = "Vector"}
  BY <1>6, <1>9
<1>13. \A r \in rows : VectorOf(t, s.order[1], r) \in Vectors
  BY <1>1, <1>6, <1>12 DEF VectorOf
<1> QED
  BY <1>1, <1>3, <1>4, <1>7, <1>8, <1>10, <1>11, <1>12, <1>13

\* What a SELECT with ORDER BY answers: the scored rows in order, or an
\* error if one of the vectors cannot be compared with the target.
LEMMA SelectIs ==
    ASSUME NEW t, NEW s, NEW opts, Asks(t, s, opts), NEW order, order = s.order[1],
           NEW rows, rows = Scored(t, s, opts), NEW metric, metric = opts.metric
    PROVE  select(t, s, opts) =
             IF \A r \in rows : Comparable(VectorOf(t, order, r), order.target, metric)
             THEN Selected(ScoredIds(sort_by({ScoreOf(t, order, metric, r) : r \in rows},
                                             order.descending)), s.limit)
             ELSE Refusal
<1>1. PICK ids, matching : ids = matching_row_ids(t, s.filter, opts) /\ matching = Ascending(ids)
  OBVIOUS
<1>2. ids \subseteq Nat /\ IsFiniteSet(ids)
      /\ rows = {r \in ids : Kind(t.rows[r][order.column]) = "Vector"}
  BY <1>1, ScoredRows
<1>3. matching \in Seq(Nat) /\ {matching[i] : i \in DOMAIN matching} = ids
  BY <1>1, <1>2, AscendingLists
<1>4. PICK scores : scores = vector_scores(t, matching, order, opts)
  OBVIOUS
<1>5. opts.worker_threads \in Nat
  BY DEF Asks
<1>6. scores = vector_scores_chunk(t, ids, order, metric)
  <2>1. vector_scores(t, matching, order, opts) =
            vector_scores_chunk(t, {matching[i] : i \in DOMAIN matching}, order, opts.metric)
    BY <1>3, <1>5, WorkersAgree
  <2> QED
    BY <1>3, <1>4, <2>1
<1>7. scores = IF \A r \in rows : Comparable(VectorOf(t, order, r), order.target, metric)
               THEN [ok |-> TRUE, scored |-> {ScoreOf(t, order, metric, r) : r \in rows}]
               ELSE [ok |-> FALSE, scored |-> {}]
  BY <1>2, <1>6 DEF vector_scores_chunk, VectorOf, ScoreOf
<1>8. select(t, s, opts) = Ordered(scores, order.descending, s.limit)
  BY <1>1, <1>4 DEF select, Asks
<1> QED
  BY <1>7, <1>8 DEF Ordered

\* Rows in the order of their scores.
RowPairs(t, order, metric, rows) ==
    {p \in rows \X rows : Before(ScoreOf(t, order, metric, p[1]),
                                 ScoreOf(t, order, metric, p[2]), order.descending)}

\* The scores that vector_scores collects.
ScoresOf(t, order, metric, rows) == {ScoreOf(t, order, metric, r) : r \in rows}

\* Sorting the scores sorts the rows.
LEMMA IdsSorted ==
    ASSUME NEW t, NEW order, NEW metric, NEW rows, IsFiniteSet(rows),
           \A r \in rows : ScoreOf(t, order, metric, r) \in Scores,
           NEW ids, ids = ScoredIds(sort_by(ScoresOf(t, order, metric, rows), order.descending))
    PROVE  /\ TotalOrder(RowPairs(t, order, metric, rows), rows)
           /\ SortedSeq(ids, RowPairs(t, order, metric, rows), rows)
           /\ ids \in Seq(rows) /\ Len(ids) = Cardinality(rows)
<1> DEFINE score(r) == ScoreOf(t, order, metric, r)
           f == [r \in rows |-> score(r)]
<1>0. \A r \in rows : score(r)[2] = r
  BY DEF ScoreOf
<1>1. PICK scored : scored = {score(r) : r \in rows} /\ scored = ScoresOf(t, order, metric, rows)
  BY DEF ScoresOf
<1>2. PICK B, R : B = RowPairs(t, order, metric, rows) /\ R = BeforePairs(scored, order.descending)
  OBVIOUS
<1>3. PICK sorted : sorted = sort_by(scored, order.descending)
  OBVIOUS
<1>4. ids = ScoredIds(sorted)
  BY <1>1, <1>3
<1>5. \A q, r \in rows : <<q, r>> \in B <=> Before(score(q), score(r), order.descending)
  BY <1>2 DEF RowPairs
<1>6. \A a, b \in scored : <<a, b>> \in R <=> Before(a, b, order.descending)
  BY <1>2 DEF BeforePairs
<1>7. \A r \in rows : score(r) \in Scores
  OBVIOUS
<1> HIDE DEF score
<1>8. scored \subseteq Scores /\ \A a, b \in scored : a[2] = b[2] => a = b
  BY <1>0, <1>1, <1>7
<1>9. IsFiniteSet(scored) /\ Cardinality(scored) = Cardinality(rows)
  <2>1. \A q, r \in rows : f[q] = f[r] => q = r
    BY <1>0
  <2>2. f \in [rows -> scored] /\ \A a \in scored : \E r \in rows : f[r] = a
    BY <1>1
  <2> HIDE DEF f
  <2>3. f \in Injection(rows, scored) /\ f \in Surjection(rows, scored)
    BY <2>1, <2>2 DEF Injection, IsInjective, Surjection
  <2> QED
    BY <2>3, FS_Surjection
<1>10. PICK n \in Nat : n = Cardinality(rows)
  BY FS_CardinalityType
<1>11. SortedSeq(sorted, R, scored)
  BY <1>2, <1>3, <1>8, <1>9, SortBySorts
<1>12. /\ DOMAIN sorted = 1..n
       /\ \A i \in 1..n : sorted[i] \in scored
       /\ \A i, j \in 1..n : i < j => <<sorted[i], sorted[j]>> \in R
       /\ \A a \in scored : \E i \in 1..n : sorted[i] = a
  BY <1>9, <1>10, <1>11 DEF SortedSeq
<1>13. DOMAIN ids = 1..n /\ \A i \in 1..n : ids[i] \in rows /\ sorted[i] = score(ids[i])
  <2>1. DOMAIN ids = 1..n /\ \A i \in 1..n : ids[i] = sorted[i][2]
    BY <1>4, <1>12 DEF ScoredIds
  <2> QED
    BY <1>0, <1>1, <1>12, <2>1
<1>14. \A i, j \in 1..n : i < j => <<ids[i], ids[j]>> \in B
  <2>1. ASSUME NEW i \in 1..n, NEW j \in 1..n, i < j PROVE <<ids[i], ids[j]>> \in B
    <3>1. <<sorted[i], sorted[j]>> \in R /\ sorted[i] \in scored /\ sorted[j] \in scored
      BY <1>12, <2>1
    <3>2. Before(sorted[i], sorted[j], order.descending)
      BY <1>6, <3>1
    <3>3. Before(score(ids[i]), score(ids[j]), order.descending)
      BY <1>13, <3>2
    <3> QED
      BY <1>5, <1>13, <3>3
  <2> QED
    BY <2>1
<1>15. \A r \in rows : \E i \in 1..n : ids[i] = r
  <2>1. ASSUME NEW r \in rows PROVE \E i \in 1..n : ids[i] = r
    <3>1. PICK i \in 1..n : sorted[i] = score(r)
      BY <1>1, <1>12
    <3>2. score(ids[i]) = score(r) /\ ids[i] \in rows
      BY <1>13, <3>1
    <3>3. ids[i] = r
      BY <1>0, <3>2
    <3> QED
      BY <3>3
  <2> QED
    BY <2>1
<1>16. SortedSeq(ids, B, rows)
  BY <1>10, <1>13, <1>14, <1>15 DEF SortedSeq
<1>17. TotalOrder(B, rows)
  <2>1. TotalOrder(R, scored)
    BY <1>2, <1>8, BeforeTotal
  <2>2. \A r \in rows : score(r) \in scored
    BY <1>1
  <2>3. \A q, r \in rows : <<q, r>> \in B <=> <<score(q), score(r)>> \in R
    BY <1>5, <1>6, <2>2
  <2>4. \A q \in rows : <<q, q>> \notin B
    BY <2>1, <2>2, <2>3 DEF TotalOrder
  <2>5. ASSUME NEW q \in rows, NEW r \in rows, q # r PROVE <<q, r>> \in B \/ <<r, q>> \in B
    <3>1. score(q) # score(r)
      BY <1>0, <2>5
    <3> QED
      BY <2>1, <2>2, <2>3, <3>1 DEF TotalOrder
  <2>6. ASSUME NEW p \in rows, NEW q \in rows, NEW r \in rows, <<p, q>> \in B, <<q, r>> \in B
        PROVE  <<p, r>> \in B
    <3>1. PICK x, y, z : x = score(p) /\ y = score(q) /\ z = score(r)
      OBVIOUS
    <3>2. x \in scored /\ y \in scored /\ z \in scored /\ <<x, y>> \in R /\ <<y, z>> \in R
      BY <2>2, <2>3, <2>6, <3>1
    <3>3. <<x, z>> \in R
      BY <2>1, <3>2 DEF TotalOrder
    <3> QED
      BY <2>3, <3>1, <3>3
  <2> QED
    BY <2>4, <2>5, <2>6 DEF TotalOrder
<1>18. ids \in Seq(rows) /\ Len(ids) = n
  <2>1. ids = [i \in 1..n |-> sorted[i][2]]
    BY <1>4, <1>12 DEF ScoredIds
  <2>2. ids \in [1..n -> rows]
    BY <1>13, <2>1
  <2> QED
    BY <1>10, <2>2
<1> QED
  BY <1>2, <1>10, <1>16, <1>17, <1>18

\* LIMIT keeps the first rows.
LEMMA TruncateKeeps ==
    ASSUME NEW S, NEW ids \in Seq(S), NEW limit, limit = <<>> \/ limit[1] \in Nat
    PROVE  LET kept == truncate(ids, limit)
           IN /\ kept \in Seq(S) /\ Len(kept) <= Len(ids)
              /\ \A i \in 1..Len(kept) : kept[i] = ids[i]
              /\ limit = <<>> => Len(kept) = Len(ids)
              /\ limit # <<>> => Len(kept) = Min({limit[1], Len(ids)})
<1>1. CASE limit = <<>>
  BY <1>1 DEF truncate
<1>2. CASE limit # <<>>
  <2>1. PICK n, m : n = Len(ids) /\ m = Min({limit[1], n})
    OBVIOUS
  <2>2. PICK kept : kept = SubSeq(ids, 1, m)
    OBVIOUS
  <2>3. truncate(ids, limit) = kept
    BY <1>2, <2>1, <2>2 DEF truncate
  <2>4. m \in Nat /\ n \in Nat /\ m <= n
    <3>1. limit[1] \in Nat /\ n \in Nat
      BY <1>2, <2>1
    <3>2. m = IF limit[1] <= n THEN limit[1] ELSE n
      BY <2>1, <3>1, MinOfTwo
    <3> QED
      BY <3>1, <3>2
  <2>5. \A i \in 1..m : ids[i] \in S
    BY <2>1, <2>4
  <2>6. kept \in Seq(S) /\ Len(kept) = m /\ \A i \in 1..m : kept[i] = ids[i]
    BY <2>2, <2>4, <2>5, SubSeqProperties
  <2> QED
    BY <1>2, <2>1, <2>3, <2>4, <2>6
<1> QED
  BY <1>1, <1>2

\* What OrderExact says of one answer.
InOrder(t, order, metric, rows, limit, answer) ==
    LET kept == Range(answer.row_ids)
    IN /\ answer.ok <=> \A r \in rows : Comparable(VectorOf(t, order, r), order.target, metric)
       /\ answer.ok =>
             /\ kept \subseteq rows /\ Cardinality(kept) = Len(answer.row_ids)
             /\ limit = <<>> => kept = rows
             /\ limit # <<>> => Len(answer.row_ids) = Min({limit[1], Cardinality(rows)})
             /\ \A i, j \in DOMAIN answer.row_ids :
                   i < j => Listed(ScoreOf(t, order, metric, answer.row_ids[i]),
                                   ScoreOf(t, order, metric, answer.row_ids[j]), order.descending)
             /\ \A q \in kept, r \in rows \ kept :
                   Listed(ScoreOf(t, order, metric, q), ScoreOf(t, order, metric, r), order.descending)

\* The answer to one query.
LEMMA AnswerInOrder ==
    ASSUME NEW t, NEW s, NEW opts, Asks(t, s, opts), NEW order, order = s.order[1],
           NEW rows, rows = Scored(t, s, opts), NEW metric, metric = opts.metric,
           NEW answer, answer = select(t, s, opts)
    PROVE  InOrder(t, order, metric, rows, s.limit, answer)
<1> DEFINE fit == \A r \in rows : Comparable(VectorOf(t, order, r), order.target, metric)
<1>1. PICK ids : ids = ScoredIds(sort_by(ScoresOf(t, order, metric, rows), order.descending))
  OBVIOUS
<1>2. answer = IF fit THEN Selected(ids, s.limit) ELSE Refusal
  BY <1>1, SelectIs DEF ScoresOf
<1>3. answer.ok <=> fit
  <2> HIDE DEF fit
  <2> QED
    BY <1>2 DEF Selected, Refusal
<1>4. CASE ~fit
  BY <1>3, <1>4 DEF InOrder
<1>5. CASE fit
  <2>1. PICK row_ids : row_ids = answer.row_ids
    OBVIOUS
  <2>2. row_ids = truncate(ids, s.limit)
    <3> HIDE DEF fit
    <3> QED
      BY <1>2, <1>5, <2>1 DEF Selected
  <2>3. IsFiniteSet(rows) /\ rows \subseteq DOMAIN t.rows
        /\ \A r \in rows : VectorOf(t, order, r) \in Vectors
    BY ScoredRows
  <2>4. ASSUME NEW r \in rows PROVE ScoreOf(t, order, metric, r) \in Scores
    <3>1. PICK v : v = VectorOf(t, order, r)
      OBVIOUS
    <3>2. v \in Vectors /\ order.target \in Vectors /\ metric \in Metrics
      BY <2>3, <3>1 DEF Asks, IsStatement
    <3>3. Comparable(v, order.target, metric)
      BY <1>5, <3>1
    <3>4. PICK m \in Int, d \in Nat \ {0} : vector_distance(v, order.target, metric) = <<m, d>>
      BY <3>2, <3>3, DistanceRational
    <3>5. r \in Nat
      BY <2>3 DEF Asks, SoundTable, RowIds
    <3> QED
      BY <3>1, <3>4, <3>5 DEF ScoreOf, Scores, Fractions
  <2>5. PICK B : B = RowPairs(t, order, metric, rows)
    OBVIOUS
  <2>6. TotalOrder(B, rows) /\ SortedSeq(ids, B, rows) /\ ids \in Seq(rows) /\ Len(ids) = Cardinality(rows)
    <3> HIDE DEF fit
    <3>1. \A r \in rows : ScoreOf(t, order, metric, r) \in Scores
      BY <2>4
    <3>2. /\ TotalOrder(RowPairs(t, order, metric, rows), rows)
          /\ SortedSeq(ids, RowPairs(t, order, metric, rows), rows)
          /\ ids \in Seq(rows) /\ Len(ids) = Cardinality(rows)
      BY <1>1, <2>3, <3>1, IdsSorted
    <3> QED
      BY <2>5, <3>2
  <2>7. s.limit = <<>> \/ s.limit[1] \in Nat
    BY DEF Asks, IsStatement
  <2>8. /\ row_ids \in Seq(rows) /\ Len(row_ids) <= Cardinality(rows)
        /\ \A i \in 1..Len(row_ids) : row_ids[i] = ids[i]
        /\ s.limit = <<>> => Len(row_ids) = Cardinality(rows)
        /\ s.limit # <<>> => Len(row_ids) = Min({s.limit[1], Cardinality(rows)})
    BY <2>2, <2>6, <2>7, TruncateKeeps, ZenonT(40)
  <2>9. PICK m \in Nat : m = Len(row_ids)
    BY <2>8
  <2>10. /\ Range(row_ids) \subseteq rows /\ Cardinality(Range(row_ids)) = m
         /\ m = Cardinality(rows) => Range(row_ids) = rows
         /\ \A i, j \in DOMAIN row_ids : i < j => <<row_ids[i], row_ids[j]>> \in B
         /\ \A q \in Range(row_ids), r \in rows \ Range(row_ids) : <<q, r>> \in B
    BY <2>3, <2>6, <2>8, <2>9, PrefixSorted
  <2>11. \A q, r : <<q, r>> \in B =>
             Listed(ScoreOf(t, order, metric, q), ScoreOf(t, order, metric, r), order.descending)
    BY <2>4, <2>5, BeforeListed DEF RowPairs
  <2>12. s.limit = <<>> => Range(row_ids) = rows
    BY <2>8, <2>9, <2>10
  <2>13. \A i, j \in DOMAIN row_ids :
             i < j => Listed(ScoreOf(t, order, metric, row_ids[i]),
                             ScoreOf(t, order, metric, row_ids[j]), order.descending)
    BY <2>10, <2>11
  <2>14. \A q \in Range(row_ids), r \in rows \ Range(row_ids) :
             Listed(ScoreOf(t, order, metric, q), ScoreOf(t, order, metric, r), order.descending)
    BY <2>10, <2>11
  <2>15. Range(row_ids) \subseteq rows /\ Cardinality(Range(row_ids)) = Len(row_ids)
    BY <2>9, <2>10
  <2>16. s.limit # <<>> => Len(row_ids) = Min({s.limit[1], Cardinality(rows)})
    BY <2>8
  <2> QED
    BY <1>3, <1>5, <2>1, <2>12, <2>13, <2>14, <2>15, <2>16 DEF InOrder
<1> QED
  BY <1>4, <1>5

\* A SELECT with ORDER BY VECTOR_DISTANCE on any catalog a reader can see fails
\* exactly if some matching vector cannot be compared with the target, and
\* otherwise answers with the matching rows that have a vector, each once,
\* nearest first (last if DESC), equal distances in row order, cut by LIMIT
\* (vector_scores, select_with_options).
THEOREM AnswersInOrder == Spec => []OrderExact
<1>1. Init => KindInv
  BY DEF Init, KindInv, KindCatalog, EmptyCatalog, EmptyMap
<1>2. DbInv /\ KindInv /\ [Next]_vars => KindInv'
  <2>1. CASE UNCHANGED vars
    BY <2>1 DEF vars, KindInv
  <2> QED
    BY <2>1, KindInvNext
<1>3. ASSUME DbInv, KindInv, NEW c \in Staged, NEW n \in DOMAIN c, NEW s \in Statements,
             s.op = "Select", s.order # <<>>,
             SelectOk(c[n], s.projection, s.filter, options), OrderOk(c[n], s.order[1], options)
      PROVE  Asks(c[n], s, options)
  <2>1. GoodCatalog(c)
    BY <1>3, StagedGood
  <2>2. KindCatalog(c)
    BY <1>3 DEF KindInv, Staged, DbInv
  <2>3. PICK t : t = c[n]
    OBVIOUS
  <2>4. SoundTable(t) /\ DataTable(t) /\ KindTable(t) /\ Bounded(t)
    BY <1>3, <2>1, <2>2, <2>3 DEF GoodCatalog, Sound, DataCatalog, KindCatalog
  <2>5. IsFiniteSet(DOMAIN t.rows)
    <3>1. PICK k \in Nat : DOMAIN t.rows \subseteq 1..k
      BY <2>4, DatabaseAssumption DEF Bounded
    <3>2. IsFiniteSet(1..k)
      BY FS_Interval
    <3> QED
      BY <3>1, <3>2, FS_Subset
  <2>6. options.metric \in Metrics /\ options.worker_threads \in Nat
    BY <1>3, OptionsTyped DEF DbInv
  <2> QED
    BY <1>3, <2>3, <2>4, <2>5, <2>6, StatementsParsed DEF Asks
<1>4. ASSUME DbInv, KindInv, NEW c \in Staged, NEW n \in DOMAIN c, NEW s \in Statements,
             s.op = "Select", s.order # <<>>,
             SelectOk(c[n], s.projection, s.filter, options), OrderOk(c[n], s.order[1], options)
      PROVE  InOrder(c[n], s.order[1], options.metric, Scored(c[n], s, options), s.limit,
                     select(c[n], s, options))
  <2>1. Asks(c[n], s, options)
    BY <1>3, <1>4
  <2> QED
    BY <2>1, AnswerInOrder
<1>5. DbInv /\ KindInv => OrderExact
  <2>1. DbInv /\ KindInv => \A c \in Staged : \A n \in DOMAIN c : \A s \in Statements :
            (/\ s.op = "Select" /\ s.table = n /\ s.order # <<>>
             /\ SelectOk(c[n], s.projection, s.filter, options) /\ OrderOk(c[n], s.order[1], options)) =>
                InOrder(c[n], s.order[1], options.metric, Scored(c[n], s, options), s.limit,
                        select(c[n], s, options))
    BY <1>4
  <2> QED
    BY <2>1, Zenon DEF OrderExact, InOrder, Scored, VectorOf, ScoreOf
<1> QED
  BY <1>1, <1>2, <1>5, DbInvariant, PTL DEF Spec
=============================================================================
