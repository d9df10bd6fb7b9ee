----------------------------- MODULE DataProofs -----------------------------
(***************************************************************************)
(* Lemmas about the data in a catalog, for every table, statement, option  *)
(* and file: the rows have their columns and values that can be keyed      *)
(* (Typed), keys are unique and the lookup maps are what the rows say      *)
(* (Exact), and the database file gives back what was written to it.       *)
(***************************************************************************)
EXTENDS CatalogProofs, SequenceTheorems

\* A value that a row may hold: the finite ones.
Storable(v) == IsValue(v) /\ Indexable(v)

TypedRows(t) ==
    \A r \in DOMAIN t.rows :
        DOMAIN t.rows[r] = ColumnNames(t) /\ \A c \in ColumnNames(t) : Storable(t.rows[r][c])
TypedTable(t) ==
    /\ DOMAIN t = Fields
    /\ IsVec(t.columns) /\ t.primary_key = primary_key_column(t.columns)
    /\ \A i \in DOMAIN t.indexes : t.indexes[i].column \in ColumnNames(t)
    /\ \A i \in DOMAIN t.fulltext_indexes : t.fulltext_indexes[i].column \in ColumnNames(t)
    /\ TypedRows(t)

\* Keys are unique and the equality maps exact; and the full-text maps.
ExactTable(t) ==
    /\ CanRebuild(t)
    /\ t.primary = PrimaryMap(t)
    /\ \A i \in DOMAIN t.indexes : t.indexes[i].map = IndexMap(t, t.indexes[i].column)
ExactTexts(t, tokenizer) ==
    \A i \in DOMAIN t.fulltext_indexes :
        t.fulltext_indexes[i].map = FullTextMap(t, t.fulltext_indexes[i].column, tokenizer)

DataTable(t) == TypedTable(t) /\ ExactTable(t)
DataCatalog(cat) == \A n \in DOMAIN cat : DataTable(cat[n])

\* A later version of a table has its columns and at least its indexes.
Definitions(t, u) ==
    /\ u.columns = t.columns
    /\ DOMAIN t.indexes \subseteq DOMAIN u.indexes
    /\ DOMAIN t.fulltext_indexes \subseteq DOMAIN u.fulltext_indexes

-----------------------------------------------------------------------------
(* Values *)

\* The kinds have different tags, none of them that of NULL.
LEMMA Tags ==
    /\ DOMAIN Tag = {"Integer", "Float", "Boolean", "Text", "Vector", "Point"}
    /\ \A k \in DOMAIN Tag : Tag[k] # "N" /\ k # "Null"
    /\ \A k, l \in DOMAIN Tag : Tag[k] = Tag[l] => k = l
<1>1. /\ DOMAIN Tag = {"Integer", "Float", "Boolean", "Text", "Vector", "Point"}
      /\ Tag["Integer"] = "I" /\ Tag["Float"] = "F" /\ Tag["Boolean"] = "B"
      /\ Tag["Text"] = "T" /\ Tag["Vector"] = "V" /\ Tag["Point"] = "P"
  BY DEF Tag
<1> QED
  BY <1>1

\* A value is read back as it was written (encode_value, decode_value).
LEMMA ValueRoundTrip ==
    ASSUME NEW v, IsValue(v)
    PROVE  decode_value(encode_value(v)) = v
<1>1. CASE v = Null
  BY <1>1 DEF decode_value, encode_value, index_key
<1>2. CASE v # Null
  <2>1. /\ v[1] \in DOMAIN Tag /\ v = <<v[1], v[2]>>
    BY <1>2 DEF IsValue, Kind, Datum
  <2> DEFINE e == encode_value(v)
  <2>2. e = <<Tag[v[1]], v[2]>>
    BY <1>2 DEF encode_value, index_key, Kind, Datum
  <2>3. e[1] = Tag[v[1]] /\ e[2] = v[2]
    BY <2>2
  <2>4. e # <<"N">>
    BY <2>1, <2>3, Tags
  <2> HIDE DEF e
  <2>5. (CHOOSE kind \in DOMAIN Tag : Tag[kind] = e[1]) = v[1]
    BY <2>1, <2>3, Tags
  <2> QED
    BY <2>1, <2>3, <2>4, <2>5 DEF decode_value, e
<1> QED
  BY <1>1, <1>2

\* NULL can be stored.
LEMMA NullStorable == Storable(Null)
BY DEF Storable, IsValue, Indexable, Null, Kind

\* What a column takes, it stores as a finite value (validate_value_with_options).
LEMMA CoerceStorable ==
    ASSUME NEW col, NEW v, IsValue(v), NEW options, Accepts(col, v, options)
    PROVE  Storable(Coerce(col, v))
<1>1. CASE col.ty = "Float" /\ Kind(v) = "Integer"
  <2>1. v # Null
    BY <1>1 DEF Null, Kind
  <2>2. Datum(v) \in Int
    BY <1>1, <2>1 DEF IsValue
  <2> DEFINE m == IF Datum(v) < 0 THEN -Datum(v) ELSE Datum(v)
             x == <<Datum(v) < 0, m>>
             w == <<"Float", x>>
  <2>3. m # -1
    BY <2>2
  <2>4. x # NonFinite
    <3> HIDE DEF m
    <3>1. x[2] = m /\ NonFinite[2] = -1
      BY DEF NonFinite
    <3> QED
      BY <2>3, <3>1
  <2>5. Coerce(col, v) = w
    BY <1>1 DEF Coerce
  <2> HIDE DEF x
  <2>6. w[1] = "Float" /\ w[2] = x /\ w = <<w[1], w[2]>>
    OBVIOUS
  <2> HIDE DEF w
  <2>7. Indexable(w)
    BY <2>4, <2>6 DEF Indexable, Kind, Datum
  <2>8. IsValue(w)
    BY <2>6, Tags DEF IsValue, Kind, Datum
  <2> QED
    BY <2>5, <2>7, <2>8 DEF Storable
<1>2. CASE ~(col.ty = "Float" /\ Kind(v) = "Integer")
  <2>1. Coerce(col, v) = v
    BY <1>2 DEF Coerce
  <2>2. v = Null \/ Indexable(v)
    BY <1>2 DEF Accepts
  <2> QED
    BY <2>1, <2>2, NullStorable DEF Storable
<1> QED
  BY <1>1, <1>2

-----------------------------------------------------------------------------
(* Rebuilds *)

\* Two tables with the same rows and definitions have the same maps.
LEMMA SameMaps ==
    ASSUME NEW t, NEW u, u.rows = t.rows, u.primary_key = t.primary_key
    PROVE  /\ PrimaryMap(u) = PrimaryMap(t)
           /\ \A c : IndexMap(u, c) = IndexMap(t, c)
           /\ \A c, tokenizer : FullTextMap(u, c, tokenizer) = FullTextMap(t, c, tokenizer)
<1>1. PrimaryMap(u) = PrimaryMap(t)
  BY DEF PrimaryMap, RowKey
<1>2. \A c : IndexMap(u, c) = IndexMap(t, c)
  BY DEF IndexMap, RowKey
<1>3. \A c, tokenizer : FullTextMap(u, c, tokenizer) = FullTextMap(t, c, tokenizer)
  BY DEF FullTextMap, RowTokens
<1> QED
  BY <1>1, <1>2, <1>3

\* A rebuild keeps columns, rows and definitions, and makes the maps exact
\* when it succeeds (rebuild_indexes_with_options).
LEMMA RebuildData ==
    ASSUME NEW t, TypedTable(t), NEW options
    PROVE  LET u == rebuild_indexes(t, options)
           IN /\ TypedTable(u) /\ Definitions(t, u)
              /\ u.rows = t.rows /\ encode_table(u) = encode_table(t)
              /\ CanRebuild(t) => ExactTable(u)
              /\ ExactTexts(u, options.fulltext_tokenizer)
<1>0. DOMAIN t = Fields
  BY DEF TypedTable
<1>1. PICK u : u = rebuild_indexes(t, options)
  OBVIOUS
<1>2. /\ DOMAIN u = Fields /\ u.rows = t.rows /\ u.columns = t.columns
      /\ u.primary_key = t.primary_key /\ u.primary = PrimaryMap(t)
      /\ u.indexes = [n \in DOMAIN t.indexes |->
            [column |-> t.indexes[n].column, map |-> IndexMap(t, t.indexes[n].column)]]
      /\ u.fulltext_indexes = [n \in DOMAIN t.fulltext_indexes |->
            [column |-> t.fulltext_indexes[n].column,
             map |-> FullTextMap(t, t.fulltext_indexes[n].column, options.fulltext_tokenizer)]]
  BY <1>0, <1>1 DEF rebuild_indexes, Fields
<1>3. /\ DOMAIN u.indexes = DOMAIN t.indexes
      /\ \A n \in DOMAIN t.indexes : /\ u.indexes[n].column = t.indexes[n].column
                                     /\ u.indexes[n].map = IndexMap(t, t.indexes[n].column)
      /\ DOMAIN u.fulltext_indexes = DOMAIN t.fulltext_indexes
      /\ \A n \in DOMAIN t.fulltext_indexes :
            /\ u.fulltext_indexes[n].column = t.fulltext_indexes[n].column
            /\ u.fulltext_indexes[n].map =
                   FullTextMap(t, t.fulltext_indexes[n].column, options.fulltext_tokenizer)
  BY <1>2
<1>4. ColumnNames(u) = ColumnNames(t)
  BY <1>2 DEF ColumnNames
<1>5. TypedTable(u)
  BY <1>2, <1>3, <1>4 DEF TypedTable, TypedRows
<1>6. Definitions(t, u)
  BY <1>2, <1>3 DEF Definitions
<1>7. CanRebuild(t) => CanRebuild(u)
  BY <1>2, <1>3 DEF CanRebuild, RowKey
<1>8. CanRebuild(t) => ExactTable(u)
  BY <1>2, <1>3, <1>7, SameMaps DEF ExactTable
<1>9. ExactTexts(u, options.fulltext_tokenizer)
  BY <1>2, <1>3, SameMaps DEF ExactTexts
<1>10. encode_table(u) = encode_table(t)
  <2>1. /\ indexes_for_encoding(u.indexes) = indexes_for_encoding(t.indexes)
        /\ indexes_for_encoding(u.fulltext_indexes) = indexes_for_encoding(t.fulltext_indexes)
    BY <1>3 DEF indexes_for_encoding
  <2> QED
    BY <1>2, <2>1 DEF encode_table
<1> QED
  BY <1>1, <1>2, <1>5, <1>6, <1>8, <1>9, <1>10

\* In a typed table only the primary key can make a rebuild fail.
LEMMA TypedCanRebuild ==
    ASSUME NEW t, TypedTable(t),
           t.primary_key # NoColumn =>
              /\ \A r \in DOMAIN t.rows : t.rows[r][t.primary_key[1]] # Null
              /\ \A q, r \in DOMAIN t.rows :
                     RowKey(t, q, t.primary_key[1]) = RowKey(t, r, t.primary_key[1]) => q = r
    PROVE  CanRebuild(t)
<1>1. t.primary_key # NoColumn => t.primary_key[1] \in ColumnNames(t)
  <2> HAVE t.primary_key # NoColumn
  <2>1. \E i \in DOMAIN t.columns : t.columns[i].primary_key
    BY DEF TypedTable, primary_key_column
  <2>2. PICK i \in DOMAIN t.columns : t.primary_key = <<t.columns[i].name>>
    BY <2>1 DEF TypedTable, primary_key_column
  <2> QED
    BY <2>2 DEF ColumnNames
<1>2. \A r \in DOMAIN t.rows : \A c \in ColumnNames(t) : Indexable(t.rows[r][c])
  BY DEF TypedTable, TypedRows, Storable
<1> QED
  BY <1>1, <1>2 DEF CanRebuild, TypedTable

-----------------------------------------------------------------------------
(* Assignments *)

\* Vec's indices are those up to its length.
LEMMA VecDomain ==
    ASSUME NEW s, IsVec(s)
    PROVE  Len(s) \in Nat /\ DOMAIN s = 1..Len(s)
BY LenProperties DEF IsVec

\* A function on an initial segment of the positive numbers is a Vec.
LEMMA FunctionVec ==
    ASSUME NEW n \in Nat, NEW s, s = [i \in 1..n |-> s[i]]
    PROVE  IsVec(s)
<1> DEFINE S == {s[i] : i \in DOMAIN s}
<1>1. s \in [1..n -> S]
  OBVIOUS
<1> HIDE DEF S
<1>2. s \in Seq(S)
  BY <1>1, SeqDef
<1> QED
  BY <1>2 DEF IsVec, S

\* The columns an INSERT targets are a Vec.
LEMMA TargetVec ==
    ASSUME NEW t, IsVec(t.columns), NEW columns, columns = <<>> \/ IsVec(columns[1])
    PROVE  IsVec(Target(t, columns))
<1>1. CASE columns = <<>>
  <2> DEFINE s == [i \in DOMAIN t.columns |-> t.columns[i].name]
  <2>1. Len(t.columns) \in Nat /\ DOMAIN t.columns = 1..Len(t.columns)
    BY VecDomain
  <2>2. s = [i \in 1..Len(t.columns) |-> s[i]]
    BY <2>1
  <2> HIDE DEF s
  <2>3. IsVec(s)
    BY <2>1, <2>2, FunctionVec
  <2> QED
    BY <1>1, <2>3 DEF Target, s
<1>2. CASE columns # <<>>
  BY <1>2 DEF Target
<1> QED
  BY <1>1, <1>2

\* A row that is assigned accepted values keeps its columns and holds values
\* that can be stored.
LEMMA AssignTyped ==
    ASSUME NEW t, NEW row, NEW target, NEW values, NEW options,
           DOMAIN row = ColumnNames(t), \A c \in ColumnNames(t) : Storable(row[c]),
           NEW n \in Nat, DOMAIN target = 1..n,
           \A i \in DOMAIN target : IsValue(values[i]),
           Assignable(t, target, values, options)
    PROVE  LET new == Assign(t, row, target, values)
           IN DOMAIN new = ColumnNames(t) /\ \A c \in ColumnNames(t) : Storable(new[c])
<1> DEFINE new == Assign(t, row, target, values)
           at(c) == {i \in DOMAIN target : target[i] = c}
<1>1. /\ DOMAIN new = ColumnNames(t)
      /\ \A c \in ColumnNames(t) :
            new[c] = IF at(c) = {} THEN row[c] ELSE Coerce(column(t, c), values[Max(at(c))])
  BY DEF Assign
<1> HIDE DEF new
<1>2. ASSUME NEW c \in ColumnNames(t), at(c) # {}
      PROVE  Storable(Coerce(column(t, c), values[Max(at(c))]))
  <2>1. IsFiniteSet(1..n) /\ at(c) \subseteq 1..n
    BY FS_Interval
  <2>2. IsFiniteSet(at(c)) /\ at(c) \subseteq Nat
    BY <2>1, FS_Subset
  <2>3. Max(at(c)) \in at(c)
    <3> HIDE DEF at
    <3> QED
      BY <1>2, <2>2, MaxOfFinite
  <2>4. PICK i : i = Max(at(c))
    OBVIOUS
  <2>5. i \in DOMAIN target /\ target[i] = c
    BY <2>3, <2>4
  <2>6. IsValue(values[i]) /\ Accepts(column(t, c), values[i], options)
    BY <2>5 DEF Assignable
  <2> QED
    BY <2>4, <2>6, CoerceStorable
<1>3. \A c \in ColumnNames(t) : Storable(new[c])
  <2> HIDE DEF at
  <2> QED
    BY <1>1, <1>2
<1> QED
  BY <1>1, <1>3 DEF new

-----------------------------------------------------------------------------
(* Table operations on typed and exact tables *)

\* What an operation leaves: a typed and exact table with the definitions it had.
Keeps(t, u) == DataTable(u) /\ Definitions(t, u)

\* The data of a table, as far as a caller can see it.
SameData(t, u) == encode_table(u) = encode_table(t) /\ u.next_row_id = t.next_row_id

\* The result of an operation; one that fails has changed no data.
Operates(t, result) ==
    Keeps(t, result.table) /\ (result.ok \/ SameData(t, result.table))

\* A table is a later version of itself.
LEMMA KeepsSame ==
    ASSUME NEW t, DataTable(t) PROVE Keeps(t, t) /\ SameData(t, t)
BY DEF Keeps, Definitions, SameData

\* An operation that refuses at once.
LEMMA FailedOperates ==
    ASSUME NEW t, DataTable(t) PROVE Operates(t, Failed(t))
BY KeepsSame DEF Operates, Failed

\* A successful rebuild of a typed table with its old definitions.
LEMMA RebuiltKeeps ==
    ASSUME NEW t, NEW u, TypedTable(u), CanRebuild(u), Definitions(t, u), NEW options
    PROVE  Keeps(t, rebuild_indexes(u, options))
<1>1. PICK w : w = rebuild_indexes(u, options)
  OBVIOUS
<1>2. TypedTable(w) /\ ExactTable(w) /\ Definitions(u, w)
  BY <1>1, RebuildData
<1> QED
  BY <1>1, <1>2 DEF Keeps, DataTable, Definitions

\* The result of such a rebuild.
LEMMA RebuiltOperates ==
    ASSUME NEW t, NEW u, TypedTable(u), CanRebuild(u), Definitions(t, u), NEW options
    PROVE  Operates(t, Rebuilt(u, options))
BY RebuiltKeeps DEF Operates, Rebuilt

\* A new row under a free id, with a key that the primary map does not have.
LEMMA AddRowData ==
    ASSUME NEW t, DataTable(t), SoundTable(t), NEW row,
           DOMAIN row = ColumnNames(t), \A c \in ColumnNames(t) : Storable(row[c]),
           validate_primary_insert(t, row)
    PROVE  TypedTable(AddRow(t, row)) /\ CanRebuild(AddRow(t, row)) /\ Definitions(t, AddRow(t, row))
<1>1. PICK u : u = AddRow(t, row)
  OBVIOUS
<1>2. DOMAIN t = Fields /\ TypedTable(t) /\ ExactTable(t)
  BY DEF DataTable, TypedTable
<1>3. /\ DOMAIN u = Fields /\ u.columns = t.columns /\ u.primary_key = t.primary_key
      /\ u.indexes = t.indexes /\ u.fulltext_indexes = t.fulltext_indexes
      /\ u.rows = Put(t.rows, t.next_row_id, row)
  BY <1>1, <1>2 DEF AddRow, Fields
<1>4. t.next_row_id \notin DOMAIN t.rows
  BY DEF SoundTable, RowIds
<1>5. /\ DOMAIN u.rows = DOMAIN t.rows \cup {t.next_row_id}
      /\ u.rows[t.next_row_id] = row
      /\ \A r \in DOMAIN t.rows : u.rows[r] = t.rows[r]
  BY <1>3, <1>4 DEF Put
<1>6. ColumnNames(u) = ColumnNames(t)
  BY <1>3 DEF ColumnNames
<1>7. TypedRows(u)
  BY <1>2, <1>5, <1>6 DEF TypedTable, TypedRows
<1>8. TypedTable(u)
  BY <1>2, <1>3, <1>6, <1>7 DEF TypedTable
<1>9. ASSUME t.primary_key # NoColumn
      PROVE  /\ \A r \in DOMAIN u.rows : u.rows[r][t.primary_key[1]] # Null
             /\ \A q, r \in DOMAIN u.rows :
                    RowKey(u, q, t.primary_key[1]) = RowKey(u, r, t.primary_key[1]) => q = r
  <2>1. /\ row[t.primary_key[1]] # Null
        /\ index_key(row[t.primary_key[1]]) \notin DOMAIN t.primary
    BY <1>9 DEF validate_primary_insert
  <2>2. \A r \in DOMAIN t.rows : t.rows[r][t.primary_key[1]] # Null
    BY <1>2, <1>9 DEF ExactTable, CanRebuild
  <2>3. \A q, r \in DOMAIN t.rows :
            RowKey(t, q, t.primary_key[1]) = RowKey(t, r, t.primary_key[1]) => q = r
    BY <1>2, <1>9 DEF ExactTable, CanRebuild
  <2>4. DOMAIN t.primary = {RowKey(t, r, t.primary_key[1]) : r \in DOMAIN t.rows}
    BY <1>2, <1>9 DEF ExactTable, PrimaryMap
  <2>5. \A r \in DOMAIN t.rows : RowKey(u, r, t.primary_key[1]) = RowKey(t, r, t.primary_key[1])
    BY <1>5 DEF RowKey
  <2>6. RowKey(u, t.next_row_id, t.primary_key[1]) = index_key(row[t.primary_key[1]])
    BY <1>5 DEF RowKey
  <2> QED
    BY <1>4, <1>5, <2>1, <2>2, <2>3, <2>4, <2>5, <2>6
<1>10. CanRebuild(u)
  BY <1>3, <1>8, <1>9, TypedCanRebuild
<1>11. Definitions(t, u)
  BY <1>3 DEF Definitions
<1> QED
  BY <1>1, <1>8, <1>10, <1>11

\* INSERT (insert_with_options) leaves a typed and exact table.  Its rebuild
\* cannot fail, so that no half of a failed insert stays.
LEMMA InsertData ==
    ASSUME NEW t, DataTable(t), SoundTable(t), NEW columns, NEW values, NEW options,
           columns = <<>> \/ IsVec(columns[1]),
           IsVec(values), \A i \in DOMAIN values : IsValue(values[i])
    PROVE  Operates(t, Insert(t, columns, values, options))
<1> DEFINE target == Target(t, columns)
           row == Assign(t, [c \in ColumnNames(t) |-> Null], target, values)
<1>1. CASE /\ Len(target) = Len(values)
           /\ Assignable(t, target, values, options)
           /\ validate_primary_insert(t, row)
  <2>1. Insert(t, columns, values, options) = Rebuilt(AddRow(t, row), options)
    BY <1>1 DEF Insert
  <2>2. IsVec(target)
    BY TargetVec DEF DataTable, TypedTable
  <2> HIDE DEF target
  <2>3. Len(values) \in Nat /\ DOMAIN values = 1..Len(values) /\ DOMAIN target = 1..Len(target)
    BY <2>2, VecDomain
  <2>4. \A i \in DOMAIN target : IsValue(values[i])
    BY <1>1, <2>3
  <2>5. DOMAIN row = ColumnNames(t) /\ \A c \in ColumnNames(t) : Storable(row[c])
    <3> DEFINE empty == [c \in ColumnNames(t) |-> Null]
    <3>1. DOMAIN empty = ColumnNames(t) /\ \A c \in ColumnNames(t) : Storable(empty[c])
      BY NullStorable
    <3>2. DOMAIN target = 1..Len(values)
      BY <1>1, <2>3
    <3> HIDE DEF empty
    <3>3. LET new == Assign(t, empty, target, values)
          IN DOMAIN new = ColumnNames(t) /\ \A c \in ColumnNames(t) : Storable(new[c])
      BY <1>1, <2>3, <2>4, <3>1, <3>2, AssignTyped
    <3> QED
      BY <3>3 DEF empty
  <2> HIDE DEF row
  <2>6. TypedTable(AddRow(t, row)) /\ CanRebuild(AddRow(t, row)) /\ Definitions(t, AddRow(t, row))
    BY <1>1, <2>5, AddRowData
  <2> QED
    BY <2>1, <2>6, RebuiltOperates
<1>2. CASE ~(/\ Len(target) = Len(values)
             /\ Assignable(t, target, values, options)
             /\ validate_primary_insert(t, row))
  <2>1. Insert(t, columns, values, options) = Failed(t)
    BY <1>2 DEF Insert
  <2> QED
    BY <2>1, FailedOperates
<1> QED
  BY <1>1, <1>2

\* UPDATE (update_with_options) leaves a typed and exact table, also when the
\* new rows clash and it is undone.
LEMMA UpdateData ==
    ASSUME NEW t, DataTable(t), NEW target, NEW values, NEW f, NEW options,
           IsVec(values), DOMAIN target = DOMAIN values,
           \A i \in DOMAIN values : IsValue(values[i])
    PROVE  Operates(t, Update(t, target, values, f, options))
<1> DEFINE ids == matching_row_ids(t, f, options)
           rows == [r \in DOMAIN t.rows |->
                       IF r \in ids THEN Assign(t, t.rows[r], target, values) ELSE t.rows[r]]
           new == [t EXCEPT !.rows = rows]
<1>0. TypedTable(t) /\ ExactTable(t) /\ DOMAIN t = Fields /\ Definitions(t, t)
  BY DEF DataTable, TypedTable, Definitions
<1>1. CASE ~(FilterOk(t, f, options) /\ Assignable(t, target, values, options))
  <2>1. Update(t, target, values, f, options) = Failed(t)
    BY <1>1 DEF Update
  <2> QED
    BY <2>1, FailedOperates
<1>2. CASE FilterOk(t, f, options) /\ Assignable(t, target, values, options)
  <2>1. CASE CanRebuild(new)
    <3>1. Update(t, target, values, f, options) = Rebuilt(new, options)
      BY <1>2, <2>1 DEF Update
    <3>2. Len(values) \in Nat /\ DOMAIN target = 1..Len(values)
      BY VecDomain
    <3>3. \A r \in DOMAIN t.rows :
              DOMAIN rows[r] = ColumnNames(t) /\ \A c \in ColumnNames(t) : Storable(rows[r][c])
      <4> HIDE DEF ids
      <4> TAKE r \in DOMAIN t.rows
      <4>1. DOMAIN t.rows[r] = ColumnNames(t) /\ \A c \in ColumnNames(t) : Storable(t.rows[r][c])
        BY <1>0 DEF TypedTable, TypedRows
      <4>2. LET a == Assign(t, t.rows[r], target, values)
            IN DOMAIN a = ColumnNames(t) /\ \A c \in ColumnNames(t) : Storable(a[c])
        BY <1>2, <3>2, <4>1, AssignTyped
      <4> QED
        BY <4>1, <4>2
    <3>4. DOMAIN rows = DOMAIN t.rows
      OBVIOUS
    <3> HIDE DEF rows
    <3>5. /\ DOMAIN new = Fields /\ new.rows = rows /\ new.columns = t.columns
          /\ new.primary_key = t.primary_key /\ new.indexes = t.indexes
          /\ new.fulltext_indexes = t.fulltext_indexes
      BY <1>0 DEF Fields
    <3> HIDE DEF new
    <3>6. ColumnNames(new) = ColumnNames(t)
      BY <3>5 DEF ColumnNames
    <3>7. TypedTable(new) /\ Definitions(t, new)
      BY <1>0, <3>3, <3>4, <3>5, <3>6 DEF TypedTable, TypedRows, Definitions
    <3> QED
      BY <2>1, <3>1, <3>7, RebuiltOperates
  <2>2. CASE ~CanRebuild(new)
    <3>1. Update(t, target, values, f, options).table = rebuild_indexes(t, options)
      BY <1>2, <2>2 DEF Update, Failed
    <3>2. CanRebuild(t)
      BY <1>0 DEF ExactTable
    <3>3. Keeps(t, rebuild_indexes(t, options))
      BY <1>0, <3>2, RebuiltKeeps
    <3>4. SameData(t, rebuild_indexes(t, options))
      <4>1. rebuild_indexes(t, options).next_row_id = t.next_row_id
        BY <1>0 DEF rebuild_indexes, Fields
      <4> QED
        BY <1>0, <4>1, RebuildData DEF SameData
    <3> QED
      BY <3>1, <3>3, <3>4 DEF Operates
  <2> QED
    BY <2>1, <2>2
<1> QED
  BY <1>1, <1>2

\* DELETE (delete_with_options) leaves a typed and exact table.
LEMMA DeleteData ==
    ASSUME NEW t, DataTable(t), NEW f, NEW options
    PROVE  Operates(t, Delete(t, f, options))
<1> DEFINE kept == DOMAIN t.rows \ matching_row_ids(t, f, options)
           rows == [r \in kept |-> t.rows[r]]
           new == [t EXCEPT !.rows = rows]
<1>0. TypedTable(t) /\ ExactTable(t) /\ DOMAIN t = Fields
  BY DEF DataTable, TypedTable
<1>1. CASE ~FilterOk(t, f, options)
  <2>1. Delete(t, f, options) = Failed(t)
    BY <1>1 DEF Delete
  <2> QED
    BY <2>1, FailedOperates
<1>2. CASE FilterOk(t, f, options)
  <2>1. Delete(t, f, options) = Rebuilt(new, options)
    BY <1>2 DEF Delete
  <2>2. kept \subseteq DOMAIN t.rows /\ DOMAIN rows = kept /\ \A r \in kept : rows[r] = t.rows[r]
    OBVIOUS
  <2> HIDE DEF kept, rows
  <2>3. /\ DOMAIN new = Fields /\ new.rows = rows /\ new.columns = t.columns
        /\ new.primary_key = t.primary_key /\ new.indexes = t.indexes
        /\ new.fulltext_indexes = t.fulltext_indexes
    BY <1>0 DEF Fields
  <2> HIDE DEF new
  <2>4. ColumnNames(new) = ColumnNames(t)
    BY <2>3 DEF ColumnNames
  <2>5. TypedTable(new) /\ Definitions(t, new)
    BY <1>0, <2>2, <2>3, <2>4 DEF TypedTable, TypedRows, Definitions
  <2>6. CanRebuild(new)
    BY <1>0, <2>2, <2>3 DEF ExactTable, CanRebuild, RowKey
  <2> QED
    BY <2>1, <2>5, <2>6, RebuiltOperates
<1> QED
  BY <1>1, <1>2

\* CREATE INDEX on a typed and exact table leaves one, and cannot fail in its
\* rebuild.
LEMMA CreateIndexData ==
    ASSUME NEW t, DataTable(t), NEW name, NEW c, NEW options
    PROVE  /\ Operates(t, create_index(t, name, c))
           /\ Operates(t, create_fulltext_index(t, name, c, options))
<1>0. TypedTable(t) /\ ExactTable(t) /\ DOMAIN t = Fields
  BY DEF DataTable, TypedTable
<1>1. Operates(t, Failed(t))
  BY FailedOperates
<1> DEFINE def == [column |-> c, map |-> EmptyMap]
<1>2. def.column = c
  OBVIOUS
<1> HIDE DEF def
<1>3. ASSUME c \in ColumnNames(t), NEW o
      PROVE  Operates(t, Rebuilt([t EXCEPT !.indexes = Put(t.indexes, name, def)], o))
  <2> DEFINE new == [t EXCEPT !.indexes = Put(t.indexes, name, def)]
  <2>1. /\ DOMAIN new = Fields /\ new.rows = t.rows /\ new.columns = t.columns
        /\ new.primary_key = t.primary_key /\ new.indexes = Put(t.indexes, name, def)
        /\ new.fulltext_indexes = t.fulltext_indexes
    BY <1>0 DEF Fields
  <2> HIDE DEF new
  <2>2. /\ DOMAIN new.indexes = DOMAIN t.indexes \cup {name}
        /\ \A i \in DOMAIN new.indexes : new.indexes[i] = def \/ (i \in DOMAIN t.indexes /\ new.indexes[i] = t.indexes[i])
    BY <2>1 DEF Put
  <2>3. ColumnNames(new) = ColumnNames(t)
    BY <2>1 DEF ColumnNames
  <2>4. TypedTable(new)
    BY <1>0, <1>2, <1>3, <2>1, <2>2, <2>3 DEF TypedTable, TypedRows
  <2>5. CanRebuild(new)
    <3>1. t.primary_key # NoColumn =>
              /\ \A r \in DOMAIN t.rows : t.rows[r][t.primary_key[1]] # Null
              /\ \A q, r \in DOMAIN t.rows :
                     RowKey(new, q, t.primary_key[1]) = RowKey(new, r, t.primary_key[1]) => q = r
      BY <1>0, <2>1 DEF ExactTable, CanRebuild, RowKey
    <3> QED
      BY <2>1, <2>4, <3>1, TypedCanRebuild
  <2>6. Definitions(t, new)
    BY <2>1, <2>2 DEF Definitions
  <2>7. Operates(t, Rebuilt(new, o))
    BY <2>4, <2>5, <2>6, RebuiltOperates
  <2> QED
    BY <2>7 DEF new
<1>4. ASSUME c \in ColumnNames(t), NEW o
      PROVE  Operates(t, Rebuilt(
                      [t EXCEPT !.fulltext_indexes = Put(t.fulltext_indexes, name, def)], o))
  <2> DEFINE new == [t EXCEPT !.fulltext_indexes = Put(t.fulltext_indexes, name, def)]
  <2>1. /\ DOMAIN new = Fields /\ new.rows = t.rows /\ new.columns = t.columns
        /\ new.primary_key = t.primary_key /\ new.indexes = t.indexes
        /\ new.fulltext_indexes = Put(t.fulltext_indexes, name, def)
    BY <1>0 DEF Fields
  <2> HIDE DEF new
  <2>2. /\ DOMAIN new.fulltext_indexes = DOMAIN t.fulltext_indexes \cup {name}
        /\ \A i \in DOMAIN new.fulltext_indexes :
               new.fulltext_indexes[i] = def
               \/ (i \in DOMAIN t.fulltext_indexes /\ new.fulltext_indexes[i] = t.fulltext_indexes[i])
    BY <2>1 DEF Put
  <2>3. ColumnNames(new) = ColumnNames(t)
    BY <2>1 DEF ColumnNames
  <2>4. TypedTable(new)
    BY <1>0, <1>2, <1>4, <2>1, <2>2, <2>3 DEF TypedTable, TypedRows
  <2>5. CanRebuild(new)
    BY <1>0, <2>1 DEF ExactTable, CanRebuild, RowKey
  <2>6. Definitions(t, new)
    BY <2>1, <2>2 DEF Definitions
  <2>7. Operates(t, Rebuilt(new, o))
    BY <2>4, <2>5, <2>6, RebuiltOperates
  <2> QED
    BY <2>7 DEF new
<1> QED
  BY <1>1, <1>3, <1>4 DEF create_index, create_fulltext_index, def

\* Every table method a statement calls keeps the table typed and exact.
LEMMA OnTableData ==
    ASSUME NEW t, DataTable(t), SoundTable(t), NEW s, IsStatement(s), NEW options,
           s.op \in {"CreateIndex", "Insert", "Update", "Delete", "Select"}
    PROVE  Operates(t, OnTable(t, s, options))
<1>1. CASE s.op = "CreateIndex"
  BY <1>1, CreateIndexData DEF OnTable
<1>2. CASE s.op = "Insert"
  <2>1. /\ s.columns = <<>> \/ IsVec(s.columns[1])
        /\ IsVec(s.values) /\ \A i \in DOMAIN s.values : IsValue(s.values[i])
    BY <1>2 DEF IsStatement
  <2>2. Operates(t, Insert(t, s.columns, s.values, options))
    BY <2>1, InsertData
  <2> QED
    BY <1>2, <2>2 DEF OnTable
<1>3. CASE s.op = "Update"
  <2>1. /\ IsVec(s.values) /\ DOMAIN s.target = DOMAIN s.values
        /\ \A i \in DOMAIN s.values : IsValue(s.values[i])
    BY <1>3 DEF IsStatement
  <2>2. Operates(t, Update(t, s.target, s.values, s.filter, options))
    BY <2>1, UpdateData
  <2> QED
    BY <1>3, <2>2 DEF OnTable
<1>4. CASE s.op = "Delete"
  BY <1>4, DeleteData DEF OnTable
<1>5. CASE s.op = "Select"
  <2>1. OnTable(t, s, options).table = t
    BY <1>5 DEF OnTable
  <2> QED
    BY <2>1, KeepsSame DEF Operates
<1> QED
  BY <1>1, <1>2, <1>3, <1>4, <1>5

-----------------------------------------------------------------------------
(* Catalogs *)

\* The table that CREATE TABLE makes is typed and exact.
LEMMA NewTableData ==
    ASSUME NEW columns, IsVec(columns) PROVE DataTable(NewTable(columns))
<1>1. PICK t : t = NewTable(columns)
  OBVIOUS
<1>2. /\ DOMAIN t = Fields /\ t.columns = columns /\ t.rows = EmptyMap
      /\ t.primary_key = primary_key_column(columns) /\ t.primary = EmptyMap
      /\ t.indexes = EmptyMap /\ t.fulltext_indexes = EmptyMap
  BY <1>1 DEF NewTable, Fields
<1>3. DOMAIN EmptyMap = {}
  BY DEF EmptyMap
<1>4. TypedTable(t)
  BY <1>2, <1>3 DEF TypedTable, TypedRows
<1>5. CanRebuild(t)
  BY <1>2, <1>3 DEF CanRebuild
<1>6. PrimaryMap(t) = EmptyMap
  <2>1. \A S : S = {} => [k \in S |-> CHOOSE r \in DOMAIN t.rows : RowKey(t, r, t.primary_key[1]) = k]
                         = [k \in {} |-> k]
    OBVIOUS
  <2>2. {RowKey(t, r, t.primary_key[1]) : r \in DOMAIN t.rows} = {}
    BY <1>2, <1>3
  <2> QED
    BY <2>1, <2>2 DEF PrimaryMap, EmptyMap
<1>7. ExactTable(t)
  BY <1>2, <1>3, <1>5, <1>6 DEF ExactTable
<1> QED
  BY <1>1, <1>4, <1>7 DEF DataTable

\* A statement, whether it succeeds or fails, leaves typed and exact tables and
\* takes no table, column or index away; one that fails changes no data.
LEMMA ExecuteData ==
    ASSUME NEW cat, Sound(cat), DataCatalog(cat), NEW s, IsStatement(s), NEW options
    PROVE  LET new == execute_statement(cat, s, options).catalog
           IN /\ DataCatalog(new)
              /\ \A n \in DOMAIN cat : n \in DOMAIN new /\ Definitions(cat[n], new[n])
              /\ ~execute_statement(cat, s, options).ok =>
                     DOMAIN new = DOMAIN cat /\ \A n \in DOMAIN cat : SameData(cat[n], new[n])
<1> DEFINE new == execute_statement(cat, s, options).catalog
<1>0. \A n \in DOMAIN cat : Definitions(cat[n], cat[n]) /\ SameData(cat[n], cat[n])
  BY DEF Definitions, SameData
<1>1. CASE new = cat
  BY <1>0, <1>1
<1>2. CASE s.op = "CreateTable" /\ new # cat
  <2>1. /\ s.table \notin DOMAIN cat /\ new = Put(cat, s.table, NewTable(s.columns))
        /\ execute_statement(cat, s, options).ok
    BY <1>2 DEF execute_statement
  <2>2. DataTable(NewTable(s.columns))
    BY <1>2, NewTableData DEF IsStatement
  <2> HIDE DEF new
  <2>3. DataCatalog(new)
    BY <2>1, <2>2 DEF DataCatalog, Put
  <2> QED
    BY <1>0, <2>1, <2>3 DEF Put, new
<1>3. CASE s.op # "CreateTable" /\ new # cat
  <2>1. s.op \in {"CreateIndex", "Insert", "Update", "Delete", "Select"}
    BY <1>3 DEF execute_statement
  <2>2. /\ s.table \in DOMAIN cat
        /\ new = Put(cat, s.table, OnTable(cat[s.table], s, options).table)
        /\ execute_statement(cat, s, options).ok = OnTable(cat[s.table], s, options).ok
    BY <1>3, <2>1 DEF execute_statement
  <2> HIDE DEF new
  <2>3. Operates(cat[s.table], OnTable(cat[s.table], s, options))
    BY <2>1, <2>2, OnTableData DEF Sound, DataCatalog
  <2>4. \A n \in DOMAIN cat : n \in DOMAIN new /\ Definitions(cat[n], new[n])
    BY <1>0, <2>2, <2>3 DEF Put, Operates, Keeps
  <2>5. DataCatalog(new)
    BY <2>2, <2>3 DEF Put, Operates, Keeps, DataCatalog
  <2>6. ~execute_statement(cat, s, options).ok =>
            DOMAIN new = DOMAIN cat /\ \A n \in DOMAIN cat : SameData(cat[n], new[n])
    BY <1>0, <2>2, <2>3 DEF Put, Operates
  <2> QED
    BY <2>4, <2>5, <2>6 DEF new
<1> QED
  BY <1>1, <1>2, <1>3

-----------------------------------------------------------------------------
(* Answers *)

\* A value equals itself (Value's derived equality).
LEMMA SameValueSame == \A v : SameValue(v, v)
BY DEF SameValue

\* Values with the same key are the same: index_key loses no bit.
LEMMA KeyInjective ==
    ASSUME NEW v, NEW w, IsValue(v), IsValue(w), index_key(v) = index_key(w)
    PROVE  v = w
BY ValueRoundTrip DEF encode_value

\* An equality lookup through the primary map, an index or a scan finds only
\* rows with an equal value and every row with that very value (match_equals).
LEMMA EqualsAnswer ==
    ASSUME NEW t, DataTable(t), NEW c \in ColumnNames(t), NEW v, Storable(v)
    PROVE  /\ match_equals(t, c, v) \subseteq {r \in DOMAIN t.rows : SameValue(t.rows[r][c], v)}
           /\ {r \in DOMAIN t.rows : t.rows[r][c] = v} \subseteq match_equals(t, c, v)
<1> DEFINE on == {n \in DOMAIN t.indexes : t.indexes[n].column = c}
<1>1. ASSUME NEW r \in DOMAIN t.rows
      PROVE  (RowKey(t, r, c) = index_key(v)) <=> t.rows[r][c] = v
  <2>1. IsValue(t.rows[r][c]) /\ IsValue(v)
    BY DEF DataTable, TypedTable, TypedRows, Storable
  <2> QED
    BY <2>1, KeyInjective DEF RowKey
<1>2. CASE t.primary_key = <<c>>
  <2>1. match_equals(t, c, v) = {t.primary[k] : k \in {index_key(v)} \cap DOMAIN t.primary}
    BY <1>2 DEF match_equals
  <2>2. t.primary_key # NoColumn /\ t.primary_key[1] = c
    BY <1>2 DEF NoColumn
  <2>3. /\ DOMAIN t.primary = {RowKey(t, r, c) : r \in DOMAIN t.rows}
        /\ \A k \in DOMAIN t.primary :
              t.primary[k] = CHOOSE r \in DOMAIN t.rows : RowKey(t, r, c) = k
    BY <2>2 DEF DataTable, ExactTable, PrimaryMap
  <2>4. \A q, r \in DOMAIN t.rows : RowKey(t, q, c) = RowKey(t, r, c) => q = r
    BY <2>2 DEF DataTable, ExactTable, CanRebuild
  <2>5. \A k \in DOMAIN t.primary :
            t.primary[k] \in DOMAIN t.rows /\ RowKey(t, t.primary[k], c) = k
    BY <2>3
  <2>6. \A r \in DOMAIN t.rows : t.rows[r][c] = v =>
            index_key(v) \in DOMAIN t.primary /\ t.primary[index_key(v)] = r
    BY <1>1, <2>3, <2>4, <2>5
  <2>7. \A r \in match_equals(t, c, v) : r \in DOMAIN t.rows /\ t.rows[r][c] = v
    BY <1>1, <2>1, <2>5
  <2>8. \A r \in DOMAIN t.rows : t.rows[r][c] = v => r \in match_equals(t, c, v)
    BY <2>1, <2>6
  <2> QED
    BY <2>7, <2>8, SameValueSame
<1>3. CASE t.primary_key # <<c>> /\ on # {}
  <2>1. PICK i \in DOMAIN t.indexes :
            /\ t.indexes[i].column = c
            /\ match_equals(t, c, v) = Lookup(t.indexes[i].map, index_key(v))
    <3>1. (CHOOSE n \in on : TRUE) \in on
      BY <1>3
    <3> QED
      BY <1>3, <3>1 DEF match_equals
  <2>2. t.indexes[i].map = IndexMap(t, c)
    BY <2>1 DEF DataTable, ExactTable
  <2>3. Lookup(IndexMap(t, c), index_key(v)) = {r \in DOMAIN t.rows : RowKey(t, r, c) = index_key(v)}
    BY DEF Lookup, IndexMap
  <2> QED
    BY <1>1, <2>1, <2>2, <2>3, SameValueSame
<1>4. CASE t.primary_key # <<c>> /\ on = {}
  <2>1. match_equals(t, c, v) = {r \in DOMAIN t.rows : SameValue(t.rows[r][c], v)}
    BY <1>4 DEF match_equals
  <2> QED
    BY <2>1, SameValueSame
<1> QED
  BY <1>2, <1>3, <1>4

\* The maps of a rebuild hold the tokens of the tokenizer it was given.
LEMMA RebuildTexts ==
    ASSUME NEW t, DOMAIN t = Fields, NEW options
    PROVE  /\ ExactTexts(rebuild_indexes(t, options), options.fulltext_tokenizer)
           /\ DOMAIN rebuild_indexes(t, options).fulltext_indexes = DOMAIN t.fulltext_indexes
<1>1. PICK u : u = rebuild_indexes(t, options)
  OBVIOUS
<1>2. /\ u.rows = t.rows /\ u.primary_key = t.primary_key
      /\ u.fulltext_indexes = [n \in DOMAIN t.fulltext_indexes |->
            [column |-> t.fulltext_indexes[n].column,
             map |-> FullTextMap(t, t.fulltext_indexes[n].column, options.fulltext_tokenizer)]]
  BY <1>1 DEF rebuild_indexes, Fields
<1>3. /\ DOMAIN u.fulltext_indexes = DOMAIN t.fulltext_indexes
      /\ \A n \in DOMAIN t.fulltext_indexes :
            /\ u.fulltext_indexes[n].column = t.fulltext_indexes[n].column
            /\ u.fulltext_indexes[n].map =
                  FullTextMap(t, t.fulltext_indexes[n].column, options.fulltext_tokenizer)
  BY <1>2
<1>4. \A c : FullTextMap(u, c, options.fulltext_tokenizer) = FullTextMap(t, c, options.fulltext_tokenizer)
  BY <1>2, SameMaps
<1>5. ExactTexts(u, options.fulltext_tokenizer)
  BY <1>3, <1>4 DEF ExactTexts
<1> QED
  BY <1>1, <1>3, <1>5

\* What a statement leaves on a table with exact full-text maps has them too,
\* but for create_index, which rebuilds them with the default tokenizer.
LEMMA OnTableTexts ==
    ASSUME NEW t, DOMAIN t = Fields, NEW s, NEW options,
           s.op \in {"CreateIndex", "Insert", "Update", "Delete", "Select"},
           ExactTexts(t, options.fulltext_tokenizer),
           \/ options.fulltext_tokenizer = DefaultOptions.fulltext_tokenizer
           \/ s.op = "CreateIndex" => s.fulltext \/ DOMAIN t.fulltext_indexes = {}
    PROVE  LET u == OnTable(t, s, options).table
           IN /\ ExactTexts(u, options.fulltext_tokenizer)
              /\ \/ DOMAIN u.fulltext_indexes = DOMAIN t.fulltext_indexes
                 \/ s.op = "CreateIndex" /\ s.fulltext
<1>1. PICK u : u = OnTable(t, s, options).table
  OBVIOUS
<1> DEFINE Fine(w) == /\ ExactTexts(w, options.fulltext_tokenizer)
                      /\ \/ DOMAIN w.fulltext_indexes = DOMAIN t.fulltext_indexes
                         \/ s.op = "CreateIndex" /\ s.fulltext
<1>2. Fine(t)
  OBVIOUS
<1>3. ASSUME NEW w, DOMAIN w = Fields,
             w.fulltext_indexes = t.fulltext_indexes \/ (s.op = "CreateIndex" /\ s.fulltext)
      PROVE  Fine(rebuild_indexes(w, options))
  BY <1>3, RebuildTexts
<1>4. ASSUME NEW w, DOMAIN w = Fields, w.fulltext_indexes = t.fulltext_indexes,
             s.op = "CreateIndex", ~s.fulltext
      PROVE  Fine(rebuild_indexes(w, DefaultOptions))
  <2>1. /\ ExactTexts(rebuild_indexes(w, DefaultOptions), DefaultOptions.fulltext_tokenizer)
        /\ DOMAIN rebuild_indexes(w, DefaultOptions).fulltext_indexes = DOMAIN t.fulltext_indexes
    BY <1>4, RebuildTexts
  <2>2. CASE options.fulltext_tokenizer = DefaultOptions.fulltext_tokenizer
    BY <2>1, <2>2
  <2>3. CASE DOMAIN t.fulltext_indexes = {}
    BY <2>1, <2>3 DEF ExactTexts
  <2> QED
    BY <1>4, <2>2, <2>3
<1> HIDE DEF Fine
<1>5. CASE s.op = "CreateIndex" /\ s.fulltext
  <2> DEFINE w == [t EXCEPT !.fulltext_indexes =
                     Put(t.fulltext_indexes, s.name, [column |-> s.column, map |-> EmptyMap])]
  <2>1. u = t \/ u = rebuild_indexes(w, options)
    BY <1>1, <1>5 DEF OnTable, create_fulltext_index, Failed, Rebuilt
  <2>2. DOMAIN w = Fields
    BY DEF Fields
  <2> HIDE DEF w
  <2>3. Fine(u)
    BY <1>2, <1>3, <1>5, <2>1, <2>2
  <2> QED
    BY <1>1, <2>3 DEF Fine
<1>6. CASE s.op = "CreateIndex" /\ ~s.fulltext
  <2> DEFINE w == [t EXCEPT !.indexes =
                     Put(t.indexes, s.name, [column |-> s.column, map |-> EmptyMap])]
  <2>1. u = t \/ u = rebuild_indexes(w, DefaultOptions)
    BY <1>1, <1>6 DEF OnTable, create_index, Failed, Rebuilt
  <2>2. DOMAIN w = Fields /\ w.fulltext_indexes = t.fulltext_indexes
    BY DEF Fields
  <2> HIDE DEF w
  <2>3. Fine(u)
    BY <1>2, <1>4, <1>6, <2>1, <2>2
  <2> QED
    BY <1>1, <2>3 DEF Fine
<1>7. CASE s.op = "Insert"
  <2>1. u = t \/ \E row : u = rebuild_indexes(AddRow(t, row), options)
    BY <1>1, <1>7 DEF OnTable, Insert, Failed, Rebuilt
  <2>2. \A row : DOMAIN AddRow(t, row) = Fields
                 /\ AddRow(t, row).fulltext_indexes = t.fulltext_indexes
    BY DEF AddRow, Fields
  <2>3. Fine(u)
    BY <1>2, <1>3, <2>1, <2>2
  <2> QED
    BY <1>1, <2>3 DEF Fine
<1>8. CASE s.op \in {"Update", "Delete"}
  <2>1. \/ u = t \/ u = rebuild_indexes(t, options)
        \/ \E rows : u = rebuild_indexes([t EXCEPT !.rows = rows], options)
    BY <1>1, <1>8 DEF OnTable, Update, Delete, Failed, Rebuilt
  <2>2. \A rows : DOMAIN [t EXCEPT !.rows = rows] = Fields
                  /\ [t EXCEPT !.rows = rows].fulltext_indexes = t.fulltext_indexes
    BY DEF Fields
  <2>3. ASSUME NEW rows PROVE Fine(rebuild_indexes([t EXCEPT !.rows = rows], options))
    BY <1>3, <2>2
  <2>4. Fine(rebuild_indexes(t, options))
    BY <1>3
  <2>5. Fine(u)
    BY <1>2, <2>1, <2>3, <2>4
  <2> QED
    BY <1>1, <2>5 DEF Fine
<1>9. CASE s.op = "Select"
  BY <1>1, <1>9 DEF OnTable
<1> QED
  BY <1>5, <1>6, <1>7, <1>8, <1>9

-----------------------------------------------------------------------------
(* What changes nothing *)

\* Tables are records, definitions records of a column and a map.
ShapedMaps(indexes) ==
    indexes = [n \in DOMAIN indexes |-> [column |-> indexes[n].column, map |-> indexes[n].map]]
ShapedTable(t) ==
    t = [f \in Fields |-> t[f]] /\ ShapedMaps(t.indexes) /\ ShapedMaps(t.fulltext_indexes)
ShapedCatalog(cat) ==
    cat = [n \in DOMAIN cat |-> cat[n]] /\ \A n \in DOMAIN cat : ShapedTable(cat[n])

\* A rebuild writes every definition.
LEMMA RebuildShaped ==
    ASSUME NEW t, DOMAIN t = Fields, NEW options
    PROVE  ShapedTable(rebuild_indexes(t, options))
<1>1. PICK u : u = rebuild_indexes(t, options)
  OBVIOUS
<1>2. u = [f \in Fields |-> u[f]]
  BY <1>1 DEF rebuild_indexes
<1>3. /\ u.indexes = [n \in DOMAIN t.indexes |->
            [column |-> t.indexes[n].column, map |-> IndexMap(t, t.indexes[n].column)]]
      /\ u.fulltext_indexes = [n \in DOMAIN t.fulltext_indexes |->
            [column |-> t.fulltext_indexes[n].column,
             map |-> FullTextMap(t, t.fulltext_indexes[n].column, options.fulltext_tokenizer)]]
  BY <1>1 DEF rebuild_indexes, Fields
<1>4. ShapedMaps(u.indexes)
  BY <1>3 DEF ShapedMaps
<1>5. ShapedMaps(u.fulltext_indexes)
  BY <1>3 DEF ShapedMaps
<1> QED
  BY <1>1, <1>2, <1>4, <1>5 DEF ShapedTable

\* A rebuild of a table whose maps are exact changes nothing at all.
LEMMA RebuildSame ==
    ASSUME NEW t, ShapedTable(t), ExactTable(t), NEW options,
           ExactTexts(t, options.fulltext_tokenizer)
    PROVE  rebuild_indexes(t, options) = t
<1>1. PICK u : u = rebuild_indexes(t, options)
  OBVIOUS
<1>2. DOMAIN t = Fields /\ t = [f \in Fields |-> t[f]]
  BY DEF ShapedTable
<1>3. /\ u = [f \in Fields |-> u[f]]
      /\ u.columns = t.columns /\ u.rows = t.rows /\ u.next_row_id = t.next_row_id
      /\ u.primary_key = t.primary_key /\ u.primary = PrimaryMap(t)
      /\ u.indexes = [n \in DOMAIN t.indexes |->
            [column |-> t.indexes[n].column, map |-> IndexMap(t, t.indexes[n].column)]]
      /\ u.fulltext_indexes = [n \in DOMAIN t.fulltext_indexes |->
            [column |-> t.fulltext_indexes[n].column,
             map |-> FullTextMap(t, t.fulltext_indexes[n].column, options.fulltext_tokenizer)]]
  BY <1>1, <1>2 DEF rebuild_indexes, Fields
<1>4. u.indexes = t.indexes
  <2>1. t.indexes = [n \in DOMAIN t.indexes |->
                        [column |-> t.indexes[n].column, map |-> t.indexes[n].map]]
    BY DEF ShapedTable, ShapedMaps
  <2>2. \A n \in DOMAIN t.indexes : t.indexes[n].map = IndexMap(t, t.indexes[n].column)
    BY DEF ExactTable
  <2>3. [n \in DOMAIN t.indexes |-> [column |-> t.indexes[n].column, map |-> t.indexes[n].map]]
        = [n \in DOMAIN t.indexes |->
              [column |-> t.indexes[n].column, map |-> IndexMap(t, t.indexes[n].column)]]
    BY <2>2
  <2> QED
    BY <1>3, <2>1, <2>3
<1>5. u.fulltext_indexes = t.fulltext_indexes
  BY <1>3, ZenonT(40) DEF ShapedTable, ShapedMaps, ExactTexts
<1>6. \A f \in Fields : u[f] = t[f]
  BY <1>3, <1>4, <1>5 DEF Fields, ExactTable
<1> QED
  BY <1>1, <1>2, <1>3, <1>6

\* What a statement leaves on a table is the table or a rebuilt one.
LEMMA OnTableRebuilds ==
    ASSUME NEW t, DOMAIN t = Fields, NEW s, NEW options,
           s.op \in {"CreateIndex", "Insert", "Update", "Delete", "Select"}
    PROVE  LET u == OnTable(t, s, options).table
           IN u = t \/ \E w, o : DOMAIN w = Fields /\ u = rebuild_indexes(w, o)
<1>1. PICK u : u = OnTable(t, s, options).table
  OBVIOUS
<1>2. CASE s.op = "CreateIndex"
  <2>1. \/ u = t
        \/ \E x : u = rebuild_indexes([t EXCEPT !.fulltext_indexes = x], options)
        \/ \E x : u = rebuild_indexes([t EXCEPT !.indexes = x], DefaultOptions)
    BY <1>1, <1>2 DEF OnTable, create_fulltext_index, create_index, Failed, Rebuilt
  <2>2. \A x : DOMAIN [t EXCEPT !.fulltext_indexes = x] = Fields
               /\ DOMAIN [t EXCEPT !.indexes = x] = Fields
    OBVIOUS
  <2> QED
    BY <1>1, <2>1, <2>2
<1>3. CASE s.op = "Insert"
  <2>1. u = t \/ \E row : u = rebuild_indexes(AddRow(t, row), options)
    BY <1>1, <1>3 DEF OnTable, Insert, Failed, Rebuilt
  <2>2. \A row : DOMAIN AddRow(t, row) = Fields
    BY DEF AddRow
  <2> QED
    BY <1>1, <2>1, <2>2
<1>4. CASE s.op \in {"Update", "Delete"}
  <2>1. \/ u = t \/ u = rebuild_indexes(t, options)
        \/ \E rows : u = rebuild_indexes([t EXCEPT !.rows = rows], options)
    BY <1>1, <1>4 DEF OnTable, Update, Delete, Failed, Rebuilt
  <2>2. \A rows : DOMAIN [t EXCEPT !.rows = rows] = Fields
    OBVIOUS
  <2> QED
    BY <1>1, <2>1, <2>2
<1>5. CASE s.op = "Select"
  BY <1>1, <1>5 DEF OnTable
<1> QED
  BY <1>2, <1>3, <1>4, <1>5

\* So a statement keeps the shape of a catalog.
LEMMA ExecuteShaped ==
    ASSUME NEW cat, ShapedCatalog(cat), NEW s, NEW options
    PROVE  ShapedCatalog(execute_statement(cat, s, options).catalog)
<1>1. PICK new : new = execute_statement(cat, s, options).catalog
  OBVIOUS
<1>2. CASE new = cat
  BY <1>1, <1>2
<1>3. ASSUME NEW n, NEW t, ShapedTable(t), new = Put(cat, n, t)
      PROVE  ShapedCatalog(new)
  BY <1>3 DEF Put, ShapedCatalog
<1>4. CASE s.op = "CreateTable" /\ new # cat
  <2>1. new = Put(cat, s.table, NewTable(s.columns))
    BY <1>1, <1>4 DEF execute_statement
  <2>2. PICK t : t = NewTable(s.columns)
    OBVIOUS
  <2>3. t = [f \in Fields |-> t[f]] /\ t.indexes = EmptyMap /\ t.fulltext_indexes = EmptyMap
    BY <2>2 DEF NewTable, Fields
  <2>4. ShapedMaps(EmptyMap)
    BY DEF ShapedMaps, EmptyMap
  <2>5. ShapedTable(t)
    BY <2>3, <2>4 DEF ShapedTable
  <2> QED
    BY <1>1, <1>3, <2>1, <2>2, <2>5
<1>5. CASE s.op # "CreateTable" /\ new # cat
  <2>1. s.op \in {"CreateIndex", "Insert", "Update", "Delete", "Select"}
    BY <1>1, <1>5 DEF execute_statement
  <2>2. s.table \in DOMAIN cat /\ new = Put(cat, s.table, OnTable(cat[s.table], s, options).table)
    BY <1>1, <1>5, <2>1 DEF execute_statement
  <2>3. PICK t, u : t = cat[s.table] /\ u = OnTable(t, s, options).table
    OBVIOUS
  <2>4. ShapedTable(t) /\ DOMAIN t = Fields
    BY <2>2, <2>3 DEF ShapedCatalog, ShapedTable
  <2>5. u = t \/ \E w, o : DOMAIN w = Fields /\ u = rebuild_indexes(w, o)
    BY <2>1, <2>3, <2>4, OnTableRebuilds
  <2>6. ShapedTable(u)
    BY <2>4, <2>5, RebuildShaped
  <2> QED
    BY <1>1, <1>3, <2>2, <2>3, <2>6
<1> QED
  BY <1>2, <1>4, <1>5

\* An operation that fails leaves the very table it found: what UPDATE rebuilds
\* after taking its assignments back is what was there.
LEMMA OnTableFails ==
    ASSUME NEW t, DataTable(t), SoundTable(t), ShapedTable(t), NEW options,
           ExactTexts(t, options.fulltext_tokenizer), NEW s, IsStatement(s),
           s.op \in {"CreateIndex", "Insert", "Update", "Delete", "Select"},
           ~OnTable(t, s, options).ok
    PROVE  OnTable(t, s, options).table = t
<1>1. PICK done, u : done = OnTable(t, s, options) /\ u = done.table
  OBVIOUS
<1>2. Operates(t, done)
  BY <1>1, OnTableData
<1>3. SameData(t, u)
  BY <1>1, <1>2 DEF Operates
<1>4. DOMAIN t = Fields
  BY DEF ShapedTable
<1>5. CASE s.op = "CreateIndex" /\ s.fulltext /\ u # t
  <2> DEFINE w == [t EXCEPT !.fulltext_indexes =
                     Put(t.fulltext_indexes, s.name, [column |-> s.column, map |-> EmptyMap])]
  <2>1. u = rebuild_indexes(w, options) /\ s.name \notin DOMAIN t.fulltext_indexes
    BY <1>1, <1>5 DEF OnTable, create_fulltext_index, NameFree, Failed, Rebuilt
  <2>2. DOMAIN w = Fields /\ s.name \in DOMAIN w.fulltext_indexes
    BY <1>4 DEF Fields, Put
  <2> HIDE DEF w
  <2>3. s.name \in DOMAIN u.fulltext_indexes
    BY <2>1, <2>2, RebuildTexts
  <2>4. DOMAIN u.fulltext_indexes = DOMAIN t.fulltext_indexes
    BY <1>3 DEF SameData, encode_table, indexes_for_encoding
  <2> QED
    BY <2>1, <2>3, <2>4
<1>6. CASE s.op = "CreateIndex" /\ ~s.fulltext /\ u # t
  <2> DEFINE w == [t EXCEPT !.indexes =
                     Put(t.indexes, s.name, [column |-> s.column, map |-> EmptyMap])]
  <2>1. u = rebuild_indexes(w, DefaultOptions) /\ s.name \notin DOMAIN t.indexes
    BY <1>1, <1>6 DEF OnTable, create_index, NameFree, Failed, Rebuilt
  <2>2. DOMAIN w = Fields /\ s.name \in DOMAIN w.indexes
    BY <1>4 DEF Fields, Put
  <2> HIDE DEF w
  <2>3. s.name \in DOMAIN u.indexes
    BY <2>1, <2>2 DEF rebuild_indexes, Fields
  <2>4. DOMAIN u.indexes = DOMAIN t.indexes
    BY <1>3 DEF SameData, encode_table, indexes_for_encoding
  <2> QED
    BY <2>1, <2>3, <2>4
<1>7. CASE s.op = "Insert" /\ u # t
  <2>1. PICK row : u = rebuild_indexes(AddRow(t, row), options)
    BY <1>1, <1>7 DEF OnTable, Insert, Failed, Rebuilt
  <2>2. u.next_row_id = t.next_row_id + 1
    BY <1>4, <2>1 DEF rebuild_indexes, AddRow, Fields
  <2> QED
    BY <1>3, <2>2 DEF SameData, SoundTable, RowIds
<1>8. CASE s.op = "Update" /\ u # t
  <2>1. u = rebuild_indexes(t, options)
    BY <1>1, <1>8 DEF OnTable, Update, Failed, Rebuilt
  <2> QED
    BY <1>8, <2>1, RebuildSame DEF DataTable
<1>9. CASE s.op = "Delete" /\ u # t
  <2> DEFINE kept == DOMAIN t.rows \ matching_row_ids(t, s.filter, options)
             w == [t EXCEPT !.rows = [r \in kept |-> t.rows[r]]]
  <2>1. ~CanRebuild(w)
    BY <1>1, <1>9 DEF OnTable, Delete, Failed, Rebuilt
  <2>2. /\ DOMAIN w.rows \subseteq DOMAIN t.rows /\ \A r \in DOMAIN w.rows : w.rows[r] = t.rows[r]
        /\ w.primary_key = t.primary_key /\ w.indexes = t.indexes
    BY <1>4 DEF Fields
  <2> HIDE DEF kept, w
  <2>3. CanRebuild(w)
    BY <2>2 DEF DataTable, ExactTable, CanRebuild, RowKey
  <2> QED
    BY <2>1, <2>3
<1>10. CASE s.op = "Select"
  BY <1>10 DEF OnTable
<1> QED
  BY <1>1, <1>5, <1>6, <1>7, <1>8, <1>9, <1>10

\* And leaves the very catalog, as does what is no mutation.
LEMMA ExecuteSame ==
    ASSUME NEW cat, Sound(cat), DataCatalog(cat), ShapedCatalog(cat), NEW options,
           \A n \in DOMAIN cat : ExactTexts(cat[n], options.fulltext_tokenizer),
           NEW s, IsStatement(s),
           ~execute_statement(cat, s, options).ok \/ ~mutates_catalog(s)
    PROVE  execute_statement(cat, s, options).catalog = cat
<1>1. PICK done, new : done = execute_statement(cat, s, options) /\ new = done.catalog
  OBVIOUS
<1> SUFFICES ASSUME new # cat PROVE FALSE
  BY <1>1
<1>2. s.op # "CreateTable"
  BY <1>1 DEF execute_statement, mutates_catalog
<1>3. s.op \in {"CreateIndex", "Insert", "Update", "Delete", "Select"}
  BY <1>1, <1>2 DEF execute_statement
<1>4. PICK t : t = cat[s.table]
  OBVIOUS
<1>5. /\ s.table \in DOMAIN cat /\ new = Put(cat, s.table, OnTable(t, s, options).table)
      /\ done.ok = OnTable(t, s, options).ok
  BY <1>1, <1>3, <1>4 DEF execute_statement
<1>6. OnTable(t, s, options).table = t
  <2>1. CASE s.op = "Select"
    BY <2>1 DEF OnTable
  <2>2. CASE s.op # "Select"
    <3>1. ~OnTable(t, s, options).ok
      BY <1>1, <1>3, <1>5, <2>2 DEF mutates_catalog
    <3> QED
      BY <1>3, <1>4, <1>5, <3>1, OnTableFails DEF Sound, DataCatalog, ShapedCatalog
  <2> QED
    BY <2>1, <2>2
<1> QED
  BY <1>4, <1>5, <1>6 DEF Put, ShapedCatalog

-----------------------------------------------------------------------------
(* The file *)

\* What one TABLE block holds is what was written.
LEMMA ParseData ==
    ASSUME NEW file, Written(file), NEW n \in DOMAIN file
    PROVE  TypedTable(parse_table(file[n])) /\ encode_table(parse_table(file[n])) = file[n]
<1>1. PICK e : e = file[n]
  OBVIOUS
<1>2. PICK names : names = ColumnNames(e)
  OBVIOUS
<1>3. /\ e = [columns |-> e.columns, indexes |-> e.indexes,
               fulltext_indexes |-> e.fulltext_indexes, rows |-> e.rows]
      /\ IsVec(e.columns)
      /\ e.indexes \in [DOMAIN e.indexes -> names]
      /\ e.fulltext_indexes \in [DOMAIN e.fulltext_indexes -> names]
      /\ e.rows = [r \in DOMAIN e.rows |-> [c \in names |-> e.rows[r][c]]]
      /\ \A r \in DOMAIN e.rows : \A c \in names : IsEncoded(e.rows[r][c])
  BY <1>1, <1>2 DEF Written, WrittenTable
<1>4. PICK t : t = parse_table(e)
  OBVIOUS
<1>5. /\ DOMAIN t = Fields /\ t.columns = e.columns
      /\ t.primary_key = primary_key_column(e.columns)
      /\ t.indexes = persisted_indexes(e.indexes)
      /\ t.fulltext_indexes = persisted_indexes(e.fulltext_indexes)
      /\ t.rows = [r \in DOMAIN e.rows |->
                      [c \in DOMAIN e.rows[r] |-> decode_value(e.rows[r][c])]]
  BY <1>4 DEF parse_table, Fields
<1>6. \A r \in DOMAIN e.rows : DOMAIN e.rows[r] = names
  BY <1>3
<1>7. /\ DOMAIN t.rows = DOMAIN e.rows
      /\ \A r \in DOMAIN e.rows :
            /\ DOMAIN t.rows[r] = names
            /\ \A c \in names : t.rows[r][c] = decode_value(e.rows[r][c])
  BY <1>5, <1>6
<1>8. /\ DOMAIN t.indexes = DOMAIN e.indexes
      /\ \A i \in DOMAIN e.indexes : t.indexes[i].column = e.indexes[i]
      /\ DOMAIN t.fulltext_indexes = DOMAIN e.fulltext_indexes
      /\ \A i \in DOMAIN e.fulltext_indexes : t.fulltext_indexes[i].column = e.fulltext_indexes[i]
  BY <1>5 DEF persisted_indexes
<1>9. ColumnNames(t) = names
  BY <1>2, <1>5 DEF ColumnNames
<1>10. \A r \in DOMAIN e.rows : \A c \in names :
           Storable(t.rows[r][c]) /\ encode_value(t.rows[r][c]) = e.rows[r][c]
  BY <1>3, <1>7 DEF IsEncoded, Storable
<1>11. TypedTable(t)
  <2>1. TypedRows(t)
    BY <1>7, <1>9, <1>10 DEF TypedRows
  <2>2. /\ \A i \in DOMAIN t.indexes : t.indexes[i].column \in ColumnNames(t)
        /\ \A i \in DOMAIN t.fulltext_indexes : t.fulltext_indexes[i].column \in ColumnNames(t)
    BY <1>3, <1>8, <1>9
  <2>3. IsVec(t.columns) /\ t.primary_key = primary_key_column(t.columns)
    BY <1>3, <1>5
  <2> QED
    BY <1>5, <2>1, <2>2, <2>3 DEF TypedTable
<1>12. encode_table(t) = e
  <2>1. indexes_for_encoding(t.indexes) = e.indexes
    BY <1>3, <1>8 DEF indexes_for_encoding
  <2>2. indexes_for_encoding(t.fulltext_indexes) = e.fulltext_indexes
    BY <1>3, <1>8 DEF indexes_for_encoding
  <2>3. [r \in DOMAIN t.rows |-> [c \in DOMAIN t.rows[r] |-> encode_value(t.rows[r][c])]]
        = [r \in DOMAIN e.rows |-> [c \in names |-> e.rows[r][c]]]
    <3>1. \A r \in DOMAIN e.rows :
              [c \in DOMAIN t.rows[r] |-> encode_value(t.rows[r][c])] = [c \in names |-> e.rows[r][c]]
      BY <1>7, <1>10
    <3> QED
      BY <1>7, <3>1
  <2> QED
    BY <1>3, <1>5, <2>1, <2>2, <2>3 DEF encode_table
<1> QED
  BY <1>1, <1>4, <1>11, <1>12

\* A catalog that was opened from a written file writes the same file, and if
\* it opened without an error its keys are unique and its maps exact.
LEMMA DecodeData ==
    ASSUME NEW file, Written(file), NEW options
    PROVE  LET done == decode_with_options(file, options)
           IN encode(done.catalog) = file /\ (done.ok => DataCatalog(done.catalog))
<1> DEFINE done == decode_with_options(file, options)
<1>1. /\ DOMAIN done.catalog = DOMAIN file
      /\ \A n \in DOMAIN file : done.catalog[n] = rebuild_indexes(parse_table(file[n]), options)
      /\ done.ok <=> \A n \in DOMAIN file : CanRebuild(parse_table(file[n]))
  BY DEF decode_with_options, Rebuilt
<1> HIDE DEF done
<1>2. ASSUME NEW n \in DOMAIN file
      PROVE  /\ encode_table(done.catalog[n]) = file[n]
             /\ done.ok => DataTable(done.catalog[n])
  <2>1. TypedTable(parse_table(file[n])) /\ encode_table(parse_table(file[n])) = file[n]
    BY ParseData
  <2>2. LET u == rebuild_indexes(parse_table(file[n]), options)
        IN /\ TypedTable(u) /\ encode_table(u) = encode_table(parse_table(file[n]))
           /\ CanRebuild(parse_table(file[n])) => ExactTable(u)
    BY <2>1, RebuildData
  <2> QED
    BY <1>1, <2>1, <2>2 DEF DataTable
<1>3. encode(done.catalog) = [n \in DOMAIN file |-> file[n]]
  BY <1>1, <1>2 DEF encode
<1>4. file = [n \in DOMAIN file |-> file[n]]
  BY DEF Written
<1> QED
  BY <1>1, <1>2, <1>3, <1>4 DEF DataCatalog, done

\* The file of a sound, typed and exact catalog is a written one, and opens.
LEMMA EncodeData ==
    ASSUME NEW cat, Sound(cat), DataCatalog(cat), NEW options
    PROVE  Written(encode(cat)) /\ decode_with_options(encode(cat), options).ok
<1> DEFINE F == encode(cat)
<1>1. DOMAIN F = DOMAIN cat /\ F = [n \in DOMAIN F |-> F[n]]
  BY DEF encode
<1>2. ASSUME NEW n \in DOMAIN F
      PROVE  WrittenTable(F[n]) /\ CanRebuild(parse_table(F[n]))
  <2>1. n \in DOMAIN cat /\ F[n] = encode_table(cat[n]) /\ TypedTable(cat[n]) /\ ExactTable(cat[n])
    BY <1>1 DEF encode, DataCatalog, DataTable
  <2>2. PICK t : t = cat[n]
    OBVIOUS
  <2>3. PICK e : e = F[n]
    OBVIOUS
  <2>4. /\ e.columns = t.columns
        /\ e.indexes = indexes_for_encoding(t.indexes)
        /\ e.fulltext_indexes = indexes_for_encoding(t.fulltext_indexes)
        /\ e.rows = [r \in DOMAIN t.rows |-> [c \in DOMAIN t.rows[r] |-> encode_value(t.rows[r][c])]]
        /\ e = [columns |-> e.columns, indexes |-> e.indexes,
                fulltext_indexes |-> e.fulltext_indexes, rows |-> e.rows]
    BY <2>1, <2>2, <2>3 DEF encode_table
  <2>5. PICK names : names = ColumnNames(e)
    OBVIOUS
  <2>6. ColumnNames(t) = names
    BY <2>4, <2>5 DEF ColumnNames
  <2>7. /\ IsVec(e.columns)
        /\ e.indexes \in [DOMAIN e.indexes -> names]
        /\ e.fulltext_indexes \in [DOMAIN e.fulltext_indexes -> names]
    BY <2>1, <2>2, <2>4, <2>6 DEF TypedTable, indexes_for_encoding
  <2>8. /\ DOMAIN e.rows = DOMAIN t.rows
        /\ \A r \in DOMAIN t.rows : DOMAIN t.rows[r] = names /\ \A c \in names : Storable(t.rows[r][c])
    BY <2>1, <2>2, <2>4, <2>6 DEF TypedTable, TypedRows
  <2>9. \A r \in DOMAIN t.rows : /\ e.rows[r] = [c \in names |-> encode_value(t.rows[r][c])]
                                  /\ \A c \in names : e.rows[r][c] = encode_value(t.rows[r][c])
    BY <2>4, <2>8
  <2>10. e.rows = [r \in DOMAIN e.rows |-> [c \in names |-> e.rows[r][c]]]
    <3>1. \A r \in DOMAIN t.rows : e.rows[r] = [c \in names |-> e.rows[r][c]]
      BY <2>9
    <3>2. e.rows = [r \in DOMAIN e.rows |-> e.rows[r]]
      BY <2>4
    <3> QED
      BY <2>8, <3>1, <3>2
  <2>11. \A r \in DOMAIN t.rows : \A c \in names : decode_value(e.rows[r][c]) = t.rows[r][c]
    <3> TAKE r \in DOMAIN t.rows
    <3> TAKE c \in names
    <3>1. e.rows[r][c] = encode_value(t.rows[r][c]) /\ IsValue(t.rows[r][c])
      BY <2>8, <2>9 DEF Storable
    <3> QED
      BY <3>1, ValueRoundTrip
  <2>12. \A r \in DOMAIN e.rows : \A c \in names : IsEncoded(e.rows[r][c])
    <3> TAKE r \in DOMAIN e.rows
    <3> TAKE c \in names
    <3>1. /\ decode_value(e.rows[r][c]) = t.rows[r][c]
          /\ e.rows[r][c] = encode_value(t.rows[r][c]) /\ Storable(t.rows[r][c])
      BY <2>8, <2>9, <2>11
    <3> QED
      BY <3>1 DEF IsEncoded, Storable
  <2>13. IsFiniteSet(DOMAIN e.rows) /\ DOMAIN e.rows \subseteq Nat
    <3>1. Readable(encode(cat))
      BY EncodeReadable
    <3> QED
      BY <2>3, <3>1 DEF Readable
  <2>14. CanRebuild(parse_table(e))
    <3>1. PICK u : u = parse_table(e)
      OBVIOUS
    <3>2. /\ u.primary_key = t.primary_key
          /\ u.indexes = persisted_indexes(e.indexes)
          /\ u.rows = [r \in DOMAIN e.rows |-> [c \in DOMAIN e.rows[r] |-> decode_value(e.rows[r][c])]]
      BY <2>1, <2>2, <2>4, <3>1 DEF parse_table, TypedTable
    <3>3. /\ DOMAIN u.rows = DOMAIN t.rows
          /\ \A r \in DOMAIN t.rows : \A c \in names : u.rows[r][c] = t.rows[r][c]
      <4>1. \A r \in DOMAIN t.rows : DOMAIN e.rows[r] = names
        BY <2>9
      <4>2. \A r \in DOMAIN t.rows : \A c \in names : u.rows[r][c] = decode_value(e.rows[r][c])
        BY <2>8, <3>2, <4>1
      <4>3. DOMAIN u.rows = DOMAIN t.rows
        BY <2>8, <3>2
      <4> QED
        BY <2>11, <4>2, <4>3
    <3>4. /\ DOMAIN u.indexes = DOMAIN t.indexes
          /\ \A i \in DOMAIN t.indexes : u.indexes[i].column = t.indexes[i].column
      BY <2>4, <3>2 DEF persisted_indexes, indexes_for_encoding
    <3>5. \A i \in DOMAIN t.indexes : t.indexes[i].column \in names
      BY <2>1, <2>2, <2>6 DEF TypedTable
    <3>6. t.primary_key # NoColumn => t.primary_key[1] \in names
      BY <2>1, <2>2, <2>6 DEF TypedTable, primary_key_column, ColumnNames
    <3>7. CanRebuild(t) /\ u.primary_key = t.primary_key
      BY <2>1, <2>2, <3>2 DEF ExactTable
    <3>8. u.primary_key # NoColumn =>
              \A r \in DOMAIN t.rows : /\ u.rows[r][u.primary_key[1]] = t.rows[r][t.primary_key[1]]
                                       /\ RowKey(u, r, u.primary_key[1]) = RowKey(t, r, t.primary_key[1])
      BY <3>3, <3>6, <3>7 DEF RowKey
    <3>9. \A r \in DOMAIN t.rows : \A i \in DOMAIN t.indexes :
              u.rows[r][u.indexes[i].column] = t.rows[r][t.indexes[i].column]
      BY <3>3, <3>4, <3>5
    <3>10. u.primary_key # NoColumn =>
               /\ \A r \in DOMAIN u.rows : u.rows[r][u.primary_key[1]] # Null
               /\ \A r \in DOMAIN u.rows : Indexable(u.rows[r][u.primary_key[1]])
               /\ \A q, r \in DOMAIN u.rows :
                      RowKey(u, q, u.primary_key[1]) = RowKey(u, r, u.primary_key[1]) => q = r
      BY <3>3, <3>7, <3>8 DEF CanRebuild
    <3>11. \A i \in DOMAIN u.indexes : \A r \in DOMAIN u.rows :
               Indexable(u.rows[r][u.indexes[i].column])
      BY <3>3, <3>4, <3>7, <3>9 DEF CanRebuild
    <3>12. CanRebuild(u)
      BY <3>10, <3>11 DEF CanRebuild
    <3> QED
      BY <3>1, <3>12
  <2>15. WrittenTable(e)
    BY <2>4, <2>5, <2>7, <2>10, <2>12, <2>13 DEF WrittenTable
  <2> QED
    BY <2>3, <2>14, <2>15
<1> HIDE DEF F
<1>3. Written(F)
  BY <1>1, <1>2 DEF Written
<1>4. decode_with_options(F, options).ok
  BY <1>2 DEF decode_with_options, Rebuilt
<1> QED
  BY <1>3, <1>4 DEF F

-----------------------------------------------------------------------------
(* Scoring by several workers *)

\* The smaller of two numbers.
LEMMA MinOfTwo ==
    ASSUME NEW a \in Int, NEW b \in Int
    PROVE  Min({a, b}) = IF a <= b THEN a ELSE b
<1>1. PICK m : m = IF a <= b THEN a ELSE b
  OBVIOUS
<1>2. m \in {a, b} /\ \A y \in {a, b} : m <= y
  BY <1>1
<1>3. \A x \in {a, b} : (\A y \in {a, b} : x <= y) => x = m
  BY <1>1
<1> QED
  BY <1>1, <1>2, <1>3 DEF Min

\* The chunk that an index falls into.
LEMMA ChunkOf ==
    ASSUME NEW n \in Nat, NEW size \in Nat \ {0}, NEW i \in 1..n
    PROVE  \E k \in 1..((n + size - 1) \div size) :
               i \in ((k - 1) * size + 1)..Min({k * size, n})
<1>1. PICK q \in Nat : q * size <= i - 1 /\ i - 1 < q * size + size
  <2>1. PICK q : q = (i - 1) \div size
    OBVIOUS
  <2>2. q \in Nat /\ q * size <= i - 1 /\ i - 1 < q * size + size
    BY <2>1
  <2> QED
    BY <2>2
<1>2. PICK p \in Nat : p = (n + size - 1) \div size /\ n + size - 1 < p * size + size
  OBVIOUS
<1>3. q < p
  <2>1. q * size + size <= n + size - 1
    BY <1>1
  <2>2. q * size < p * size
    BY <1>2, <2>1
  <2> QED
    BY <2>2
<1>4. (q + 1) * size = q * size + size /\ (q + 1) - 1 = q /\ q * size \in Nat
  OBVIOUS
<1>5. i \in (((q + 1) - 1) * size + 1)..Min({(q + 1) * size, n})
  BY <1>1, <1>4, MinOfTwo
<1>6. q + 1 \in 1..((n + size - 1) \div size)
  BY <1>2, <1>3
<1> QED
  BY <1>5, <1>6

\* No element is left out, and none is made up, whatever the size.
LEMMA ChunksCover ==
    ASSUME NEW S, NEW s \in Seq(S), NEW size \in Nat \ {0}
    PROVE  UNION chunks(s, size) = {s[i] : i \in DOMAIN s}
<1>1. Len(s) \in Nat /\ DOMAIN s = 1..Len(s)
  OBVIOUS
<1> DEFINE chunk(k) == {s[i] : i \in ((k - 1) * size + 1)..Min({k * size, Len(s)})}
           K == 1..((Len(s) + size - 1) \div size)
<1>0. chunks(s, size) = {chunk(k) : k \in K}
  BY DEF chunks
<1>2. ASSUME NEW i \in DOMAIN s PROVE s[i] \in UNION chunks(s, size)
  <2>1. PICK k \in 1..((Len(s) + size - 1) \div size) :
            i \in ((k - 1) * size + 1)..Min({k * size, Len(s)})
    BY <1>1, ChunkOf
  <2>2. s[i] \in chunk(k) /\ k \in K
    BY <2>1
  <2> HIDE DEF chunk, K
  <2> QED
    BY <1>0, <2>2
<1>3. ASSUME NEW x \in UNION chunks(s, size) PROVE \E i \in DOMAIN s : x = s[i]
  <2>0. PICK k \in 1..((Len(s) + size - 1) \div size) :
            \E i \in ((k - 1) * size + 1)..Min({k * size, Len(s)}) : x = s[i]
    BY DEF chunks
  <2>1. PICK i \in ((k - 1) * size + 1)..Min({k * size, Len(s)}) : x = s[i]
    BY <2>0
  <2>2. k \in Nat \ {0} /\ (k - 1) * size \in Nat /\ k * size \in Nat
    BY <1>1
  <2>3. Min({k * size, Len(s)}) \in Int /\ Min({k * size, Len(s)}) <= Len(s)
    <3>1. PICK a, b : a = k * size /\ b = Len(s)
      OBVIOUS
    <3>2. Min({a, b}) = IF a <= b THEN a ELSE b
      BY <1>1, <2>2, <3>1, MinOfTwo
    <3> QED
      BY <1>1, <2>2, <3>1, <3>2
  <2>4. i \in 1..Len(s)
    BY <1>1, <2>1, <2>2, <2>3
  <2> QED
    BY <1>1, <2>1, <2>4
<1> QED
  BY <1>2, <1>3

\* However many worker threads share the scan, and however the rows divide
\* among them, the scores of ORDER BY VECTOR_DISTANCE are those of one scan,
\* and an error in a chunk is the scan's error (vector_scores,
\* vector_scores_chunk of table.rs).
THEOREM WorkersAgree ==
    ASSUME NEW t, NEW row_ids \in Seq(Nat), NEW order, NEW options, options.worker_threads \in Nat
    PROVE  vector_scores(t, row_ids, order, options) =
               vector_scores_chunk(t, {row_ids[i] : i \in DOMAIN row_ids}, order, options.metric)
<1>1. PICK w, n, m : w = options.worker_threads /\ n = Len(row_ids) /\ m = options.metric
  OBVIOUS
<1>2. CASE w <= 1 \/ n < 2
  BY <1>1, <1>2 DEF vector_scores
<1>3. CASE ~(w <= 1 \/ n < 2)
  <2>1. PICK workers, size : workers = Min({w, n}) /\ size = (n + workers - 1) \div workers
    OBVIOUS
  <2>2. workers \in Nat \ {0} /\ workers <= n
    BY <1>1, <1>3, <2>1, MinOfTwo
  <2>3. size \in Nat \ {0}
    <3>1. n + workers - 1 \in Nat /\ n + workers - 1 >= workers
      BY <1>1, <1>3, <2>2
    <3>2. PICK a \in Nat : a = n + workers - 1 /\ size = a \div workers
      BY <2>1, <3>1
    <3>3. size \in Nat /\ a < size * workers + workers
      <4>1. \A x \in Nat, y \in Nat \ {0} : x \div y \in Nat /\ x < (x \div y) * y + y
        OBVIOUS
      <4> QED
        BY <2>2, <3>2, <4>1
    <3>4. size # 0
      BY <2>2, <3>1, <3>2, <3>3
    <3> QED
      BY <3>3, <3>4
  <2>4. PICK all, cover : all = {row_ids[i] : i \in DOMAIN row_ids} /\ cover = chunks(row_ids, size)
    OBVIOUS
  <2>5. UNION cover = all
    BY <2>3, <2>4, ChunksCover
  <2> DEFINE part(c) == vector_scores_chunk(t, c, order, m)
             with(c) == {r \in c : Kind(t.rows[r][order.column]) = "Vector"}
             fits(r) == Comparable(Datum(t.rows[r][order.column]), order.target, m)
             score(r) == <<vector_distance(Datum(t.rows[r][order.column]), order.target, m), r>>
  <2>6. \A c : part(c) = IF \A r \in with(c) : fits(r)
                         THEN [ok |-> TRUE, scored |-> {score(r) : r \in with(c)}]
                         ELSE [ok |-> FALSE, scored |-> {}]
    BY DEF vector_scores_chunk
  <2>7. vector_scores(t, row_ids, order, options) =
            IF \A p \in {part(c) : c \in cover} : p.ok
            THEN [ok |-> TRUE, scored |-> UNION {p.scored : p \in {part(c) : c \in cover}}]
            ELSE [ok |-> FALSE, scored |-> {}]
    BY <1>1, <1>3, <2>1, <2>4 DEF vector_scores, Joined
  <2>8. \A r \in all : \E c \in cover : r \in c
    BY <2>5
  <2>9. \A c \in cover : c \subseteq all
    BY <2>5
  <2>10. (\A p \in {part(c) : c \in cover} : p.ok) <=> \A r \in with(all) : fits(r)
    <3>1. \A c : part(c).ok <=> \A r \in with(c) : fits(r)
      <4> HIDE DEF part, with, fits, score
      <4> QED
        BY <2>6
    <3> HIDE DEF part, fits
    <3> QED
      BY <2>8, <2>9, <3>1
  <2>11. (\A r \in with(all) : fits(r)) =>
            UNION {p.scored : p \in {part(c) : c \in cover}} = {score(r) : r \in with(all)}
    <3> SUFFICES ASSUME \A r \in with(all) : fits(r)
                 PROVE  UNION {p.scored : p \in {part(c) : c \in cover}} = {score(r) : r \in with(all)}
      OBVIOUS
    <3>1. \A c \in cover : part(c).scored = {score(r) : r \in with(c)}
      <4>1. \A c \in cover : \A r \in with(c) : fits(r)
        BY <2>9
      <4> HIDE DEF part, with, fits, score
      <4> QED
        BY <2>6, <4>1
    <3> HIDE DEF part, fits, score
    <3> QED
      BY <2>8, <2>9, <3>1, SMTT(20)
  <2>12. part(all) = vector_scores(t, row_ids, order, options)
    <3> HIDE DEF part, with, fits, score
    <3> QED
      BY <2>6, <2>7, <2>10, <2>11
  <2> QED
    BY <1>1, <2>4, <2>12
<1> QED
  BY <1>2, <1>3
=============================================================================
