------------------------------- MODULE Table -------------------------------
(***************************************************************************)
(* storage/table.rs: one in-memory table.  A table is a record of its      *)
(* columns, its rows by row id, the next row id, and three families of     *)
(* index maps that every mutation rebuilds from the rows: the primary-key  *)
(* map, the secondary equality indexes and the full-text indexes.          *)
(*                                                                         *)
(* Each operation is an operator returning a result [ok, table]: whether   *)
(* the Rust method returned Ok, and the table it leaves behind.            *)
(*                                                                         *)
(* Data.  A value is <<kind, datum>> (Null has no datum).  A float datum   *)
(* is <<negative, magnitude>>, its bit pattern: the two zeros differ.      *)
(* A text is a sequence of whitespace-separated chunks, a chunk the        *)
(* sequence of its alphanumeric words (so "go-to!" is <<"go","to","">>).   *)
(* An Option is a sequence of length 0 or 1.  Names are the normalised     *)
(* ones the parser produces.                                               *)
(***************************************************************************)
EXTENDS Integers, Sequences, FiniteSets, FiniteSetsExt

CONSTANT Lower      \* word -> its lower-case form (str::to_lowercase)

-----------------------------------------------------------------------------
(* Values *)

Null == <<"Null">>
Kind(v) == v[1]
Datum(v) == v[2]

NonFinite == <<FALSE, -1>>      \* an infinity or a NaN
Tag == [Integer |-> "I", Float |-> "F", Boolean |-> "B",
        Text |-> "T", Vector |-> "V", Point |-> "P"]

\* A Vec, and a Vec of floats.
IsVec(s) == s \in Seq({s[i] : i \in DOMAIN s})
Vectors == Seq(BOOLEAN \X Int)

\* The variants of Value: NULL, or a kind and its datum.
IsValue(v) ==
    \/ v = Null
    \/ /\ Kind(v) \in DOMAIN Tag /\ v = <<Kind(v), Datum(v)>>
       /\ Kind(v) = "Integer" => Datum(v) \in Int
       /\ Kind(v) = "Vector" => Datum(v) \in Vectors

\* index_key fails on a value that holds a non-finite float.
Indexable(v) ==
    /\ Kind(v) = "Float" => Datum(v) # NonFinite
    /\ Kind(v) \in {"Vector", "Point"} =>
           \A i \in DOMAIN Datum(v) : Datum(v)[i] # NonFinite

\* The map key of a value: its tag and its exact bits.
index_key(v) == IF v = Null THEN <<"N">> ELSE <<Tag[Kind(v)], Datum(v)>>

\* Value's derived equality compares floats as numbers: -0.0 = 0.0.
Number(x) == IF x[2] = 0 THEN <<FALSE, 0>> ELSE x
SameValue(v, w) ==
    /\ Kind(v) = Kind(w)
    /\ CASE v = Null -> TRUE
         [] Kind(v) = "Float" -> Number(Datum(v)) = Number(Datum(w))
         [] Kind(v) \in {"Vector", "Point"} ->
                /\ DOMAIN Datum(v) = DOMAIN Datum(w)
                /\ \A i \in DOMAIN Datum(v) :
                       Number(Datum(v)[i]) = Number(Datum(w)[i])
         [] OTHER -> Datum(v) = Datum(w)

-----------------------------------------------------------------------------
(* Runtime options: the parts of TableRuntimeOptions that reach the state *)

NoDimensions == 0
DefaultOptions ==
    [fulltext_tokenizer |-> "Simple", dimensions |-> NoDimensions,
     metric |-> "Euclidean", worker_threads |-> 1]

LowerText(text) == [i \in DOMAIN text |-> [j \in DOMAIN text[i] |-> Lower[text[i][j]]]]

\* A token is itself a text, so that tokens of the three tokenizers compare.
tokenize(text, tokenizer) ==
    LET low == LowerText(text)
        chunks == {low[i] : i \in DOMAIN low}
        words == UNION {{chunk[j] : j \in DOMAIN chunk} : chunk \in chunks}
    IN CASE tokenizer = "Simple"     -> {<< <<w>> >> : w \in words \ {""}}
         [] tokenizer = "Whitespace" -> {<<chunk>> : chunk \in chunks}
         [] tokenizer = "Exact"      -> {low} \ {<<>>}

-----------------------------------------------------------------------------
(* Columns and validation *)

NoColumn == <<>>        \* a table without a primary key
EmptyMap == [x \in {} |-> x]
Put(f, k, v) == [x \in DOMAIN f \cup {k} |-> IF x = k THEN v ELSE f[x]]
Lookup(map, k) == IF k \in DOMAIN map THEN map[k] ELSE {}

ColumnNames(t) == {t.columns[i].name : i \in DOMAIN t.columns}
column(t, c) == t.columns[CHOOSE i \in DOMAIN t.columns : t.columns[i].name = c]

\* validate_value_with_options: what a column takes ...
Accepts(col, v, options) ==
    \/ v = Null
    \/ col.ty = "Float" /\ Kind(v) = "Integer"
    \/ /\ Kind(v) = col.ty
       /\ Indexable(v)
       /\ (Kind(v) = "Vector" /\ options.dimensions # NoDimensions) =>
              Len(Datum(v)) = options.dimensions

\* ... and what it then holds: an integer becomes a float in a FLOAT column.
Coerce(col, v) ==
    IF col.ty = "Float" /\ Kind(v) = "Integer"
    THEN <<"Float", <<Datum(v) < 0, IF Datum(v) < 0 THEN -Datum(v) ELSE Datum(v)>> >>
    ELSE v

\* Table::new fails on a duplicate column and on a second primary key.
ValidColumns(columns) ==
    \A i, j \in DOMAIN columns :
        i # j => /\ columns[i].name # columns[j].name
                 /\ ~(columns[i].primary_key /\ columns[j].primary_key)

primary_key_column(columns) ==
    IF \E i \in DOMAIN columns : columns[i].primary_key
    THEN <<columns[CHOOSE i \in DOMAIN columns : columns[i].primary_key].name>>
    ELSE NoColumn

NewTable(columns) ==
    [columns |-> columns, rows |-> EmptyMap, next_row_id |-> 1,
     primary_key |-> primary_key_column(columns), primary |-> EmptyMap,
     indexes |-> EmptyMap, fulltext_indexes |-> EmptyMap]

-----------------------------------------------------------------------------
(* Index rebuilds *)

RowKey(t, r, c) == index_key(t.rows[r][c])
RowTokens(t, r, c, tokenizer) ==
    IF Kind(t.rows[r][c]) = "Text" THEN tokenize(Datum(t.rows[r][c]), tokenizer) ELSE {}

\* rebuild_indexes_with_options succeeds: every primary key is present and
\* unique, every indexed value can be keyed.
CanRebuild(t) ==
    /\ t.primary_key # NoColumn =>
          /\ \A r \in DOMAIN t.rows : t.rows[r][t.primary_key[1]] # Null
          /\ \A r \in DOMAIN t.rows : Indexable(t.rows[r][t.primary_key[1]])
          /\ \A q, r \in DOMAIN t.rows :
                 RowKey(t, q, t.primary_key[1]) = RowKey(t, r, t.primary_key[1]) => q = r
    /\ \A n \in DOMAIN t.indexes : \A r \in DOMAIN t.rows :
           Indexable(t.rows[r][t.indexes[n].column])

PrimaryMap(t) ==
    IF t.primary_key = NoColumn THEN EmptyMap
    ELSE [k \in {RowKey(t, r, t.primary_key[1]) : r \in DOMAIN t.rows} |->
              CHOOSE r \in DOMAIN t.rows : RowKey(t, r, t.primary_key[1]) = k]

IndexMap(t, c) ==
    [k \in {RowKey(t, r, c) : r \in DOMAIN t.rows} |->
        {r \in DOMAIN t.rows : RowKey(t, r, c) = k}]

FullTextMap(t, c, tokenizer) ==
    [w \in UNION {RowTokens(t, r, c, tokenizer) : r \in DOMAIN t.rows} |->
        {r \in DOMAIN t.rows : w \in RowTokens(t, r, c, tokenizer)}]

\* (mutant) The secondary and full-text maps are left as they were.
rebuild_primary_only(t, options) == [t EXCEPT !.primary = PrimaryMap(t)]

\* The maps a successful rebuild leaves.  After a failed one no caller keeps
\* them: it drops the table or restores the old rows and rebuilds again.
rebuild_indexes(t, options) ==
    [t EXCEPT
        !.primary = PrimaryMap(t),
        !.indexes = [n \in DOMAIN t.indexes |->
            [column |-> t.indexes[n].column, map |-> IndexMap(t, t.indexes[n].column)]],
        !.fulltext_indexes = [n \in DOMAIN t.fulltext_indexes |->
            [column |-> t.fulltext_indexes[n].column,
             map |-> FullTextMap(t, t.fulltext_indexes[n].column, options.fulltext_tokenizer)]]]

\* (mutant) Rebuilds without the uniqueness and NULL checks.
RebuiltUnchecked(t, options) == [ok |-> TRUE, table |-> rebuild_indexes(t, options)]

Failed(t) == [ok |-> FALSE, table |-> t]
Rebuilt(t, options) == [ok |-> CanRebuild(t), table |-> rebuild_indexes(t, options)]

-----------------------------------------------------------------------------
(* Filters.  <<"None">>, <<"Equals", column, value>>, <<"FullText", column, *)
(* query>> or <<"GeoWithin", column, the set of points in range>>.          *)

FilterKinds == {"None", "Equals", "FullText", "GeoWithin"}

\* normalize_filter succeeds.
FilterOk(t, f, options) ==
    f # <<"None">> =>
        /\ f[2] \in ColumnNames(t)
        /\ f[1] = "Equals" => Accepts(column(t, f[2]), f[3], options)
        /\ f[1] = "FullText" => column(t, f[2]).ty = "Text"
        /\ f[1] = "GeoWithin" => column(t, f[2]).ty = "Point"

match_fulltext(t, c, query, options) ==
    LET tokens == tokenize(query, options.fulltext_tokenizer)
        on == {n \in DOMAIN t.fulltext_indexes : t.fulltext_indexes[n].column = c}
    IN IF tokens = {} THEN {}
       ELSE IF on # {}
       THEN LET map == t.fulltext_indexes[CHOOSE n \in on : TRUE].map
            IN {r \in UNION {Lookup(map, w) : w \in tokens} :
                    \A w \in tokens : r \in Lookup(map, w)}
       ELSE {r \in DOMAIN t.rows :
                 tokens \subseteq RowTokens(t, r, c, options.fulltext_tokenizer)}

\* Equality: through the primary map, else an index on the column (all the
\* indexes of a column hold the same map), else a scan that compares values.
match_equals(t, c, v) ==
    LET on == {n \in DOMAIN t.indexes : t.indexes[n].column = c}
    IN IF t.primary_key = <<c>>
       THEN {t.primary[k] : k \in {index_key(v)} \cap DOMAIN t.primary}
       ELSE IF on # {} THEN Lookup(t.indexes[CHOOSE n \in on : TRUE].map, index_key(v))
       ELSE {r \in DOMAIN t.rows : SameValue(t.rows[r][c], v)}

\* (mutant) Compares with the filter's value as written.
matching_uncoerced(t, f, options) ==
    CASE f[1] = "None"      -> DOMAIN t.rows
      [] f[1] = "Equals"    -> match_equals(t, f[2], f[3])
      [] f[1] = "FullText"  -> match_fulltext(t, f[2], f[3], options)
      [] f[1] = "GeoWithin" -> {}

\* matching_row_ids, on a filter for which FilterOk holds.
matching_row_ids(t, f, options) ==
    CASE f[1] = "None"      -> DOMAIN t.rows
      [] f[1] = "Equals"    -> match_equals(t, f[2], Coerce(column(t, f[2]), f[3]))
      [] f[1] = "FullText"  -> match_fulltext(t, f[2], f[3], options)
      [] f[1] = "GeoWithin" ->
             {r \in DOMAIN t.rows : t.rows[r][f[2]] # Null /\ Datum(t.rows[r][f[2]]) \in f[3]}

-----------------------------------------------------------------------------
(* Operations *)

\* INSERT's target columns: the listed ones, or every column.
Target(t, columns) ==
    IF columns = <<>> THEN [i \in DOMAIN t.columns |-> t.columns[i].name] ELSE columns[1]

Assignable(t, target, values, options) ==
    \A i \in DOMAIN target :
        /\ target[i] \in ColumnNames(t)
        /\ Accepts(column(t, target[i]), values[i], options)

\* row with target[i] := values[i] in order: the last assignment wins.
Assign(t, row, target, values) ==
    [c \in DOMAIN row |->
        LET at == {i \in DOMAIN target : target[i] = c}
        IN IF at = {} THEN row[c] ELSE Coerce(column(t, c), values[Max(at)])]

validate_primary_insert(t, row) ==
    t.primary_key # NoColumn =>
        /\ row[t.primary_key[1]] # Null
        /\ Indexable(row[t.primary_key[1]])
        /\ index_key(row[t.primary_key[1]]) \notin DOMAIN t.primary

\* (mutants) next_row_id is not advanced; the first free id is used again.
AddRowAtNext(t, row) == [t EXCEPT !.rows = Put(t.rows, t.next_row_id, row)]
AddRowInGap(t, row) ==
    LET r == Min({i \in 1..t.next_row_id : i \notin DOMAIN t.rows})
    IN [t EXCEPT !.rows = Put(t.rows, r, row), !.next_row_id = Max({t.next_row_id, r + 1})]

AddRow(t, row) ==
    [t EXCEPT !.rows = Put(t.rows, t.next_row_id, row), !.next_row_id = t.next_row_id + 1]

Insert(t, columns, values, options) ==
    LET target == Target(t, columns)
        row == Assign(t, [c \in ColumnNames(t) |-> Null], target, values)
    IN IF /\ Len(target) = Len(values)
          /\ Assignable(t, target, values, options)
          /\ validate_primary_insert(t, row)
       THEN Rebuilt(AddRow(t, row), options)
       ELSE Failed(t)

\* (mutant) The assignments stay when the new rows clash.
UpdateNotUndone(t, target, values, f, options) ==
    LET ids == matching_row_ids(t, f, options)
        new == [t EXCEPT !.rows = [r \in DOMAIN t.rows |->
                    IF r \in ids THEN Assign(t, t.rows[r], target, values) ELSE t.rows[r]]]
    IN IF ~(FilterOk(t, f, options) /\ Assignable(t, target, values, options)) THEN Failed(t)
       ELSE Rebuilt(new, options)

\* UPDATE undoes its assignments, and rebuilds, when the new rows clash.
Update(t, target, values, f, options) ==
    LET ids == matching_row_ids(t, f, options)
        new == [t EXCEPT !.rows = [r \in DOMAIN t.rows |->
                    IF r \in ids THEN Assign(t, t.rows[r], target, values) ELSE t.rows[r]]]
    IN IF ~(FilterOk(t, f, options) /\ Assignable(t, target, values, options)) THEN Failed(t)
       ELSE IF CanRebuild(new) THEN Rebuilt(new, options)
       ELSE Failed(rebuild_indexes(t, options))

\* (mutant) Rows go, the maps keep them.
DeleteNotRebuilt(t, f, options) ==
    LET kept == DOMAIN t.rows \ matching_row_ids(t, f, options)
    IN IF FilterOk(t, f, options)
       THEN [ok |-> TRUE, table |-> [t EXCEPT !.rows = [r \in kept |-> t.rows[r]]]]
       ELSE Failed(t)

Delete(t, f, options) ==
    LET kept == DOMAIN t.rows \ matching_row_ids(t, f, options)
    IN IF FilterOk(t, f, options)
       THEN Rebuilt([t EXCEPT !.rows = [r \in kept |-> t.rows[r]]], options)
       ELSE Failed(t)

validate_projection(t, projection) == projection \subseteq ColumnNames(t)

\* SELECT passes its validation; without ORDER BY nothing else can fail.
SelectOk(t, projection, f, options) ==
    validate_projection(t, projection) /\ FilterOk(t, f, options)

NameFree(t, name) == name \notin DOMAIN t.indexes \cup DOMAIN t.fulltext_indexes

\* create_index rebuilds every index, full-text ones included, with the
\* default options.
create_index(t, name, c) ==
    IF c \in ColumnNames(t) /\ NameFree(t, name)
    THEN Rebuilt([t EXCEPT !.indexes = Put(t.indexes, name, [column |-> c, map |-> EmptyMap])],
                 DefaultOptions)
    ELSE Failed(t)

create_fulltext_index(t, name, c, options) ==
    IF c \in ColumnNames(t) /\ column(t, c).ty = "Text" /\ NameFree(t, name)
    THEN Rebuilt([t EXCEPT !.fulltext_indexes =
                    Put(t.fulltext_indexes, name, [column |-> c, map |-> EmptyMap])],
                 options)
    ELSE Failed(t)
=============================================================================
