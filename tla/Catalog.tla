------------------------------ MODULE Catalog ------------------------------
(***************************************************************************)
(* storage/catalog.rs and engine.rs' execute_statement_with_options: a     *)
(* catalog is a function from table names to tables, a statement a record  *)
(* whose field op names its Statement variant.  execute returns [ok,       *)
(* catalog].  encode and decode are the database file's format: it keeps   *)
(* columns, index definitions and rows, and neither next_row_id nor any    *)
(* index map.                                                              *)
(***************************************************************************)
EXTENDS Scoring

EmptyCatalog == EmptyMap

mutates_catalog(s) ==
    s.op \in {"CreateTable", "CreateIndex", "Insert", "Update", "Delete"}
is_ddl_statement(s) == s.op \in {"CreateTable", "CreateIndex"}
transaction_control(s) == s.op \in {"Begin", "Commit", "Rollback"}
commits(s) == s.op = "Commit"

\* What the parser builds: literal values, one for each assigned column.
IsStatement(s) ==
    /\ s.op = "CreateTable" => IsVec(s.columns)
    /\ s.op \in {"Insert", "Update"} =>
           IsVec(s.values) /\ \A i \in DOMAIN s.values : IsValue(s.values[i])
    /\ s.op = "Insert" => s.columns = <<>> \/ IsVec(s.columns[1])
    /\ s.op = "Update" => DOMAIN s.target = DOMAIN s.values
    /\ s.op \in {"Update", "Delete", "Select"} =>
           s.filter[1] \in FilterKinds /\ (s.filter[1] = "Equals" => IsValue(s.filter[3]))
    /\ s.op = "Select" => /\ s.order = <<>> \/ s.order[1].target \in Vectors
                          /\ s.limit = <<>> \/ s.limit[1] \in Nat

\* The table method a statement calls.
OnTable(t, s, options) ==
    CASE s.op = "CreateIndex" -> IF s.fulltext
                                 THEN create_fulltext_index(t, s.name, s.column, options)
                                 ELSE create_index(t, s.name, s.column)
      [] s.op = "Insert" -> Insert(t, s.columns, s.values, options)
      [] s.op = "Update" -> Update(t, s.target, s.values, s.filter, options)
      [] s.op = "Delete" -> Delete(t, s.filter, options)
      [] s.op = "Select" -> [ok |-> select(t, s, options).ok, table |-> t]

execute_statement(catalog, s, options) ==
    CASE s.op = "CreateTable" ->
            IF s.table \notin DOMAIN catalog /\ ValidColumns(s.columns)
            THEN [ok |-> TRUE, catalog |-> Put(catalog, s.table, NewTable(s.columns))]
            ELSE [ok |-> FALSE, catalog |-> catalog]
      [] s.op \in {"CreateIndex", "Insert", "Update", "Delete", "Select"} ->
            IF s.table \in DOMAIN catalog
            THEN LET result == OnTable(catalog[s.table], s, options)
                 IN [ok |-> result.ok, catalog |-> Put(catalog, s.table, result.table)]
            ELSE [ok |-> FALSE, catalog |-> catalog]
      [] OTHER ->     \* ParsedOnly, and statements of the transaction manager
            [ok |-> FALSE, catalog |-> catalog]

-----------------------------------------------------------------------------
(* The file.  encode_value writes what index_key writes: tag and bits. *)

encode_value(v) == index_key(v)
decode_value(e) ==
    IF e = <<"N">> THEN Null
    ELSE <<CHOOSE kind \in DOMAIN Tag : Tag[kind] = e[1], e[2]>>

\* Index definitions go to the file and come back; the maps do not.
indexes_for_encoding(indexes) == [n \in DOMAIN indexes |-> indexes[n].column]
persisted_indexes(e) == [n \in DOMAIN e |-> [column |-> e[n], map |-> EmptyMap]]

encode_table(t) ==
    [columns |-> t.columns,
     indexes |-> indexes_for_encoding(t.indexes),
     fulltext_indexes |-> indexes_for_encoding(t.fulltext_indexes),
     rows |-> [r \in DOMAIN t.rows |->
                  [c \in DOMAIN t.rows[r] |-> encode_value(t.rows[r][c])]]]

encode(catalog) == [n \in DOMAIN catalog |-> encode_table(catalog[n])]

\* A file as encode writes it: index definitions name columns, every row has
\* every column, values are finite.  decode_with_options requires a consistent
\* file and checks little of it.
IsEncoded(e) ==
    LET v == decode_value(e) IN IsValue(v) /\ Indexable(v) /\ encode_value(v) = e
WrittenTable(e) ==
    LET names == ColumnNames(e)
    IN /\ e = [columns |-> e.columns, indexes |-> e.indexes,
               fulltext_indexes |-> e.fulltext_indexes, rows |-> e.rows]
       /\ IsVec(e.columns)
       /\ e.indexes \in [DOMAIN e.indexes -> names]
       /\ e.fulltext_indexes \in [DOMAIN e.fulltext_indexes -> names]
       /\ IsFiniteSet(DOMAIN e.rows) /\ DOMAIN e.rows \subseteq Nat
       /\ e.rows = [r \in DOMAIN e.rows |-> [c \in names |-> e.rows[r][c]]]
       /\ \A r \in DOMAIN e.rows : \A c \in names : IsEncoded(e.rows[r][c])
Written(file) ==
    file = [n \in DOMAIN file |-> file[n]] /\ \A n \in DOMAIN file : WrittenTable(file[n])

\* One TABLE block up to its ENDTABLE, before the rebuild.
parse_table(e) ==
    [columns |-> e.columns,
     rows |-> [r \in DOMAIN e.rows |-> [c \in DOMAIN e.rows[r] |-> decode_value(e.rows[r][c])]],
     next_row_id |-> Max({1} \cup {r + 1 : r \in DOMAIN e.rows}),
     primary_key |-> primary_key_column(e.columns),
     primary |-> EmptyMap,
     indexes |-> persisted_indexes(e.indexes),
     fulltext_indexes |-> persisted_indexes(e.fulltext_indexes)]

decode_with_options(file, options) ==
    LET result == [n \in DOMAIN file |-> Rebuilt(parse_table(file[n]), options)]
    IN [ok |-> \A n \in DOMAIN file : result[n].ok,
        catalog |-> [n \in DOMAIN file |-> result[n].table]]
=============================================================================
