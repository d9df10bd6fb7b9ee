--------------------------- MODULE CatalogProofs ---------------------------
(***************************************************************************)
(* Lemmas about the operators of Table and Catalog, for every table,       *)
(* statement and option: what a table operation keeps (Sound), what it     *)
(* does to next_row_id, and that a filter only finds rows that exist.      *)
(***************************************************************************)
EXTENDS Catalog, FiniteSetTheorems, TLAPS

Fields == {"columns", "rows", "next_row_id", "primary_key", "primary",
           "indexes", "fulltext_indexes"}

\* The row ids lie below next_row_id, and no index map has an id without a row.
RowIds(t) == t.next_row_id \in Nat /\ DOMAIN t.rows \subseteq 0..(t.next_row_id - 1)
MapIds(t) ==
    /\ \A k \in DOMAIN t.primary : t.primary[k] \in DOMAIN t.rows
    /\ \A i \in DOMAIN t.indexes : \A k \in DOMAIN t.indexes[i].map :
           t.indexes[i].map[k] \subseteq DOMAIN t.rows
    /\ \A i \in DOMAIN t.fulltext_indexes : \A k \in DOMAIN t.fulltext_indexes[i].map :
           t.fulltext_indexes[i].map[k] \subseteq DOMAIN t.rows
SoundTable(t) == DOMAIN t = Fields /\ RowIds(t) /\ MapIds(t)
Sound(cat) == \A n \in DOMAIN cat : SoundTable(cat[n])

-----------------------------------------------------------------------------
(* Rebuilds and filters *)

\* A rebuild repairs whatever the maps held, and touches nothing else.
LEMMA RebuildSound ==
    ASSUME NEW t, DOMAIN t = Fields, RowIds(t), NEW options
    PROVE  /\ SoundTable(rebuild_indexes(t, options))
           /\ rebuild_indexes(t, options).rows = t.rows
           /\ rebuild_indexes(t, options).next_row_id = t.next_row_id
<1> DEFINE u == rebuild_indexes(t, options)
<1>1. /\ DOMAIN u = Fields /\ u.rows = t.rows /\ u.next_row_id = t.next_row_id
      /\ u.primary = PrimaryMap(t)
      /\ u.indexes = [n \in DOMAIN t.indexes |->
            [column |-> t.indexes[n].column, map |-> IndexMap(t, t.indexes[n].column)]]
      /\ u.fulltext_indexes = [n \in DOMAIN t.fulltext_indexes |->
            [column |-> t.fulltext_indexes[n].column,
             map |-> FullTextMap(t, t.fulltext_indexes[n].column, options.fulltext_tokenizer)]]
  BY DEF rebuild_indexes, Fields
<1> HIDE DEF u
<1>2. \A k \in DOMAIN PrimaryMap(t) : PrimaryMap(t)[k] \in DOMAIN t.rows
  BY DEF PrimaryMap, EmptyMap
<1>3. \A c : \A k \in DOMAIN IndexMap(t, c) : IndexMap(t, c)[k] \subseteq DOMAIN t.rows
  BY DEF IndexMap
<1>4. \A c, tokenizer : \A k \in DOMAIN FullTextMap(t, c, tokenizer) :
          FullTextMap(t, c, tokenizer)[k] \subseteq DOMAIN t.rows
  BY DEF FullTextMap
<1>5. MapIds(u)
  BY <1>1, <1>2, <1>3, <1>4 DEF MapIds
<1>6. RowIds(u)
  BY <1>1 DEF RowIds
<1> QED
  BY <1>1, <1>5, <1>6 DEF SoundTable, u

\* Skipping row ids (a reserved id) keeps a table sound.
LEMMA SkipSound ==
    ASSUME NEW t, SoundTable(t), NEW m \in Nat, t.next_row_id <= m
    PROVE  LET u == [t EXCEPT !.next_row_id = m]
           IN SoundTable(u) /\ u.next_row_id = m /\ u.rows = t.rows
<1> DEFINE u == [t EXCEPT !.next_row_id = m]
<1>1. /\ DOMAIN u = Fields /\ u.next_row_id = m /\ u.rows = t.rows /\ u.primary = t.primary
      /\ u.indexes = t.indexes /\ u.fulltext_indexes = t.fulltext_indexes
  BY DEF SoundTable, Fields
<1> HIDE DEF u
<1>2. MapIds(u)
  BY <1>1 DEF SoundTable, MapIds
<1>3. RowIds(u)
  <2>1. t.next_row_id \in Nat /\ DOMAIN t.rows \subseteq 0..(t.next_row_id - 1)
    BY DEF SoundTable, RowIds
  <2>2. 0..(t.next_row_id - 1) \subseteq 0..(m - 1)
    BY <2>1
  <2> QED
    BY <1>1, <2>1, <2>2 DEF RowIds
<1> QED
  BY <1>1, <1>2, <1>3 DEF SoundTable, u

\* Whatever map a filter is answered from, it finds rows that exist.
LEMMA MatchingRows ==
    ASSUME NEW t, SoundTable(t), NEW f, f[1] \in FilterKinds, NEW options
    PROVE  matching_row_ids(t, f, options) \subseteq DOMAIN t.rows
<1> USE DEF SoundTable, MapIds
<1>1. CASE f[1] = "None"
  BY <1>1 DEF matching_row_ids
<1>2. CASE f[1] = "GeoWithin"
  BY <1>2 DEF matching_row_ids
<1>3. CASE f[1] = "Equals"
  <2>1. ASSUME NEW c, NEW v PROVE match_equals(t, c, v) \subseteq DOMAIN t.rows
    BY DEF match_equals, Lookup
  <2> QED
    BY <1>3, <2>1 DEF matching_row_ids
<1>4. CASE f[1] = "FullText"
  <2>1. ASSUME NEW c, NEW query PROVE match_fulltext(t, c, query, options) \subseteq DOMAIN t.rows
    BY DEF match_fulltext, Lookup
  <2> QED
    BY <1>4, <2>1 DEF matching_row_ids
<1> QED
  BY <1>1, <1>2, <1>3, <1>4 DEF FilterKinds

-----------------------------------------------------------------------------
(* Table operations.  Each leaves a sound table; only an INSERT moves      *)
(* next_row_id, by one, and only it adds a row, at the old next_row_id.    *)

Steps(t, u, insert) ==
    /\ SoundTable(u)
    /\ u.next_row_id = t.next_row_id \/ (insert /\ u.next_row_id = t.next_row_id + 1)
    /\ DOMAIN u.rows \subseteq DOMAIN t.rows \cup (IF insert THEN {t.next_row_id} ELSE {})

\* A failed operation leaves the table, so it takes a sound table to a sound one.
LEMMA FailedSteps ==
    ASSUME NEW t, SoundTable(t), NEW insert \in BOOLEAN
    PROVE  Steps(t, Failed(t).table, insert)
BY DEF Failed, Steps

\* A rebuild of a table with other rows, other definitions or both.
LEMMA RebuiltSteps ==
    ASSUME NEW t, NEW u, DOMAIN u = Fields, RowIds(u), NEW options, NEW insert \in BOOLEAN,
           u.next_row_id = t.next_row_id \/ (insert /\ u.next_row_id = t.next_row_id + 1),
           DOMAIN u.rows \subseteq DOMAIN t.rows \cup (IF insert THEN {t.next_row_id} ELSE {})
    PROVE  Steps(t, Rebuilt(u, options).table, insert)
<1>1. Rebuilt(u, options).table = rebuild_indexes(u, options)
  BY DEF Rebuilt
<1> QED
  BY <1>1, RebuildSound DEF Steps

\* INSERT (insert_with_options) keeps a sound table sound and hands out next_row_id only.
LEMMA InsertSteps ==
    ASSUME NEW t, SoundTable(t), NEW columns, NEW values, NEW options
    PROVE  Steps(t, Insert(t, columns, values, options).table, TRUE)
<1>1. ASSUME NEW row PROVE Steps(t, Rebuilt(AddRow(t, row), options).table, TRUE)
  <2> DEFINE u == AddRow(t, row)
  <2>1. /\ DOMAIN u = Fields /\ u.next_row_id = t.next_row_id + 1
        /\ DOMAIN u.rows = DOMAIN t.rows \cup {t.next_row_id}
    BY DEF AddRow, Put, SoundTable, Fields
  <2> HIDE DEF u
  <2>2. RowIds(u)
    BY <2>1 DEF SoundTable, RowIds
  <2>3. Steps(t, Rebuilt(u, options).table, TRUE)
    BY <2>1, <2>2, RebuiltSteps
  <2> QED
    BY <2>3 DEF u
<1>2. Steps(t, Failed(t).table, TRUE)
  BY FailedSteps
<1> QED
  BY <1>1, <1>2 DEF Insert

\* UPDATE (update_with_options) keeps the row ids, whether it succeeds or is undone.
LEMMA UpdateSteps ==
    ASSUME NEW t, SoundTable(t), NEW target, NEW values, NEW f, NEW options
    PROVE  Steps(t, Update(t, target, values, f, options).table, FALSE)
<1>1. ASSUME NEW u, DOMAIN u = Fields, DOMAIN u.rows = DOMAIN t.rows,
             u.next_row_id = t.next_row_id
      PROVE  Steps(t, rebuild_indexes(u, options), FALSE)
  BY <1>1, RebuildSound DEF SoundTable, RowIds, Steps
<1>2. Steps(t, Failed(t).table, FALSE)
  BY FailedSteps
<1>3. Steps(t, Failed(rebuild_indexes(t, options)).table, FALSE)
  BY <1>1 DEF SoundTable, Failed
<1> DEFINE new(ids) == [t EXCEPT !.rows = [r \in DOMAIN t.rows |->
                    IF r \in ids THEN Assign(t, t.rows[r], target, values) ELSE t.rows[r]]]
<1>4. ASSUME NEW ids PROVE Steps(t, Rebuilt(new(ids), options).table, FALSE)
  <2>1. DOMAIN new(ids) = Fields /\ DOMAIN new(ids).rows = DOMAIN t.rows
        /\ new(ids).next_row_id = t.next_row_id
    BY DEF SoundTable, Fields
  <2> HIDE DEF new
  <2> QED
    BY <1>1, <2>1 DEF Rebuilt
<1> QED
  BY <1>2, <1>3, <1>4 DEF Update

\* DELETE (delete_with_options) only takes row ids away.
LEMMA DeleteSteps ==
    ASSUME NEW t, SoundTable(t), NEW f, NEW options
    PROVE  Steps(t, Delete(t, f, options).table, FALSE)
<1>1. Steps(t, Failed(t).table, FALSE)
  BY FailedSteps
<1> DEFINE new(kept) == [t EXCEPT !.rows = [r \in kept |-> t.rows[r]]]
<1>2. ASSUME NEW kept \in SUBSET DOMAIN t.rows
      PROVE  Steps(t, Rebuilt(new(kept), options).table, FALSE)
  <2>1. /\ DOMAIN new(kept) = Fields /\ DOMAIN new(kept).rows = kept
        /\ new(kept).next_row_id = t.next_row_id
    BY DEF SoundTable, Fields
  <2> HIDE DEF new
  <2>2. RowIds(new(kept))
    BY <2>1 DEF SoundTable, RowIds
  <2> QED
    BY <2>1, <2>2, RebuiltSteps
<1> QED
  BY <1>1, <1>2 DEF Delete

\* CREATE INDEX, equality or full-text, changes neither rows nor next_row_id.
LEMMA CreateIndexSteps ==
    ASSUME NEW t, SoundTable(t), NEW name, NEW c, NEW options
    PROVE  /\ Steps(t, create_index(t, name, c).table, FALSE)
           /\ Steps(t, create_fulltext_index(t, name, c, options).table, FALSE)
<1>1. Steps(t, Failed(t).table, FALSE)
  BY FailedSteps
<1>2. ASSUME NEW field \in {"indexes", "fulltext_indexes"}, NEW m, NEW o
      PROVE  Steps(t, Rebuilt([t EXCEPT ![field] = m], o).table, FALSE)
  <2> DEFINE u == [t EXCEPT ![field] = m]
  <2>1. DOMAIN u = Fields /\ u.rows = t.rows /\ u.next_row_id = t.next_row_id
    BY DEF SoundTable, Fields
  <2> HIDE DEF u
  <2>2. RowIds(u)
    BY <2>1 DEF SoundTable, RowIds
  <2>3. Steps(t, Rebuilt(u, o).table, FALSE)
    BY <2>1, <2>2, RebuiltSteps
  <2> QED
    BY <2>3 DEF u
<1> QED
  BY <1>1, <1>2 DEF create_index, create_fulltext_index

\* Every table method a statement calls is one of the above, or SELECT.
LEMMA OnTableSteps ==
    ASSUME NEW t, SoundTable(t), NEW s, NEW options,
           s.op \in {"CreateIndex", "Insert", "Update", "Delete", "Select"}
    PROVE  Steps(t, OnTable(t, s, options).table, s.op = "Insert")
<1>1. CASE s.op = "CreateIndex"
  BY <1>1, CreateIndexSteps DEF OnTable
<1>2. CASE s.op = "Insert"
  BY <1>2, InsertSteps DEF OnTable
<1>3. CASE s.op = "Update"
  BY <1>3, UpdateSteps DEF OnTable
<1>4. CASE s.op = "Delete"
  BY <1>4, DeleteSteps DEF OnTable
<1>5. CASE s.op = "Select"
  BY <1>5 DEF OnTable, Steps
<1> QED
  BY <1>1, <1>2, <1>3, <1>4, <1>5

-----------------------------------------------------------------------------
(* Catalogs *)

\* The table that CREATE TABLE makes is sound.
LEMMA NewTableSound ==
    ASSUME NEW columns PROVE SoundTable(NewTable(columns))
BY DEF NewTable, SoundTable, Fields, RowIds, MapIds, EmptyMap

\* A statement keeps every table, and a catalog of sound tables sound.
LEMMA ExecuteSteps ==
    ASSUME NEW cat, Sound(cat), NEW s, NEW options
    PROVE  LET new == execute_statement(cat, s, options).catalog
           IN /\ Sound(new)
              /\ \A n \in DOMAIN cat : n \in DOMAIN new /\ Steps(cat[n], new[n], s.op = "Insert")
              /\ \A n \in DOMAIN cat : n # s.table => new[n] = cat[n]
              /\ s.op # "CreateTable" => DOMAIN new = DOMAIN cat
<1> DEFINE new == execute_statement(cat, s, options).catalog
<1>0. \A n \in DOMAIN cat : Steps(cat[n], cat[n], s.op = "Insert")
  BY DEF Sound, Steps
<1>1. CASE new = cat
  BY <1>0, <1>1
<1>2. CASE s.op = "CreateTable" /\ new # cat
  <2>1. s.table \notin DOMAIN cat /\ new = Put(cat, s.table, NewTable(s.columns))
    BY <1>2 DEF execute_statement
  <2> HIDE DEF new
  <2>2. Sound(new)
    BY <2>1, NewTableSound DEF Sound, Put
  <2> QED
    BY <1>0, <1>2, <2>1, <2>2 DEF Put, new
<1>3. CASE s.op # "CreateTable" /\ new # cat
  <2>1. s.op \in {"CreateIndex", "Insert", "Update", "Delete", "Select"}
    BY <1>3 DEF execute_statement
  <2>2. /\ s.table \in DOMAIN cat
        /\ new = Put(cat, s.table, OnTable(cat[s.table], s, options).table)
    BY <1>3, <2>1 DEF execute_statement
  <2> HIDE DEF new
  <2>3. Steps(cat[s.table], OnTable(cat[s.table], s, options).table, s.op = "Insert")
    BY <2>1, <2>2, OnTableSteps DEF Sound
  <2>4. DOMAIN new = DOMAIN cat
    BY <2>2 DEF Put
  <2>5. \A n \in DOMAIN cat : Steps(cat[n], new[n], s.op = "Insert")
    BY <1>0, <2>2, <2>3 DEF Put
  <2>6. Sound(new)
    BY <2>4, <2>5 DEF Sound, Steps
  <2>7. \A n \in DOMAIN cat : n # s.table => new[n] = cat[n]
    BY <2>2 DEF Put
  <2> QED
    BY <2>4, <2>5, <2>6, <2>7 DEF new
<1> QED
  BY <1>1, <1>2, <1>3

-----------------------------------------------------------------------------
(* The file *)

\* A finite set of natural numbers has a bound.  (Among the subsets without
\* one there would be a smallest; it loses nothing by losing an element.)
LEMMA FiniteBounded ==
    ASSUME NEW S, IsFiniteSet(S), S \subseteq Nat
    PROVE  \E m \in Nat : \A x \in S : x <= m
<1> DEFINE Bounded(T) == \E m \in Nat : \A x \in T : x <= m
           B == {T \in SUBSET S : ~Bounded(T)}
<1>1. SUFFICES ASSUME B # {} PROVE FALSE
  OBVIOUS
<1>2. IsWellFoundedOn(StrictSubsetOrdering(S), SUBSET S)
  BY FS_StrictSubsetOrderingWellFounded, FS_FiniteSubsetsOfFinite
<1>3. PICK T \in B : \A U \in B : ~(<<U, T>> \in StrictSubsetOrdering(S))
  <2>1. B \subseteq SUBSET S
    OBVIOUS
  <2> HIDE DEF B
  <2> QED
    BY <1>1, <1>2, <2>1, WFMin
<1>4. T # {}
  BY 0 \in Nat
<1>5. PICK x \in T : TRUE
  BY <1>4
<1>6. <<T \ {x}, T>> \in StrictSubsetOrdering(S)
  BY DEF StrictSubsetOrdering
<1>7. PICK m \in Nat : \A y \in T \ {x} : y <= m
  BY <1>3, <1>6
<1>8. x \in Nat /\ m + x \in Nat
  BY <1>5
<1>9. \A y \in T : y <= m + x
  BY <1>7, <1>8
<1>10. Bounded(T)
  BY <1>8, <1>9
<1> QED
  BY <1>10

\* A bounded, non-empty set of natural numbers has a greatest element.
LEMMA MaxOfFinite ==
    ASSUME NEW S, IsFiniteSet(S), S \subseteq Nat, S # {}
    PROVE  Max(S) \in S /\ \A x \in S : x <= Max(S)
<1>1. PICK m \in Nat : \A x \in S : x <= m
  BY FiniteBounded
<1> DEFINE D == {n \in Nat : m - n \in S}
<1>2. D \subseteq Nat /\ D # {}
  <2>1. PICK x \in S : x <= m
    BY <1>1
  <2>2. m - x \in Nat /\ m - (m - x) = x
    BY <2>1
  <2>3. m - x \in D
    BY <2>2
  <2> QED
    BY <2>3
<1>3. PICK d \in D : \A e \in D : ~(<<e, d>> \in OpToRel(<, Nat))
  <2> HIDE DEF D
  <2> QED
    BY <1>2, NatLessThanWellFounded, WFMin
<1>4. ASSUME NEW e \in D PROVE d <= e
  <2>1. d \in Nat /\ e \in Nat
    OBVIOUS
  <2>2. ~(e < d)
    BY <1>3, <2>1 DEF OpToRel
  <2> QED
    BY <2>1, <2>2
<1>5. m - d \in S /\ d \in Nat
  OBVIOUS
<1>6. ASSUME NEW y \in S PROVE m - d >= y
  <2>1. y \in Nat /\ y <= m /\ m - y \in Nat /\ m - (m - y) = y
    BY <1>1
  <2>2. m - y \in D
    BY <2>1
  <2>3. d <= m - y
    BY <1>4, <2>2
  <2> QED
    BY <1>5, <2>1, <2>3
<1>7. \E x \in S : \A y \in S : x >= y
  BY <1>5, <1>6
<1>8. Max(S) \in S /\ \A y \in S : Max(S) >= y
  BY <1>7 DEF Max
<1> QED
  BY <1>8

\* What the file must be to be read back: finitely many rows, numbered by
\* naturals (StoredFileOpens assumes it of the first file).
Readable(file) ==
    \A n \in DOMAIN file :
        IsFiniteSet(DOMAIN file[n].rows) /\ DOMAIN file[n].rows \subseteq Nat

\* Opening a file: the same tables and row ids, below the next_row_id that
\* add_persisted_row computes, and rebuilt maps.
LEMMA DecodeSound ==
    ASSUME NEW file, Readable(file), NEW options
    PROVE  LET cat == decode_with_options(file, options).catalog
           IN /\ Sound(cat) /\ DOMAIN cat = DOMAIN file
              /\ \A n \in DOMAIN file : DOMAIN cat[n].rows = DOMAIN file[n].rows
<1> DEFINE cat == decode_with_options(file, options).catalog
<1>1. /\ DOMAIN cat = DOMAIN file
      /\ \A n \in DOMAIN file : cat[n] = rebuild_indexes(parse_table(file[n]), options)
  BY DEF decode_with_options, Rebuilt
<1> HIDE DEF cat
<1>2. ASSUME NEW n \in DOMAIN file
      PROVE  SoundTable(cat[n]) /\ DOMAIN cat[n].rows = DOMAIN file[n].rows
  <2> DEFINE t == parse_table(file[n])
             R == DOMAIN file[n].rows
             S == {1} \cup {r + 1 : r \in R}
  <2>1. DOMAIN t = Fields /\ DOMAIN t.rows = R /\ t.next_row_id = Max(S)
    BY DEF parse_table, Fields
  <2>2. IsFiniteSet(R) /\ R \subseteq Nat
    BY DEF Readable
  <2> HIDE DEF t, R
  <2>3. PICK m \in Nat : \A r \in R : r <= m
    BY <2>2, FiniteBounded
  <2>4. S \subseteq Nat /\ S # {} /\ \A x \in S : x <= m + 1
    BY <2>2, <2>3
  <2>5. IsFiniteSet(S)
    <3> HIDE DEF S
    <3>1. m + 1 \in Nat
      OBVIOUS
    <3> QED
      BY <2>4, <3>1, FS_BoundedSetOfNaturals
  <2>6. Max(S) \in S /\ \A x \in S : x <= Max(S)
    <3> HIDE DEF S
    <3> QED
      BY <2>4, <2>5, MaxOfFinite
  <2>7. ASSUME NEW r \in R PROVE r \in 0..(Max(S) - 1)
    <3>1. r \in Nat /\ r + 1 \in S /\ Max(S) \in Nat
      BY <2>2, <2>4, <2>6
    <3>2. r + 1 <= Max(S)
      BY <2>6, <3>1
    <3> HIDE DEF S
    <3> QED
      BY <3>1, <3>2
  <2>8. RowIds(t)
    BY <2>1, <2>4, <2>6, <2>7 DEF RowIds
  <2>9. SoundTable(rebuild_indexes(t, options)) /\ rebuild_indexes(t, options).rows = t.rows
    BY <2>1, <2>8, RebuildSound
  <2> QED
    BY <1>1, <2>1, <2>9 DEF t, R
<1> QED
  BY <1>1, <1>2 DEF Sound, cat

\* The next_row_id that an opened file gives is no higher than any that the
\* rows it holds leave room for.
LEMMA DecodeNextId ==
    ASSUME NEW file, NEW n \in DOMAIN file, NEW m \in Nat \ {0},
           DOMAIN file[n].rows \subseteq 1..(m - 1), NEW options
    PROVE  decode_with_options(file, options).catalog[n].next_row_id \in 1..m
<1> DEFINE t == parse_table(file[n])
           S == {1} \cup {r + 1 : r \in DOMAIN file[n].rows}
<1>1. decode_with_options(file, options).catalog[n] = rebuild_indexes(t, options)
  BY DEF decode_with_options, Rebuilt
<1>2. DOMAIN t = Fields /\ t.next_row_id = Max(S)
  BY DEF parse_table, Fields
<1>3. S \subseteq 1..m /\ S # {}
  OBVIOUS
<1> HIDE DEF t, S
<1>4. rebuild_indexes(t, options).next_row_id = Max(S)
  BY <1>2 DEF rebuild_indexes, Fields
<1>5. IsFiniteSet(1..m)
  BY FS_Interval
<1>6. IsFiniteSet(S)
  BY <1>3, <1>5, FS_Subset
<1>7. S \subseteq Nat
  BY <1>3
<1>8. Max(S) \in S
  BY <1>3, <1>6, <1>7, MaxOfFinite
<1> QED
  BY <1>1, <1>3, <1>4, <1>8

\* A sound catalog is written to a file that can be read back.
LEMMA EncodeReadable ==
    ASSUME NEW cat, Sound(cat)
    PROVE  /\ Readable(encode(cat)) /\ DOMAIN encode(cat) = DOMAIN cat
           /\ \A n \in DOMAIN cat : DOMAIN encode(cat)[n].rows = DOMAIN cat[n].rows
<1>1. /\ DOMAIN encode(cat) = DOMAIN cat
      /\ \A n \in DOMAIN cat : DOMAIN encode(cat)[n].rows = DOMAIN cat[n].rows
  BY DEF encode, encode_table
<1>2. ASSUME NEW n \in DOMAIN cat
      PROVE  IsFiniteSet(DOMAIN cat[n].rows) /\ DOMAIN cat[n].rows \subseteq Nat
  <2>1. cat[n].next_row_id \in Nat /\ DOMAIN cat[n].rows \subseteq 0..(cat[n].next_row_id - 1)
    BY DEF Sound, SoundTable, RowIds
  <2>2. IsFiniteSet(0..(cat[n].next_row_id - 1))
    BY <2>1, FS_Interval
  <2> QED
    BY <2>1, <2>2, FS_Subset
<1> QED
  BY <1>1, <1>2 DEF Readable
=============================================================================
