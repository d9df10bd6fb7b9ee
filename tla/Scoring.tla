------------------------------ MODULE Scoring ------------------------------
(***************************************************************************)
(* storage/table.rs: SELECT with ORDER BY VECTOR_DISTANCE and LIMIT.  The  *)
(* rows that match are scored in chunks, one worker thread to a chunk; the *)
(* scores are joined in the order of the chunks, sorted and cut.           *)
(*                                                                         *)
(* A score is a rational <<numerator, denominator>> that orders the rows   *)
(* as the f64 of the code does, but for rounding: the square of a          *)
(* Euclidean distance, and for the cosine the square of dot / |row| with   *)
(* its sign (the target's norm is the same for all rows).  total_cmp puts  *)
(* -0.0 before 0.0; only the negated dot product can be either.            *)
(***************************************************************************)
EXTENDS Table

\* Whether f64's Sum starts at -0.0 (later releases of std) or at 0.0: with
\* -0.0 a sum of products that are all -0.0 is -0.0, with 0.0 it is 0.0.
CONSTANT NegativeZeroSum
ASSUME SumAssumption == NegativeZeroSum \in BOOLEAN

Signed(x) == IF x[1] THEN -x[2] ELSE x[2]

dot_product(left, right) ==
    MapThenSumSet(LAMBDA i : Signed(left[i]) * Signed(right[i]), DOMAIN left)

\* dot_product is -0.0: every product is zero, of factors of different sign.
NegativeZero(left, right) ==
    /\ NegativeZeroSum
    /\ \A i \in DOMAIN left : left[i][2] * right[i][2] = 0 /\ left[i][1] # right[i][1]

\* -dot_product.  The components are integers, so -1/2 is free to stand for -0.0.
Negated(dot, left, right) ==
    IF dot = 0 /\ ~NegativeZero(left, right) THEN <<-1, 2>> ELSE <<-dot, 1>>

\* VectorMetric.
Metrics == {"Euclidean", "DotProduct", "Cosine"}

\* vector_distance returns Ok.
Comparable(left, right, metric) ==
    /\ Len(left) = Len(right)
    /\ metric = "Cosine" => dot_product(left, left) # 0 /\ dot_product(right, right) # 0

vector_distance(left, right, metric) ==
    LET dot == dot_product(left, right)
        delta(i) == Signed(left[i]) - Signed(right[i])
    IN CASE metric = "Euclidean" -> <<MapThenSumSet(LAMBDA i : delta(i) * delta(i), DOMAIN left), 1>>
         [] metric = "DotProduct" -> Negated(dot, left, right)
         [] metric = "Cosine" ->
              <<IF dot < 0 THEN dot * dot ELSE -(dot * dot), dot_product(left, left)>>

\* The scores <<distance, row id>> of some rows.  Rows without a vector get
\* none; one that cannot be compared is an error.
vector_scores_chunk(t, row_ids, order, metric) ==
    LET with == {r \in row_ids : Kind(t.rows[r][order.column]) = "Vector"}
        at(r) == Datum(t.rows[r][order.column])
    IN IF \A r \in with : Comparable(at(r), order.target, metric)
       THEN [ok |-> TRUE,
             scored |-> {<<vector_distance(at(r), order.target, metric), r>> : r \in with}]
       ELSE [ok |-> FALSE, scored |-> {}]

\* The rows in the order matching_row_ids lists them.
Ascending(ids) ==
    [i \in 1..Cardinality(ids) |-> CHOOSE r \in ids : Cardinality({q \in ids : q < r}) = i - 1]

\* slice::chunks: the last one may be shorter.
chunks(s, size) ==
    {{s[i] : i \in ((k - 1) * size + 1)..Min({k * size, Len(s)})} :
        k \in 1..((Len(s) + size - 1) \div size)}

\* The scores of the chunks are joined; the sort that follows makes their
\* order irrelevant.
Joined(parts) ==
    IF \A part \in parts : part.ok
    THEN [ok |-> TRUE, scored |-> UNION {part.scored : part \in parts}]
    ELSE [ok |-> FALSE, scored |-> {}]

vector_scores(t, row_ids, order, options) ==
    LET workers == Min({options.worker_threads, Len(row_ids)})
        chunk_size == (Len(row_ids) + workers - 1) \div workers
    IN IF options.worker_threads <= 1 \/ Len(row_ids) < 2
       THEN vector_scores_chunk(t, {row_ids[i] : i \in DOMAIN row_ids}, order, options.metric)
       ELSE Joined({vector_scores_chunk(t, chunk, order, options.metric) :
                       chunk \in chunks(row_ids, chunk_size)})

Less(d, e) == d[1] * e[2] < e[1] * d[2]
\* By distance, then by row id; descending reverses both.
Before(a, b, descending) ==
    LET less(x, y) == Less(x[1], y[1]) \/ (~Less(y[1], x[1]) /\ x[2] < y[2])
    IN IF descending THEN less(b, a) ELSE less(a, b)

\* (mutant) The rows stay in the order in which the chunks were joined.
join_order(scored, descending) ==
    [i \in 1..Cardinality(scored) |->
        CHOOSE a \in scored : Cardinality({b \in scored : b[2] < a[2]}) = i - 1]

sort_by(scored, descending) ==
    [i \in 1..Cardinality(scored) |->
        CHOOSE a \in scored : Cardinality({b \in scored : Before(b, a, descending)}) = i - 1]

OrderOk(t, order, options) ==
    /\ order.column \in ColumnNames(t) /\ column(t, order.column).ty = "Vector"
    /\ options.dimensions # NoDimensions => Len(order.target) = options.dimensions

truncate(row_ids, limit) ==
    IF limit = <<>> THEN row_ids ELSE SubSeq(row_ids, 1, Min({limit[1], Len(row_ids)}))

\* select_with_options: [ok, row_ids]; order and limit are Options.
Refusal == [ok |-> FALSE, row_ids |-> <<>>]
Selected(row_ids, limit) == [ok |-> TRUE, row_ids |-> truncate(row_ids, limit)]

ScoredIds(sorted) == [i \in DOMAIN sorted |-> sorted[i][2]]
Ordered(scores, descending, limit) ==
    IF scores.ok THEN Selected(ScoredIds(sort_by(scores.scored, descending)), limit) ELSE Refusal

select(t, s, options) ==
    LET matching == Ascending(matching_row_ids(t, s.filter, options))
    IN IF ~SelectOk(t, s.projection, s.filter, options) THEN Refusal
       ELSE IF s.order = <<>> THEN Selected(matching, s.limit)
       ELSE IF ~OrderOk(t, s.order[1], options) THEN Refusal
       ELSE Ordered(vector_scores(t, matching, s.order[1], options),
                    s.order[1].descending, s.limit)
=============================================================================
