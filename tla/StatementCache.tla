-------------------------- MODULE StatementCache --------------------------
(***************************************************************************)
(* engine.rs' parsed-statement cache, the database's (parse_with_cache)    *)
(* and a connection's (ParsedStatementCache): a map from trimmed SQL text  *)
(* to parsed statement, of bounded size.                                   *)
(*                                                                         *)
(* An SQL text is <<n, tail>>: the n-th text in the order of the cache's   *)
(* keys, and the blanks and semicolons that follow it.                     *)
(***************************************************************************)
EXTENDS Integers, Sequences, FiniteSets

CONSTANTS Parsed,     \* trimmed text -> the statement it is, or SyntaxError
          Capacity    \* cache_capacity

ASSUME CacheAssumption == Capacity \in Nat

SyntaxError == "SyntaxError"
NoStatements == [k \in {} |-> SyntaxError]

\* trim_end and trim_end_matches: the tail without its last run of blanks, or
\* of semicolons.
TrimEnd(tail, char) ==
    LET kept == {n \in 0..Len(tail) : \A i \in (n + 1)..Len(tail) : tail[i] = char}
    IN SubSeq(tail, 1, CHOOSE n \in kept : \A m \in kept : n <= m)

\* (mutant) Every blank and semicolon goes.
trim_all(sql) == <<sql[1], <<>> >>

\* sql.trim().trim_end_matches(';').trim()
trim(sql) == <<sql[1], TrimEnd(TrimEnd(TrimEnd(sql[2], " "), ";"), " ")>>

\* parse_sql_with_dialect trims in the same way, for itself; a semicolon that
\* is left (of "x; ;") is part of what it reads.
parse_sql(sql) == Parsed[<<sql[1], TrimEnd(TrimEnd(TrimEnd(sql[2], " "), ";"), " ")>>]

first_key(cache) ==
    CHOOSE k \in DOMAIN cache :
        \A j \in DOMAIN cache : k[1] < j[1] \/ (k[1] = j[1] /\ Len(k[2]) <= Len(j[2]))

\* Room for one more: the smallest key goes when the cache is full.
Evict(cache) ==
    IF Cardinality(DOMAIN cache) >= Capacity /\ DOMAIN cache # {}
    THEN [k \in DOMAIN cache \ {first_key(cache)} |-> cache[k]]
    ELSE cache

\* parse: the statement, and the cache it leaves.  An error is not cached.
parse(cache, sql) ==
    IF Capacity = 0 THEN [statement |-> parse_sql(sql), cache |-> cache]
    ELSE IF trim(sql) \in DOMAIN cache THEN [statement |-> cache[trim(sql)], cache |-> cache]
    ELSE LET statement == parse_sql(sql)
             room == Evict(cache)
         IN [statement |-> statement,
             cache |-> IF statement = SyntaxError THEN cache
                       ELSE [k \in DOMAIN room \cup {trim(sql)} |->
                                IF k = trim(sql) THEN statement ELSE room[k]]]
=============================================================================
