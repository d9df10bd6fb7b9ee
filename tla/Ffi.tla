-------------------------------- MODULE Ffi --------------------------------
(***************************************************************************)
(* ffi.rs: the C interface.  Every object that crosses it is a handle, an  *)
(* allocation of Rust's that the caller must free once.                    *)
(*                                                                         *)
(* heap maps the live handles to the objects behind them; an address that  *)
(* was freed is handed out again.  A pool and its connections share the    *)
(* pool's inner state, which lives as long as one of them.  The caller has *)
(* a pointer variable, out, that it passes to every call and reads as the  *)
(* comments say: on status Ok what out points to is his unless it is null; *)
(* an error string is his if he asked for it.  owned is what he believes   *)
(* he must free, and as what.  One rule he does not keep: he goes on with  *)
(* connections after fsql_pool_free, which its comment forbids and the     *)
(* shared inner state allows.                                              *)
(***************************************************************************)
EXTENDS StatementCache, FiniteSetsExt

CONSTANTS Texts,        \* the SQL texts callers execute
          MaxHandles,   \* bound: handles alive at a time
          MaxRows       \* bound: rows of a result

ASSUME FfiAssumption == MaxHandles \in Nat /\ MaxRows \in Nat

\* A text is its place in the order of keys and its tail of blanks and semicolons.
ASSUME TextsAssumption == \A sql \in Texts : sql[1] \in Nat /\ sql[2] \in Seq({" ", ";"})

VARIABLES heap, inner, out, owned
vars == <<heap, inner, out, owned>>

NULL == 0
InvalidText == <<0, <<>> >>     \* a null pointer, or bytes that are not UTF-8
Handles == 1..MaxHandles
Fresh == Min(Handles \ DOMAIN heap)
Put(f, k, v) == [x \in DOMAIN f \cup {k} |-> IF x = k THEN v ELSE f[x]]
Without(f, k) == [x \in DOMAIN f \ {k} |-> f[x]]

Of(kind) == {h \in DOMAIN heap : heap[h].kind = kind}
Args(kind) == {h \in DOMAIN owned : owned[h] = kind} \cup {NULL}
Database == [kind |-> "Database", cache |-> NoStatements]
Pool(p) == [kind |-> "Pool", inner |-> p]
Connection(p) == [kind |-> "Connection", inner |-> p, cache |-> NoStatements]
String == [kind |-> "String"]
Vector == [kind |-> "Vector"]
Value(v) == [kind |-> "Value", value |-> v]
Result(rows) == [kind |-> "Result", rows |-> rows]

\* The columns of a row, in order: a value that is copied out as a string, one
\* as a vector, one as a scalar.
Row == <<"Text", "Vector", "Integer">>
Users(p) == {h \in DOMAIN heap : heap[h].kind \in {"Pool", "Connection"} /\ heap[h].inner = p}

Init ==
    /\ heap = [h \in {} |-> String] /\ inner = [p \in {} |-> 0]
    /\ out = NULL
    /\ owned = [h \in {} |-> ""]

-----------------------------------------------------------------------------
(* How a call ends.  h is the heap that the work of the call left. *)

Room == Cardinality(DOMAIN heap) < MaxHandles

\* set_error: a string for the caller, if he gave a place for it.
Fails(code, h, wants) ==
    /\ wants => Room
    /\ heap' = IF wants THEN Put(h, Fresh, String) ELSE h
    /\ owned' = IF wants THEN Put(owned, Fresh, "String") ELSE owned
    /\ UNCHANGED out

\* The caller's side of status Ok: what out points to is his.
Takes(kind) == owned' = IF out' = NULL THEN owned ELSE Put(owned, out', kind)

\* Box::into_raw into *out.
Hands(object, h) ==
    Room /\ heap' = Put(h, Fresh, object) /\ out' = Fresh /\ Takes(object.kind)

\* (mutant) *out is left as it was.
HandsNothing(kind) == UNCHANGED <<heap, out>> /\ Takes(kind)

\* *out = null: the caller finds that there is nothing.
HandsNull(kind) == out' = NULL /\ UNCHANGED heap /\ Takes(kind)

\* The early returns, in their order: a null handle, an SQL text or path that
\* is null or not UTF-8, a null out.
Refused(handle, textOk, hasOut) ==
    IF handle = NULL THEN "NullPointer"
    ELSE IF ~textOk THEN "InvalidUtf8"
    ELSE IF ~hasOut THEN "NullPointer" ELSE "Ok"
NoHandle == 1        \* for calls without a handle
NoText == TRUE       \* for calls without a text

-----------------------------------------------------------------------------
(* Databases and pools *)

\* fsql_db_memory_new cannot fail.
fsql_db_memory_new(hasOut, wants) ==
    /\ IF hasOut THEN Hands(Database, heap) ELSE Fails("NullPointer", heap, wants)
    /\ UNCHANGED inner

\* A file may fail to open.
fsql_db_open(pathOk, hasOut, wants) ==
    /\ LET refused == Refused(NoHandle, pathOk, hasOut)
       IN \/ refused # "Ok" /\ Fails(refused, heap, wants)
          \/ refused = "Ok" /\ Hands(Database, heap)
          \/ refused = "Ok" /\ Fails("Error", heap, wants)
    /\ UNCHANGED inner

\* A pool of size 0 is an error.
NewPool(size, wants) ==
    LET p == Min(Handles \ DOMAIN inner)
    IN IF size = 0 THEN Fails("Error", heap, wants) /\ UNCHANGED inner
       ELSE /\ Hands(Pool(p), heap)
            /\ inner' = Put(inner, p, [permits |-> size, size |-> size])

fsql_pool_memory_new(size, hasOut, wants) ==
    IF hasOut THEN NewPool(size, wants)
    ELSE Fails("NullPointer", heap, wants) /\ UNCHANGED inner

fsql_pool_open(pathOk, size, hasOut, wants) ==
    LET refused == Refused(NoHandle, pathOk, hasOut)
    IN \/ refused # "Ok" /\ Fails(refused, heap, wants) /\ UNCHANGED inner
       \/ refused = "Ok" /\ NewPool(size, wants)
       \/ refused = "Ok" /\ Fails("Error", heap, wants) /\ UNCHANGED inner

TakePermit(p) == inner' = [inner EXCEPT ![p].permits = @ - 1]

\* A panic does not leave an extern "C" function, so no C caller meets a
\* poisoned pool.  fsql_pool_get blocks while there is no permit: the call is not over.
fsql_pool_get(pool, hasOut, wants) ==
    LET refused == Refused(pool, NoText, hasOut)
    IN IF refused # "Ok" THEN Fails(refused, heap, wants) /\ UNCHANGED inner
       ELSE /\ inner[heap[pool].inner].permits > 0
            /\ Hands(Connection(heap[pool].inner), heap)
            /\ TakePermit(heap[pool].inner)

fsql_pool_try_get(pool, hasOut, wants) ==
    LET refused == Refused(pool, NoText, hasOut)
    IN IF refused # "Ok" THEN Fails(refused, heap, wants) /\ UNCHANGED inner
       ELSE IF inner[heap[pool].inner].permits = 0
       THEN HandsNull("Connection") /\ UNCHANGED inner
       ELSE /\ Hands(Connection(heap[pool].inner), heap)
            /\ TakePermit(heap[pool].inner)

-----------------------------------------------------------------------------
(* Statements.  The interface passes on what execute returns: some rows or  *)
(* an error, of the parser or of anything after it.                         *)

Executes(h, sql, wants) ==
    LET parsed == parse(heap[h].cache, sql)
        cached == [heap EXCEPT ![h].cache = parsed.cache]
    IN /\ \/ /\ parsed.statement # SyntaxError
             /\ \E n \in 0..MaxRows : Hands(Result([i \in 1..n |-> Row]), cached)
          \/ Fails("Error", cached, wants)
       /\ UNCHANGED inner

fsql_db_execute(database, sql, hasOut, wants) ==
    LET refused == Refused(database, sql # InvalidText, hasOut)
    IN IF refused = "Ok" THEN Executes(database, sql, wants)
       ELSE Fails(refused, heap, wants) /\ UNCHANGED inner

fsql_connection_execute(connection, sql, hasOut, wants) ==
    LET refused == Refused(connection, sql # InvalidText, hasOut)
    IN IF refused = "Ok" THEN Executes(connection, sql, wants)
       ELSE Fails(refused, heap, wants) /\ UNCHANGED inner

-----------------------------------------------------------------------------
(* Results and values.  These calls have no error_out.  Those that only     *)
(* read a number, a tag or a pointer into the object change nothing here.   *)

Hand(object, code) ==
    IF code = "Ok" THEN Hands(object, heap) ELSE Fails(code, heap, FALSE)

\* fsql_result_message
fsql_result_message(h, hasOut) == Hand(String, Refused(h, NoText, hasOut)) /\ UNCHANGED inner

\* rows.get(row_index) and entries.get(column_index)
Bounded(rows, r, c) == r <= Len(rows) /\ c <= Len(rows[r])
AtCell(h, r, c, hasOut) ==
    LET refused == Refused(h, NoText, hasOut)
    IN IF refused # "Ok" THEN refused
       ELSE IF Bounded(heap[h].rows, r, c) THEN "Ok" ELSE "OutOfBounds"

fsql_result_column_name(h, r, c, hasOut) ==
    Hand(String, AtCell(h, r, c, hasOut)) /\ UNCHANGED inner

fsql_result_value_at(h, r, c, hasOut) ==
    LET code == AtCell(h, r, c, hasOut)
    IN Hand(Value(IF code = "Ok" THEN heap[h].rows[r][c] ELSE "Null"), code) /\ UNCHANGED inner

\* The typed getters; text and vector are copied into a new handle.
Typed(kind, h, hasOut) ==
    LET refused == Refused(h, NoText, hasOut)
    IN IF refused # "Ok" THEN refused ELSE IF heap[h].value = kind THEN "Ok" ELSE "WrongType"

fsql_value_get_text(h, hasOut) == Hand(String, Typed("Text", h, hasOut)) /\ UNCHANGED inner
fsql_value_get_vector(h, hasOut) == Hand(Vector, Typed("Vector", h, hasOut)) /\ UNCHANGED inner

-----------------------------------------------------------------------------
(* fsql_*_free: the object is dropped. *)

Drop(h) ==
    /\ heap' = Without(heap, h)
    /\ owned' = Without(owned, h)
    /\ UNCHANGED out

\* (mutant) The inner state goes with the pool handle.
ReleaseAlways(p, h) == inner' = Without(inner, p)

\* The last of its users takes the inner state along (Arc).
Release(p, h) ==
    inner' = IF Users(p) = {h} THEN Without(inner, p) ELSE inner

fsql_pool_free(h) == Drop(h) /\ Release(heap[h].inner, h)

\* (mutant) The permit comes back twice, on free and on drop.
ReturnedTwice(p) == [inner EXCEPT ![p].permits = @ + 2]

Returned(p) == [inner EXCEPT ![p].permits = @ + 1]

\* A connection returns its permit, to a pool without a handle too.
fsql_connection_free(h) ==
    LET p == heap[h].inner
    IN /\ Drop(h)
       /\ inner' = IF Users(p) = {h} THEN Without(inner, p) ELSE Returned(p)

\* The other kinds share nothing.
fsql_db_free(h) == Drop(h) /\ UNCHANGED inner
fsql_result_free(h) == Drop(h) /\ UNCHANGED inner
fsql_value_free(h) == Drop(h) /\ UNCHANGED inner
fsql_vector_free(h) == Drop(h) /\ UNCHANGED inner
fsql_string_free(h) == Drop(h) /\ UNCHANGED inner

-----------------------------------------------------------------------------

Free ==
    \E h \in DOMAIN owned :
        CASE owned[h] = "Pool" -> fsql_pool_free(h)
          [] owned[h] = "Connection" -> fsql_connection_free(h)
          [] owned[h] = "Database" -> fsql_db_free(h)
          [] owned[h] = "Result" -> fsql_result_free(h)
          [] owned[h] = "Value" -> fsql_value_free(h)
          [] owned[h] = "Vector" -> fsql_vector_free(h)
          [] owned[h] = "String" -> fsql_string_free(h)

Next ==
    \/ \E hasOut, wants \in BOOLEAN :
          \/ fsql_db_memory_new(hasOut, wants)
          \/ \E pathOk \in BOOLEAN : fsql_db_open(pathOk, hasOut, wants)
          \/ \E size \in 0..2 :
                \/ fsql_pool_memory_new(size, hasOut, wants)
                \/ \E pathOk \in BOOLEAN : fsql_pool_open(pathOk, size, hasOut, wants)
          \/ \E h \in Args("Pool") :
                fsql_pool_get(h, hasOut, wants) \/ fsql_pool_try_get(h, hasOut, wants)
          \/ \E sql \in Texts \cup {InvalidText} :
                \/ \E h \in Args("Database") : fsql_db_execute(h, sql, hasOut, wants)
                \/ \E h \in Args("Connection") : fsql_connection_execute(h, sql, hasOut, wants)
    \/ \E hasOut \in BOOLEAN :
          \/ \E h \in Args("Result") :
                \/ fsql_result_message(h, hasOut)
                \/ \E r \in 1..(MaxRows + 1), c \in 1..(Len(Row) + 1) :
                      fsql_result_column_name(h, r, c, hasOut) \/ fsql_result_value_at(h, r, c, hasOut)
          \/ \E h \in Args("Value") :
                fsql_value_get_text(h, hasOut) \/ fsql_value_get_vector(h, hasOut)
    \/ Free

Spec == Init /\ [][Next]_vars

-----------------------------------------------------------------------------
(* Properties *)

\* The caller's pointers are null or addresses, a handle is of a known kind,
\* and no pool has more permits than connections it may have out.
TypeOK ==
    /\ DOMAIN heap \subseteq Handles
    /\ out \in Handles \cup {NULL}
    /\ \A p \in DOMAIN inner : inner[p].permits \in 0..inner[p].size

\* A caller who frees every handle once knows every live handle, and its
\* kind: nothing leaks, on error paths either, and no pointer that he takes
\* for a handle, to use or to free, is stale, although addresses come back
\* and out keeps the pointer of an earlier call.
OwnedIsLive == owned = [h \in DOMAIN heap |-> heap[h].kind]

\* A pool's inner state lives exactly as long as its handle or a connection
\* of it, in whatever order they are freed, and the permits it has left and
\* the live connections add up to its size: a connection may be used after
\* fsql_pool_free.
InnerShared ==
    /\ DOMAIN inner = {heap[h].inner : h \in Of("Pool") \cup Of("Connection")}
    /\ \A p \in DOMAIN inner :
          inner[p].permits + Cardinality(Users(p) \cap Of("Connection")) = inner[p].size

\* A statement from the cache is the one the parser would make of the text:
\* the key loses nothing the parser looks at.  And the cache stays bounded.
CacheTransparent ==
    \A h \in Of("Database") \cup Of("Connection") :
        /\ Cardinality(DOMAIN heap[h].cache) <= Capacity
        /\ \A k \in DOMAIN heap[h].cache : heap[h].cache[k] = Parsed[k]
=============================================================================
