----------------------------- MODULE FfiProofs -----------------------------
(***************************************************************************)
(* The C interface, for every number of handles, texts and rows: a caller  *)
(* who frees every handle once neither leaks a handle nor uses a stale     *)
(* one, a pool's inner state lives as long as its users, and the           *)
(* statement caches are bounded and transparent.                           *)
(***************************************************************************)
EXTENDS Ffi, FiniteSetTheorems, TLAPS

-----------------------------------------------------------------------------
(* The inductive invariant *)

Chars == {" ", ";"}
IsKey(k) == k[1] \in Nat /\ k[2] \in Seq(Chars)
CacheOK(cache) ==
    /\ IsFiniteSet(DOMAIN cache) /\ Cardinality(DOMAIN cache) <= Capacity
    /\ \A k \in DOMAIN cache : IsKey(k) /\ cache[k] = Parsed[k]

\* The objects behind handles, by their kinds.
Shared == {"Pool", "Connection"}
Plain == {"String", "Vector", "Value", "Result"}
IsObject(o) ==
    \/ /\ o.kind = "Database" /\ CacheOK(o.cache)
       /\ o = [kind |-> "Database", cache |-> o.cache]
    \/ /\ o.kind = "Connection" /\ CacheOK(o.cache)
       /\ o = [kind |-> "Connection", inner |-> o.inner, cache |-> o.cache]
    \/ o.kind = "Pool" /\ o = Pool(o.inner)
    \/ o.kind \in Plain

\* A pool handle or connection, and the connections, of an inner state.
SharedHandles == {h \in DOMAIN heap : heap[h].kind \in Shared}
Connections(p) == {h \in DOMAIN heap : heap[h].kind = "Connection" /\ heap[h].inner = p}

Objects ==
    /\ DOMAIN heap \subseteq Handles /\ out \in Handles \cup {NULL}
    /\ \A h \in DOMAIN heap : IsObject(heap[h])

Inners ==
    /\ DOMAIN inner = {heap[h].inner : h \in SharedHandles}
    /\ DOMAIN inner \subseteq Handles
    /\ \A p \in DOMAIN inner :
          /\ inner[p] = [permits |-> inner[p].permits, size |-> inner[p].size]
          /\ inner[p].permits \in Nat /\ inner[p].size \in Nat
          /\ inner[p].permits + Cardinality(Connections(p)) = inner[p].size

FfiInv == Objects /\ OwnedIsLive /\ Inners

-----------------------------------------------------------------------------
(* The statement cache *)

\* A nonempty set of naturals has a smallest element.
LEMMA MinNat ==
    ASSUME NEW S, S \subseteq Nat, S # {}
    PROVE  \E x \in S : \A y \in S : x <= y
<1>1. PICK x \in S : \A y \in S : ~(<<y, x>> \in OpToRel(<, Nat))
  BY NatLessThanWellFounded, WFMin
<1>2. \A y \in S : ~(y < x)
  BY <1>1 DEF OpToRel
<1>3. QED
  BY <1>2

\* Trimming leaves a tail of blanks and semicolons.
LEMMA TrimEndType ==
    ASSUME NEW tail \in Seq(Chars), NEW char
    PROVE  TrimEnd(tail, char) \in Seq(Chars)
<1> DEFINE kept == {n \in 0..Len(tail) : \A i \in (n + 1)..Len(tail) : tail[i] = char}
<1>1. kept \subseteq Nat /\ Len(tail) \in kept
  <2>1. Len(tail) \in Nat
    OBVIOUS
  <2>2. Len(tail) \in 0..Len(tail) /\ (Len(tail) + 1)..Len(tail) = {}
    BY <2>1
  <2>3. QED
    BY <2>1, <2>2
<1>2. \E n \in kept : \A m \in kept : n <= m
  <2> HIDE DEF kept
  <2> QED
    BY <1>1, MinNat
<1>3. PICK n \in kept : TrimEnd(tail, char) = SubSeq(tail, 1, n)
  <2>1. TrimEnd(tail, char) = SubSeq(tail, 1, CHOOSE n \in kept : \A m \in kept : n <= m)
    BY DEF TrimEnd
  <2> HIDE DEF kept
  <2> QED
    BY <1>2, <2>1
<1>4. n \in 0..Len(tail)
  OBVIOUS
<1>5. SubSeq(tail, 1, n) \in Seq(Chars)
  BY <1>4
<1>6. QED
  BY <1>3, <1>5

\* The trimmed text is a key, and the key the parser reads.
LEMMA TrimKey ==
    ASSUME NEW sql \in Texts
    PROVE  IsKey(trim(sql)) /\ parse_sql(sql) = Parsed[trim(sql)]
<1>1. sql[1] \in Nat /\ sql[2] \in Seq(Chars)
  BY TextsAssumption DEF Chars
<1>2. TrimEnd(TrimEnd(TrimEnd(sql[2], " "), ";"), " ") \in Seq(Chars)
  BY <1>1, TrimEndType
<1>3. QED
  BY <1>1, <1>2 DEF IsKey, trim, parse_sql

\* The key that is evicted is one of the cache's.
LEMMA FirstKey ==
    ASSUME NEW cache, DOMAIN cache # {}, \A k \in DOMAIN cache : IsKey(k)
    PROVE  first_key(cache) \in DOMAIN cache
<1> DEFINE firsts == {k[1] : k \in DOMAIN cache}
<1>1. PICK a \in firsts : \A b \in firsts : a <= b
  <2>1. firsts \subseteq Nat /\ firsts # {}
    BY DEF IsKey
  <2> HIDE DEF firsts
  <2> QED
    BY <2>1, MinNat
<1> DEFINE lens == {Len(k[2]) : k \in {k \in DOMAIN cache : k[1] = a}}
<1>2. PICK n \in lens : \A m \in lens : n <= m
  <2>1. ASSUME NEW k \in DOMAIN cache PROVE Len(k[2]) \in Nat
    <3>1. k[2] \in Seq(Chars)
      BY DEF IsKey
    <3>2. QED
      BY <3>1
  <2>2. lens \subseteq Nat /\ lens # {}
    BY <2>1
  <2> HIDE DEF lens
  <2> QED
    BY <2>2, MinNat
<1>3. PICK k \in DOMAIN cache : k[1] = a /\ Len(k[2]) = n
  OBVIOUS
<1>4. ASSUME NEW j \in DOMAIN cache
      PROVE  k[1] < j[1] \/ (k[1] = j[1] /\ Len(k[2]) <= Len(j[2]))
  <2>1. a <= j[1] /\ j[1] \in Nat /\ a \in Nat
    BY <1>1, <1>3 DEF IsKey
  <2>2. j[1] = a => n <= Len(j[2])
    BY <1>2
  <2>3. QED
    BY <1>3, <2>1, <2>2
<1>5. QED
  BY <1>3, <1>4 DEF first_key

\* One element more.
LEMMA AddOne ==
    ASSUME NEW S, NEW x, IsFiniteSet(S)
    PROVE  /\ IsFiniteSet(S \cup {x}) /\ Cardinality(S) \in Nat
           /\ Cardinality(S \cup {x}) \in Nat /\ Cardinality(S \cup {x}) <= Cardinality(S) + 1
<1>1. IsFiniteSet(S \cup {x}) /\ Cardinality(S) \in Nat
  BY FS_AddElement, FS_CardinalityType
<1>2. Cardinality(S \cup {x}) = IF x \in S THEN Cardinality(S) ELSE Cardinality(S) + 1
  BY FS_AddElement
<1>3. QED
  BY <1>1, <1>2

\* Whatever the text, parsing leaves a bounded cache of correct entries.
LEMMA ParseCache ==
    ASSUME NEW cache, CacheOK(cache), NEW sql \in Texts
    PROVE  CacheOK(parse(cache, sql).cache)
<1> DEFINE key == trim(sql)
           room == Evict(cache)
           full == [k \in DOMAIN room \cup {key} |-> IF k = key THEN parse_sql(sql) ELSE room[k]]
<1>1. parse(cache, sql).cache = cache \/ (Capacity # 0 /\ parse(cache, sql).cache = full)
  BY DEF parse
<1>2. ASSUME Capacity # 0 PROVE CacheOK(full)
  <2>1. /\ IsFiniteSet(DOMAIN cache) /\ Cardinality(DOMAIN cache) \in Nat
        /\ Cardinality(DOMAIN cache) <= Capacity /\ Capacity \in Nat
    BY CacheAssumption, FS_CardinalityType DEF CacheOK
  <2>2. CASE Cardinality(DOMAIN cache) >= Capacity /\ DOMAIN cache # {}
    <3>1. first_key(cache) \in DOMAIN cache
      BY <2>2, FirstKey DEF CacheOK
    <3>2. /\ DOMAIN room = DOMAIN cache \ {first_key(cache)}
          /\ \A k \in DOMAIN room : room[k] = cache[k]
      BY <2>2 DEF Evict
    <3>3. IsFiniteSet(DOMAIN room) /\ Cardinality(DOMAIN room) = Cardinality(DOMAIN cache) - 1
      BY <2>1, <3>1, <3>2, FS_RemoveElement
    <3>4. /\ IsFiniteSet(DOMAIN room \cup {key})
          /\ Cardinality(DOMAIN room \cup {key}) \in Nat
          /\ Cardinality(DOMAIN room \cup {key}) <= Cardinality(DOMAIN room) + 1
      <4> HIDE DEF room, key
      <4> QED
        BY <3>3, AddOne
    <3>5. DOMAIN full = DOMAIN room \cup {key}
      OBVIOUS
    <3>6. \A k \in DOMAIN full : IsKey(k) /\ full[k] = Parsed[k]
      BY <3>2, TrimKey DEF CacheOK
    <3>7. Cardinality(DOMAIN full) <= Capacity
      <4> HIDE DEF room, key, full
      <4> QED
        BY <2>1, <3>3, <3>4, <3>5
    <3>8. QED
      BY <3>4, <3>5, <3>6, <3>7 DEF CacheOK
  <2>3. CASE ~(Cardinality(DOMAIN cache) >= Capacity /\ DOMAIN cache # {})
    <3>1. room = cache
      BY <2>3 DEF Evict
    <3>2. Cardinality(DOMAIN cache) < Capacity
      BY <1>2, <2>1, <2>3, FS_EmptySet
    <3>3. /\ IsFiniteSet(DOMAIN room \cup {key})
          /\ Cardinality(DOMAIN room \cup {key}) \in Nat
          /\ Cardinality(DOMAIN room \cup {key}) <= Cardinality(DOMAIN cache) + 1
      <4> HIDE DEF room, key
      <4> QED
        BY <2>1, <3>1, AddOne
    <3>4. DOMAIN full = DOMAIN room \cup {key}
      OBVIOUS
    <3>5. \A k \in DOMAIN full : IsKey(k) /\ full[k] = Parsed[k]
      BY <3>1, TrimKey DEF CacheOK
    <3>6. Cardinality(DOMAIN full) <= Capacity
      <4> HIDE DEF room, key, full
      <4> QED
        BY <2>1, <3>2, <3>3, <3>4
    <3>7. QED
      BY <3>3, <3>4, <3>5, <3>6 DEF CacheOK
  <2>4. QED
    BY <2>2, <2>3
<1>3. QED
  BY <1>1, <1>2

-----------------------------------------------------------------------------
(* Handles come and go *)

\* While there is room, the smallest free address is free.
LEMMA FreeAddress ==
    ASSUME NEW S, S \subseteq Handles, Cardinality(S) < MaxHandles
    PROVE  Min(Handles \ S) \in Handles /\ Min(Handles \ S) \notin S /\ IsFiniteSet(S)
<1>1. MaxHandles \in Nat /\ IsFiniteSet(Handles) /\ Cardinality(Handles) = MaxHandles
  BY FfiAssumption, FS_Interval DEF Handles
<1>2. Handles \ S # {} /\ Handles \ S \subseteq Nat
  <2>1. S # Handles
    BY <1>1
  <2>2. Handles \ S # {}
    BY <2>1
  <2>3. Handles \subseteq Nat
    BY DEF Handles
  <2>4. QED
    BY <2>2, <2>3
<1>3. Min(Handles \ S) \in Handles \ S
  BY <1>2, MinNat DEF Min
<1>4. QED
  BY <1>1, <1>3, FS_Subset

LEMMA FreshHandle ==
    ASSUME FfiInv, Room
    PROVE  Fresh \in Handles /\ Fresh \notin DOMAIN heap /\ Fresh # NULL
<1>1. Fresh \in Handles /\ Fresh \notin DOMAIN heap
  BY FreeAddress DEF FfiInv, Objects, Room, Fresh
<1>2. QED
  BY <1>1, FfiAssumption DEF Handles, NULL

\* The heap a call leaves before it ends: a cache may have changed.
Alike(h0) ==
    /\ DOMAIN h0 = DOMAIN heap
    /\ \A h \in DOMAIN heap : /\ IsObject(h0[h]) /\ h0[h].kind = heap[h].kind
                              /\ heap[h].kind \in Shared => h0[h].inner = heap[h].inner

LEMMA AlikeSelf ==
    ASSUME FfiInv
    PROVE  Alike(heap)
BY DEF FfiInv, Objects, Alike

\* The sets the invariant speaks of are those of the heap.
LEMMA Views ==
    /\ Of("Pool") \cup Of("Connection") = SharedHandles
    /\ \A p : Users(p) = {h \in SharedHandles : heap[h].inner = p}
    /\ \A p : Users(p) \cap Of("Connection") = Connections(p)
BY DEF Of, SharedHandles, Shared, Users, Connections

\* A call that hands out nothing.
LEMMA NothingHanded ==
    ASSUME FfiInv, NEW h0, Alike(h0), heap' = h0, UNCHANGED <<owned, inner>>,
           out' \in Handles \cup {NULL}
    PROVE  FfiInv'
<1>1. Objects'
  BY DEF FfiInv, Objects, Alike
<1>2. OwnedIsLive'
  BY DEF FfiInv, OwnedIsLive, Alike
<1>3. SharedHandles' = SharedHandles
  BY DEF SharedHandles, Alike
<1>4. \A p : Connections(p)' = Connections(p)
  BY DEF Connections, Alike, Shared
<1>5. Inners'
  <2>1. {heap'[h].inner : h \in SharedHandles'} = {heap[h].inner : h \in SharedHandles}
    BY <1>3 DEF Alike, SharedHandles
  <2>2. QED
    BY <1>4, <2>1 DEF FfiInv, Inners
<1>6. QED
  BY <1>1, <1>2, <1>5 DEF FfiInv

\* A new handle is an object its caller owns; the rest of the heap is as the
\* call left it.
LEMMA Handed ==
    ASSUME FfiInv, Room, NEW h0, Alike(h0), NEW o, IsObject(o),
           heap' = Put(h0, Fresh, o), owned' = Put(owned, Fresh, o.kind), out' \in {out, Fresh}
    PROVE  /\ Objects' /\ OwnedIsLive'
           /\ SharedHandles' = IF o.kind \in Shared THEN SharedHandles \cup {Fresh} ELSE SharedHandles
           /\ \A h \in SharedHandles : heap'[h].inner = heap[h].inner
           /\ heap'[Fresh] = o /\ Fresh \notin DOMAIN heap
           /\ \A p : Connections(p)' = IF o.kind = "Connection" /\ o.inner = p
                                       THEN Connections(p) \cup {Fresh} ELSE Connections(p)
<1>1. PICK f : f = Fresh
  OBVIOUS
<1>2. f \in Handles /\ f \notin DOMAIN heap
  BY <1>1, FreshHandle
<1>3. DOMAIN heap' = DOMAIN heap \cup {f} /\ heap'[f] = o /\ \A h \in DOMAIN heap : heap'[h] = h0[h]
  BY <1>1, <1>2 DEF Put, Alike
<1>4. Objects'
  BY <1>1, <1>2, <1>3 DEF FfiInv, Objects, Alike
<1>5. OwnedIsLive'
  <2>1. /\ DOMAIN owned = DOMAIN heap /\ \A h \in DOMAIN heap : owned[h] = heap[h].kind
    BY DEF FfiInv, OwnedIsLive
  <2>2. owned' = [x \in DOMAIN heap \cup {f} |-> IF x = f THEN o.kind ELSE owned[x]]
    BY <1>1, <2>1 DEF Put
  <2>3. \A h \in DOMAIN heap \cup {f} : (IF h = f THEN o.kind ELSE owned[h]) = heap'[h].kind
    BY <1>2, <1>3, <2>1 DEF Alike
  <2>4. owned' = [h \in DOMAIN heap \cup {f} |-> heap'[h].kind]
    BY <2>2, <2>3
  <2>5. QED
    BY <1>3, <2>4 DEF OwnedIsLive
<1>6. SharedHandles' = IF o.kind \in Shared THEN SharedHandles \cup {f} ELSE SharedHandles
  BY <1>2, <1>3 DEF SharedHandles, Alike
<1>7. \A h \in SharedHandles : heap'[h].inner = heap[h].inner
  BY <1>3 DEF SharedHandles, Alike
<1>8. ASSUME NEW p
      PROVE  Connections(p)' = IF o.kind = "Connection" /\ o.inner = p
                               THEN Connections(p) \cup {f} ELSE Connections(p)
  BY <1>2, <1>3 DEF Connections, Alike, Shared
<1>9. QED
  BY <1>1, <1>2, <1>3, <1>4, <1>5, <1>6, <1>7, <1>8

\* A handle that shares nothing.
LEMMA PlainHanded ==
    ASSUME FfiInv, Room, NEW h0, Alike(h0), NEW o, IsObject(o), o.kind \notin Shared,
           heap' = Put(h0, Fresh, o), owned' = Put(owned, Fresh, o.kind), out' \in {out, Fresh},
           UNCHANGED inner
    PROVE  FfiInv'
<1>1. /\ Objects' /\ OwnedIsLive' /\ SharedHandles' = SharedHandles
      /\ \A h \in SharedHandles : heap'[h].inner = heap[h].inner
      /\ \A p : Connections(p)' = Connections(p)
  BY Handed DEF Shared
<1>2. {heap'[h].inner : h \in SharedHandles'} = {heap[h].inner : h \in SharedHandles}
  BY <1>1
<1>3. Inners'
  BY <1>1, <1>2 DEF FfiInv, Inners
<1>4. QED
  BY <1>1, <1>3 DEF FfiInv

\* A call that fails hands out at most its error string.
LEMMA FailsInv ==
    ASSUME FfiInv, NEW h0, Alike(h0), NEW code, NEW wants \in BOOLEAN, Fails(code, h0, wants),
           UNCHANGED inner
    PROVE  FfiInv'
<1>1. CASE wants
  <2>1. IsObject(String) /\ String.kind = "String" /\ "String" \notin Shared
    BY DEF IsObject, String, Plain, Shared
  <2>2. QED
    BY <1>1, <2>1, PlainHanded DEF Fails
<1>2. CASE ~wants
  <2>1. heap' = h0 /\ UNCHANGED <<owned, out, inner>>
    BY <1>2 DEF Fails
  <2>2. QED
    BY <2>1, NothingHanded DEF FfiInv, Objects
<1>3. QED
  BY <1>1, <1>2

\* A call that hands out its result.
LEMMA HandsInv ==
    ASSUME FfiInv, NEW h0, Alike(h0), NEW o, IsObject(o), o.kind \notin Shared, Hands(o, h0),
           UNCHANGED inner
    PROVE  FfiInv'
<1>1. Room /\ Fresh # NULL
  BY FreshHandle DEF Hands
<1>2. heap' = Put(h0, Fresh, o) /\ out' = Fresh /\ owned' = Put(owned, Fresh, o.kind)
  BY <1>1 DEF Hands, Takes
<1>3. QED
  BY <1>1, <1>2, PlainHanded

-----------------------------------------------------------------------------
(* Pools and connections *)

\* There are no more inner states than handles, so while there is room for a
\* handle there is room for an inner state.
LEMMA InnerRoom ==
    ASSUME FfiInv, Room
    PROVE  Cardinality(DOMAIN inner) < MaxHandles /\ IsFiniteSet(DOMAIN inner)
<1>1. IsFiniteSet(DOMAIN heap)
  BY FreeAddress DEF FfiInv, Objects, Room
<1>2. IsFiniteSet(SharedHandles) /\ Cardinality(SharedHandles) <= Cardinality(DOMAIN heap)
  BY <1>1, FS_Subset DEF SharedHandles
<1> DEFINE f == [h \in SharedHandles |-> heap[h].inner]
<1>3. f \in Surjection(SharedHandles, DOMAIN inner)
  BY DEF FfiInv, Inners, Surjection
<1>4. IsFiniteSet(DOMAIN inner) /\ Cardinality(DOMAIN inner) <= Cardinality(SharedHandles)
  BY <1>2, <1>3, FS_Surjection
<1>5. /\ Cardinality(DOMAIN inner) \in Nat /\ Cardinality(SharedHandles) \in Nat
      /\ Cardinality(DOMAIN heap) \in Nat /\ MaxHandles \in Nat
  BY <1>1, <1>2, <1>4, FS_CardinalityType, FfiAssumption
<1>6. QED
  BY <1>2, <1>4, <1>5 DEF Room

\* The connections of an inner state are finitely many.
LEMMA ConnectionsFinite ==
    ASSUME FfiInv, NEW p
    PROVE  IsFiniteSet(Connections(p)) /\ Cardinality(Connections(p)) \in Nat
<1>1. IsFiniteSet(DOMAIN heap)
  <2>1. IsFiniteSet(Handles)
    BY FS_Interval, FfiAssumption DEF Handles
  <2>2. QED
    BY <2>1, FS_Subset DEF FfiInv, Objects
<1>2. QED
  BY <1>1, FS_Subset, FS_CardinalityType DEF Connections

\* A new pool has an inner state of its own, with all its permits.
LEMMA NewPoolInv ==
    ASSUME FfiInv, NEW size \in Nat, NEW wants \in BOOLEAN, NewPool(size, wants)
    PROVE  FfiInv'
<1>1. CASE size = 0
  BY <1>1, AlikeSelf, FailsInv DEF NewPool
<1>2. CASE size # 0
  <2> DEFINE q == Min(Handles \ DOMAIN inner)
  <2>1. PICK p : p = q
    OBVIOUS
  <2>2. /\ Hands(Pool(p), heap) /\ inner' = Put(inner, p, [permits |-> size, size |-> size])
        /\ Room /\ Fresh # NULL
    BY <1>2, <2>1, FreshHandle DEF NewPool, Hands
  <2>3. p \in Handles /\ p \notin DOMAIN inner
    BY <2>1, <2>2, InnerRoom, FreeAddress DEF FfiInv, Inners
  <2>4. IsObject(Pool(p)) /\ Pool(p).kind = "Pool" /\ Pool(p).inner = p
    BY DEF IsObject, Pool
  <2>5. /\ heap' = Put(heap, Fresh, Pool(p)) /\ out' = Fresh
        /\ owned' = Put(owned, Fresh, Pool(p).kind)
    BY <2>2 DEF Hands, Takes
  <2>6. /\ Objects' /\ OwnedIsLive' /\ SharedHandles' = SharedHandles \cup {Fresh}
        /\ \A h \in SharedHandles : heap'[h].inner = heap[h].inner
        /\ heap'[Fresh] = Pool(p) /\ Fresh \notin DOMAIN heap
        /\ \A r : Connections(r)' = Connections(r)
    BY <2>2, <2>4, <2>5, AlikeSelf, Handed DEF Shared
  <2>7. /\ DOMAIN inner' = DOMAIN inner \cup {p}
        /\ inner'[p] = [permits |-> size, size |-> size]
        /\ \A r \in DOMAIN inner : inner'[r] = inner[r]
    BY <2>2, <2>3 DEF Put
  <2>8. DOMAIN inner' = {heap'[h].inner : h \in SharedHandles'}
    BY <2>4, <2>6, <2>7 DEF FfiInv, Inners
  <2>9. Connections(p) = {}
    BY <2>3 DEF FfiInv, Inners, Connections, SharedHandles, Shared
  <2>10. Cardinality(Connections(p)') = 0
    BY <2>6, <2>9, FS_EmptySet
  <2>11. ASSUME NEW r \in DOMAIN inner'
         PROVE  /\ inner'[r] = [permits |-> inner'[r].permits, size |-> inner'[r].size]
                /\ inner'[r].permits \in Nat /\ inner'[r].size \in Nat
                /\ inner'[r].permits + Cardinality(Connections(r)') = inner'[r].size
    <3>1. CASE r = p
      BY <2>7, <2>10, <3>1
    <3>2. CASE r \in DOMAIN inner
      BY <2>6, <2>7, <3>2 DEF FfiInv, Inners
    <3>3. QED
      BY <2>7, <3>1, <3>2
  <2>12. Inners'
    BY <2>3, <2>7, <2>8, <2>11 DEF FfiInv, Inners
  <2>13. QED
    BY <2>6, <2>12 DEF FfiInv
<1>3. QED
  BY <1>1, <1>2

\* A connection takes one of its pool's permits.
LEMMA ConnectInv ==
    ASSUME FfiInv, NEW p \in DOMAIN inner, inner[p].permits # 0,
           Hands(Connection(p), heap), TakePermit(p)
    PROVE  FfiInv'
<1>1. Room /\ Fresh # NULL
  BY FreshHandle DEF Hands
<1>2. IsObject(Connection(p)) /\ Connection(p).kind = "Connection" /\ Connection(p).inner = p
  <2>1. DOMAIN NoStatements = {}
    BY DEF NoStatements
  <2>2. CacheOK(NoStatements)
    BY <2>1, FS_EmptySet, CacheAssumption DEF CacheOK
  <2>3. QED
    BY <2>2 DEF IsObject, Connection
<1>3. /\ heap' = Put(heap, Fresh, Connection(p)) /\ out' = Fresh
      /\ owned' = Put(owned, Fresh, Connection(p).kind)
  BY <1>1 DEF Hands, Takes
<1>4. /\ Objects' /\ OwnedIsLive' /\ SharedHandles' = SharedHandles \cup {Fresh}
      /\ \A h \in SharedHandles : heap'[h].inner = heap[h].inner
      /\ heap'[Fresh] = Connection(p) /\ Fresh \notin DOMAIN heap
      /\ \A r : Connections(r)' = IF r = p THEN Connections(r) \cup {Fresh} ELSE Connections(r)
  BY <1>1, <1>2, <1>3, AlikeSelf, Handed DEF Shared
<1>5. DOMAIN inner' = {heap'[h].inner : h \in SharedHandles'} /\ DOMAIN inner' = DOMAIN inner
  BY <1>2, <1>4 DEF FfiInv, Inners, TakePermit
<1>6. Cardinality(Connections(p)') = Cardinality(Connections(p)) + 1
  <2>1. Fresh \notin Connections(p)
    BY <1>4 DEF Connections
  <2>2. Connections(p)' = Connections(p) \cup {Fresh}
    BY <1>4
  <2>3. QED
    BY <2>1, <2>2, ConnectionsFinite, FS_AddElement
<1>7. inner'[p] = [permits |-> inner[p].permits - 1, size |-> inner[p].size]
  <2>1. inner[p] = [permits |-> inner[p].permits, size |-> inner[p].size]
    BY DEF FfiInv, Inners
  <2>2. inner'[p] = [inner[p] EXCEPT !.permits = inner[p].permits - 1]
    BY DEF TakePermit
  <2>3. \A a, b, c : [[permits |-> a, size |-> b] EXCEPT !.permits = c] = [permits |-> c, size |-> b]
    OBVIOUS
  <2>4. QED
    BY <2>1, <2>2, <2>3
<1>8. \A r \in DOMAIN inner : r # p => inner'[r] = inner[r]
  BY DEF TakePermit
<1>9. ASSUME NEW r \in DOMAIN inner
      PROVE  /\ inner'[r] = [permits |-> inner'[r].permits, size |-> inner'[r].size]
             /\ inner'[r].permits \in Nat /\ inner'[r].size \in Nat
             /\ inner'[r].permits + Cardinality(Connections(r)') = inner'[r].size
  <2>1. CASE r = p
    <3>1. /\ inner[p].permits \in Nat /\ inner[p].size \in Nat /\ Cardinality(Connections(p)) \in Nat
          /\ inner[p].permits + Cardinality(Connections(p)) = inner[p].size
      BY ConnectionsFinite DEF FfiInv, Inners
    <3>2. QED
      BY <1>6, <1>7, <2>1, <3>1
  <2>2. CASE r # p
    BY <1>4, <1>8, <2>2 DEF FfiInv, Inners
  <2>3. QED
    BY <2>1, <2>2
<1>10. Inners'
  BY <1>5, <1>9 DEF FfiInv, Inners
<1>11. QED
  BY <1>4, <1>10 DEF FfiInv

-----------------------------------------------------------------------------
(* The calls *)

\* A handle the caller passes as one of a kind is live and of that kind.
LEMMA ArgsLive ==
    ASSUME FfiInv, NEW kind, NEW h \in Args(kind), h # NULL
    PROVE  h \in DOMAIN heap /\ heap[h].kind = kind
BY DEF FfiInv, OwnedIsLive, Args

\* A statement fills its own cache and hands out a result or an error.
LEMMA ExecutesInv ==
    ASSUME FfiInv, NEW h \in DOMAIN heap, heap[h].kind \in {"Database", "Connection"},
           NEW sql \in Texts, NEW wants \in BOOLEAN, Executes(h, sql, wants)
    PROVE  FfiInv'
<1> DEFINE c == parse(heap[h].cache, sql).cache
           cached == [heap EXCEPT ![h].cache = c]
<1>1. IsObject(heap[h]) /\ CacheOK(heap[h].cache)
  BY DEF FfiInv, Objects, IsObject, Plain
<1>2. CacheOK(c)
  BY <1>1, ParseCache
<1>3. Alike(cached)
  <2> HIDE DEF c
  <2>1. DOMAIN cached = DOMAIN heap /\ \A x \in DOMAIN heap : x # h => cached[x] = heap[x]
    OBVIOUS
  <2>2. cached[h] = [heap[h] EXCEPT !.cache = c]
    OBVIOUS
  <2>3. CASE heap[h].kind = "Database"
    <3>1. heap[h] = [kind |-> "Database", cache |-> heap[h].cache]
      BY <1>1, <2>3 DEF IsObject, Plain
    <3>2. cached[h] = [kind |-> "Database", cache |-> c]
      BY <2>2, <3>1
    <3>3. IsObject(cached[h]) /\ cached[h].kind = "Database"
      BY <1>2, <3>2 DEF IsObject
    <3> HIDE DEF cached
    <3>4. QED
      BY <2>1, <2>3, <3>3 DEF Alike, FfiInv, Objects, Shared
  <2>4. CASE heap[h].kind = "Connection"
    <3>1. heap[h] = [kind |-> "Connection", inner |-> heap[h].inner, cache |-> heap[h].cache]
      BY <1>1, <2>4 DEF IsObject, Plain
    <3>2. cached[h] = [kind |-> "Connection", inner |-> heap[h].inner, cache |-> c]
      BY <2>2, <3>1
    <3>3. IsObject(cached[h]) /\ cached[h].kind = "Connection" /\ cached[h].inner = heap[h].inner
      BY <1>2, <3>2 DEF IsObject
    <3> HIDE DEF cached
    <3>4. QED
      BY <2>1, <2>4, <3>3 DEF Alike, FfiInv, Objects, Shared
  <2>5. QED
    BY <2>3, <2>4
<1>4. \/ \E n \in 0..MaxRows : Hands(Result([i \in 1..n |-> Row]), cached)
      \/ Fails("Error", cached, wants)
  BY DEF Executes
<1>5. UNCHANGED inner
  BY DEF Executes
<1>6. \A rows : IsObject(Result(rows)) /\ Result(rows).kind \notin Shared
  BY DEF IsObject, Result, Plain, Shared
<1> HIDE DEF cached
<1>7. QED
  BY <1>3, <1>4, <1>5, <1>6, HandsInv, FailsInv

\* A call without an error string hands out a plain object or nothing.
LEMMA HandInv ==
    ASSUME FfiInv, NEW o, IsObject(o), o.kind \notin Shared, NEW code, Hand(o, code), UNCHANGED inner
    PROVE  FfiInv'
BY AlikeSelf, HandsInv, FailsInv DEF Hand

\* What a freed handle leaves.
LEMMA Dropped ==
    ASSUME FfiInv, NEW h \in DOMAIN heap, Drop(h)
    PROVE  /\ Objects' /\ OwnedIsLive' /\ SharedHandles' = SharedHandles \ {h}
           /\ \A x \in SharedHandles' : heap'[x].inner = heap[x].inner
           /\ \A p : Connections(p)' = Connections(p) \ {h}
<1>1. DOMAIN heap' = DOMAIN heap \ {h} /\ \A x \in DOMAIN heap' : heap'[x] = heap[x]
  BY DEF Drop, Without
<1>2. Objects'
  BY <1>1 DEF FfiInv, Objects, Drop
<1>3. OwnedIsLive'
  <2>1. owned' = [x \in DOMAIN heap \ {h} |-> heap[x].kind]
    BY DEF FfiInv, OwnedIsLive, Drop, Without
  <2>2. QED
    BY <1>1, <2>1 DEF OwnedIsLive
<1>4. QED
  BY <1>1, <1>2, <1>3 DEF SharedHandles, Connections

\* Freeing a handle that shares nothing.
LEMMA PlainDropped ==
    ASSUME FfiInv, NEW h \in DOMAIN heap, heap[h].kind \notin Shared, Drop(h), UNCHANGED inner
    PROVE  FfiInv'
<1>1. h \notin SharedHandles /\ \A p : h \notin Connections(p)
  BY DEF SharedHandles, Connections, Shared
<1>2. SharedHandles' = SharedHandles /\ \A p : Connections(p)' = Connections(p)
  BY <1>1, Dropped
<1>3. {heap'[x].inner : x \in SharedHandles'} = {heap[x].inner : x \in SharedHandles}
  BY <1>2, Dropped
<1>4. Inners'
  BY <1>2, <1>3 DEF FfiInv, Inners
<1>5. QED
  BY <1>4, Dropped DEF FfiInv

\* Freeing the last user of an inner state, and any other one.
LEMMA SharedDropped ==
    ASSUME FfiInv, NEW h \in DOMAIN heap, heap[h].kind \in Shared, Drop(h)
    PROVE  /\ heap[h].inner \in DOMAIN inner
           /\ {heap'[x].inner : x \in SharedHandles'} =
                  IF Users(heap[h].inner) = {h} THEN DOMAIN inner \ {heap[h].inner} ELSE DOMAIN inner
           /\ Users(heap[h].inner) = {h} =>
                  \A p \in DOMAIN inner \ {heap[h].inner} : Connections(p)' = Connections(p)
<1>1. h \in SharedHandles
  BY DEF SharedHandles
<1>2. heap[h].inner \in DOMAIN inner /\ DOMAIN inner = {heap[x].inner : x \in SharedHandles}
  BY <1>1 DEF FfiInv, Inners
<1>3. h \in Users(heap[h].inner)
  BY <1>1, Views
<1>4. {heap'[x].inner : x \in SharedHandles'} = {heap[x].inner : x \in SharedHandles \ {h}}
  BY Dropped
<1>5. CASE Users(heap[h].inner) = {h}
  <2>1. \A x \in SharedHandles \ {h} : heap[x].inner # heap[h].inner
    BY <1>5, Views
  <2>2. {heap[x].inner : x \in SharedHandles \ {h}} = DOMAIN inner \ {heap[h].inner}
    BY <1>2, <2>1
  <2>3. \A p : p # heap[h].inner => h \notin Connections(p)
    BY DEF Connections
  <2>4. ASSUME NEW p, p # heap[h].inner PROVE Connections(p)' = Connections(p)
    <3>1. Connections(p)' = Connections(p) \ {h}
      BY Dropped
    <3>2. QED
      BY <2>3, <2>4, <3>1
  <2>5. QED
    BY <1>2, <1>4, <1>5, <2>2, <2>4
<1>6. CASE Users(heap[h].inner) # {h}
  <2>1. PICK y \in SharedHandles \ {h} : heap[y].inner = heap[h].inner
    BY <1>3, <1>6, Views
  <2>2. {heap[x].inner : x \in SharedHandles \ {h}} = DOMAIN inner
    BY <1>2, <2>1
  <2>3. QED
    BY <1>2, <1>4, <1>6, <2>2
<1>7. QED
  BY <1>5, <1>6

\* Freeing a pool leaves its inner state to the connections that are left.
LEMMA PoolFreeInv ==
    ASSUME FfiInv, NEW h \in DOMAIN heap, heap[h].kind = "Pool", fsql_pool_free(h)
    PROVE  FfiInv'
<1>1. Drop(h) /\ heap[h].kind \in Shared
  BY DEF fsql_pool_free, Shared
<1>2. \A p : Connections(p)' = Connections(p)
  BY <1>1, Dropped DEF Connections
<1>3. Inners'
  <2>1. CASE Users(heap[h].inner) = {h}
    <3>1. DOMAIN inner' = DOMAIN inner \ {heap[h].inner} /\ \A p \in DOMAIN inner' : inner'[p] = inner[p]
      BY <2>1 DEF fsql_pool_free, Release, Without
    <3>2. DOMAIN inner' = {heap'[x].inner : x \in SharedHandles'}
      BY <1>1, <2>1, <3>1, SharedDropped
    <3>3. QED
      BY <1>2, <3>1, <3>2 DEF FfiInv, Inners
  <2>2. CASE Users(heap[h].inner) # {h}
    <3>1. inner' = inner
      BY <2>2 DEF fsql_pool_free, Release
    <3>2. DOMAIN inner' = {heap'[x].inner : x \in SharedHandles'}
      BY <1>1, <2>2, <3>1, SharedDropped
    <3>3. QED
      BY <1>2, <3>1, <3>2 DEF FfiInv, Inners
  <2>3. QED
    BY <2>1, <2>2
<1>4. QED
  BY <1>1, <1>3, Dropped DEF FfiInv

\* Freeing a connection returns its permit, if anybody is left to take it.
LEMMA ConnectionFreeInv ==
    ASSUME FfiInv, NEW h \in DOMAIN heap, heap[h].kind = "Connection", fsql_connection_free(h)
    PROVE  FfiInv'
<1>0. PICK p : p = heap[h].inner
  OBVIOUS
<1>1. Drop(h) /\ heap[h].kind \in Shared /\ h \in Connections(p) /\ p \in DOMAIN inner
  BY <1>0, SharedDropped DEF fsql_connection_free, Shared, Connections
<1>2. CASE Users(p) = {h}
  <2>1. DOMAIN inner' = DOMAIN inner \ {p} /\ \A q \in DOMAIN inner' : inner'[q] = inner[q]
    BY <1>0, <1>2 DEF fsql_connection_free, Without
  <2>2. DOMAIN inner' = {heap'[x].inner : x \in SharedHandles'}
    BY <1>0, <1>1, <1>2, <2>1, SharedDropped
  <2>3. \A q \in DOMAIN inner' : Connections(q)' = Connections(q)
    BY <1>0, <1>1, <1>2, <2>1, SharedDropped
  <2>4. Inners'
    BY <2>1, <2>2, <2>3 DEF FfiInv, Inners
  <2>5. QED
    BY <1>1, <2>4, Dropped DEF FfiInv
<1>3. CASE Users(p) # {h}
  <2>1. inner' = [inner EXCEPT ![p].permits = @ + 1]
    BY <1>0, <1>3 DEF fsql_connection_free, Returned
  <2>2. inner'[p] = [permits |-> inner[p].permits + 1, size |-> inner[p].size]
    <3>1. inner[p] = [permits |-> inner[p].permits, size |-> inner[p].size]
      BY <1>1 DEF FfiInv, Inners
    <3>2. inner'[p] = [inner[p] EXCEPT !.permits = inner[p].permits + 1]
      BY <1>1, <2>1
    <3>3. \A a, b, c : [[permits |-> a, size |-> b] EXCEPT !.permits = c] = [permits |-> c, size |-> b]
      OBVIOUS
    <3>4. QED
      BY <3>1, <3>2, <3>3
  <2>3. DOMAIN inner' = DOMAIN inner /\ \A q \in DOMAIN inner : q # p => inner'[q] = inner[q]
    BY <2>1
  <2>4. DOMAIN inner' = {heap'[x].inner : x \in SharedHandles'}
    BY <1>0, <1>1, <1>3, <2>3, SharedDropped
  <2>5. ASSUME NEW q \in DOMAIN inner
        PROVE  /\ inner'[q] = [permits |-> inner'[q].permits, size |-> inner'[q].size]
               /\ inner'[q].permits \in Nat /\ inner'[q].size \in Nat
               /\ inner'[q].permits + Cardinality(Connections(q)') = inner'[q].size
    <3>1. CASE q = p
      <4>1. /\ inner[p].permits \in Nat /\ inner[p].size \in Nat
            /\ Cardinality(Connections(p)) \in Nat
            /\ inner[p].permits + Cardinality(Connections(p)) = inner[p].size
        BY <1>1, ConnectionsFinite DEF FfiInv, Inners
      <4>2. Cardinality(Connections(p)') = Cardinality(Connections(p)) - 1
        BY <1>1, ConnectionsFinite, Dropped, FS_RemoveElement
      <4>3. QED
        BY <2>2, <3>1, <4>1, <4>2
    <3>2. CASE q # p
      <4>1. h \notin Connections(q)
        BY <1>0, <3>2 DEF Connections
      <4>2. Connections(q)' = Connections(q)
        <5>1. Connections(q)' = Connections(q) \ {h}
          BY <1>1, Dropped
        <5>2. QED
          BY <4>1, <5>1
      <4>3. QED
        BY <2>3, <3>2, <4>2 DEF FfiInv, Inners
    <3>3. QED
      BY <3>1, <3>2
  <2>6. Inners'
    BY <2>3, <2>4, <2>5 DEF FfiInv, Inners
  <2>7. QED
    BY <1>1, <2>6, Dropped DEF FfiInv
<1>4. QED
  BY <1>2, <1>3

-----------------------------------------------------------------------------
(* The invariant, and what follows from it *)

\* Nothing is live at the start.
LEMMA InitInv == Init => FfiInv
<1> SUFFICES ASSUME Init PROVE FfiInv
  OBVIOUS
<1>1. DOMAIN heap = {} /\ DOMAIN inner = {} /\ DOMAIN owned = {} /\ out = NULL
  BY DEF Init
<1>2. OwnedIsLive
  BY DEF Init, OwnedIsLive
<1>3. SharedHandles = {}
  BY <1>1 DEF SharedHandles
<1>4. QED
  BY <1>1, <1>2, <1>3 DEF FfiInv, Objects, Inners

\* The objects that calls hand out.
LEMMA NewObjects ==
    /\ IsObject(Database) /\ Database.kind \notin Shared
    /\ IsObject(String) /\ String.kind \notin Shared
    /\ IsObject(Vector) /\ Vector.kind \notin Shared
    /\ \A v : IsObject(Value(v)) /\ Value(v).kind \notin Shared
<1>1. DOMAIN NoStatements = {}
  BY DEF NoStatements
<1>2. CacheOK(NoStatements)
  BY <1>1, FS_EmptySet, CacheAssumption DEF CacheOK
<1>3. IsObject(Database) /\ Database.kind \notin Shared
  BY <1>2 DEF IsObject, Database, Shared
<1>4. QED
  BY <1>3 DEF IsObject, String, Vector, Value, Plain, Shared

\* The calls that make databases and pools.
LEMMA OpenCalls ==
    ASSUME FfiInv, NEW hasOut \in BOOLEAN, NEW wants \in BOOLEAN, NEW pathOk \in BOOLEAN,
           NEW size \in Nat,
           \/ fsql_db_memory_new(hasOut, wants)
           \/ fsql_db_open(pathOk, hasOut, wants)
           \/ fsql_pool_memory_new(size, hasOut, wants)
           \/ fsql_pool_open(pathOk, size, hasOut, wants)
    PROVE  FfiInv'
<1>1. CASE fsql_db_memory_new(hasOut, wants)
  BY <1>1, AlikeSelf, HandsInv, FailsInv, NewObjects DEF fsql_db_memory_new
<1>2. CASE fsql_db_open(pathOk, hasOut, wants)
  BY <1>2, AlikeSelf, HandsInv, FailsInv, NewObjects DEF fsql_db_open
<1>3. CASE fsql_pool_memory_new(size, hasOut, wants)
  BY <1>3, AlikeSelf, NewPoolInv, FailsInv DEF fsql_pool_memory_new
<1>4. CASE fsql_pool_open(pathOk, size, hasOut, wants)
  BY <1>4, AlikeSelf, NewPoolInv, FailsInv DEF fsql_pool_open
<1>5. QED
  BY <1>1, <1>2, <1>3, <1>4

\* The calls on a pool.
LEMMA PoolCalls ==
    ASSUME FfiInv, NEW hasOut \in BOOLEAN, NEW wants \in BOOLEAN, NEW h \in Args("Pool"),
           fsql_pool_get(h, hasOut, wants) \/ fsql_pool_try_get(h, hasOut, wants)
    PROVE  FfiInv'
<1>1. CASE Refused(h, NoText, hasOut) # "Ok"
  <2>1. PICK code : Fails(code, heap, wants) /\ UNCHANGED inner
    BY <1>1 DEF fsql_pool_get, fsql_pool_try_get
  <2>2. QED
    BY <2>1, AlikeSelf, FailsInv
<1>2. CASE Refused(h, NoText, hasOut) = "Ok"
  <2>1. h # NULL
    BY <1>2 DEF Refused
  <2>2. h \in DOMAIN heap /\ heap[h].kind = "Pool"
    BY <2>1, ArgsLive
  <2>3. heap[h].inner \in DOMAIN inner /\ inner[heap[h].inner].permits \in Nat
    BY <2>2 DEF FfiInv, Inners, SharedHandles, Shared
  <2>4. CASE HandsNull("Connection") /\ UNCHANGED inner
    <3>1. heap' = heap /\ out' = NULL /\ UNCHANGED <<owned, inner>>
      BY <2>4 DEF HandsNull, Takes
    <3>2. QED
      BY <3>1, AlikeSelf, NothingHanded
  <2>5. CASE /\ inner[heap[h].inner].permits # 0
             /\ Hands(Connection(heap[h].inner), heap) /\ TakePermit(heap[h].inner)
    BY <2>3, <2>5, ConnectInv
  <2>6. QED
    BY <1>2, <2>3, <2>4, <2>5 DEF fsql_pool_get, fsql_pool_try_get
<1>3. QED
  BY <1>1, <1>2

\* The calls that execute a statement.
LEMMA ExecuteCalls ==
    ASSUME FfiInv, NEW hasOut \in BOOLEAN, NEW wants \in BOOLEAN, NEW sql \in Texts \cup {InvalidText},
           NEW h, \/ h \in Args("Database") /\ fsql_db_execute(h, sql, hasOut, wants)
                  \/ h \in Args("Connection") /\ fsql_connection_execute(h, sql, hasOut, wants)
    PROVE  FfiInv'
<1>1. CASE Refused(h, sql # InvalidText, hasOut) # "Ok"
  <2>1. PICK code : Fails(code, heap, wants) /\ UNCHANGED inner
    BY <1>1 DEF fsql_db_execute, fsql_connection_execute
  <2>2. QED
    BY <2>1, AlikeSelf, FailsInv
<1>2. CASE Refused(h, sql # InvalidText, hasOut) = "Ok"
  <2>1. h # NULL /\ sql \in Texts
    BY <1>2 DEF Refused
  <2>2. h \in DOMAIN heap /\ heap[h].kind \in {"Database", "Connection"}
    BY <2>1, ArgsLive
  <2>3. Executes(h, sql, wants)
    BY <1>2 DEF fsql_db_execute, fsql_connection_execute
  <2>4. QED
    BY <2>1, <2>2, <2>3, ExecutesInv
<1>3. QED
  BY <1>1, <1>2

\* The calls that read results and values.
LEMMA ResultCalls ==
    ASSUME FfiInv, NEW hasOut \in BOOLEAN, NEW h, NEW r, NEW c,
           \/ fsql_result_message(h, hasOut)
           \/ fsql_result_column_name(h, r, c, hasOut) \/ fsql_result_value_at(h, r, c, hasOut)
           \/ fsql_value_get_text(h, hasOut) \/ fsql_value_get_vector(h, hasOut)
    PROVE  FfiInv'
BY HandInv, NewObjects DEF fsql_result_message, fsql_result_column_name, fsql_result_value_at,
                           fsql_value_get_text, fsql_value_get_vector

\* The free calls, on handles the caller owns.
LEMMA FreeInv ==
    ASSUME FfiInv, Free
    PROVE  FfiInv'
<1>1. PICK h \in DOMAIN owned :
          CASE owned[h] = "Pool" -> fsql_pool_free(h)
            [] owned[h] = "Connection" -> fsql_connection_free(h)
            [] owned[h] = "Database" -> fsql_db_free(h)
            [] owned[h] = "Result" -> fsql_result_free(h)
            [] owned[h] = "Value" -> fsql_value_free(h)
            [] owned[h] = "Vector" -> fsql_vector_free(h)
            [] owned[h] = "String" -> fsql_string_free(h)
  BY DEF Free
<1>2. h \in DOMAIN heap /\ owned[h] = heap[h].kind
  BY DEF FfiInv, OwnedIsLive
<1>3. heap[h].kind \in {"Pool", "Connection", "Database", "Result", "Value", "Vector", "String"}
  BY <1>2 DEF FfiInv, Objects, IsObject, Plain
<1>4. CASE owned[h] = "Pool"
  <2>1. fsql_pool_free(h)
    BY <1>1, <1>4
  <2>2. QED
    BY <1>2, <1>4, <2>1, PoolFreeInv
<1>5. CASE owned[h] = "Connection"
  <2>1. fsql_connection_free(h)
    BY <1>1, <1>5
  <2>2. QED
    BY <1>2, <1>5, <2>1, ConnectionFreeInv
<1>6. CASE owned[h] \notin Shared
  <2>1. Drop(h) /\ UNCHANGED inner
    BY <1>1, <1>2, <1>3, <1>6
       DEF Shared, fsql_db_free, fsql_result_free, fsql_value_free, fsql_vector_free, fsql_string_free
  <2>2. QED
    BY <1>2, <1>6, <2>1, PlainDropped
<1>7. QED
  BY <1>4, <1>5, <1>6 DEF Shared

\* Every call keeps the invariant.
LEMMA FfiInvariant == Spec => []FfiInv
<1>1. FfiInv /\ [Next]_vars => FfiInv'
  <2> SUFFICES ASSUME FfiInv, [Next]_vars PROVE FfiInv'
    OBVIOUS
  <2>1. CASE UNCHANGED vars
    <3>1. heap' = heap /\ UNCHANGED <<owned, inner, out>>
      BY <2>1 DEF vars
    <3>2. QED
      BY <3>1, AlikeSelf, NothingHanded DEF FfiInv, Objects
  <2>2. ASSUME NEW hasOut \in BOOLEAN, NEW wants \in BOOLEAN,
               \/ fsql_db_memory_new(hasOut, wants)
               \/ \E pathOk \in BOOLEAN : fsql_db_open(pathOk, hasOut, wants)
               \/ \E size \in 0..2 :
                     \/ fsql_pool_memory_new(size, hasOut, wants)
                     \/ \E pathOk \in BOOLEAN : fsql_pool_open(pathOk, size, hasOut, wants)
        PROVE  FfiInv'
    <3>1. 0..2 \subseteq Nat /\ 0 \in Nat
      OBVIOUS
    <3>2. QED
      BY <2>2, <3>1, OpenCalls
  <2>3. ASSUME NEW hasOut \in BOOLEAN, NEW wants \in BOOLEAN, NEW h \in Args("Pool"),
               fsql_pool_get(h, hasOut, wants) \/ fsql_pool_try_get(h, hasOut, wants)
        PROVE  FfiInv'
    BY <2>3, PoolCalls
  <2>4. ASSUME NEW hasOut \in BOOLEAN, NEW wants \in BOOLEAN, NEW sql \in Texts \cup {InvalidText},
               \/ \E h \in Args("Database") : fsql_db_execute(h, sql, hasOut, wants)
               \/ \E h \in Args("Connection") : fsql_connection_execute(h, sql, hasOut, wants)
        PROVE  FfiInv'
    BY <2>4, ExecuteCalls
  <2>5. ASSUME NEW hasOut \in BOOLEAN,
               \/ \E h \in Args("Result") :
                     \/ fsql_result_message(h, hasOut)
                     \/ \E r \in 1..(MaxRows + 1), c \in 1..(Len(Row) + 1) :
                           \/ fsql_result_column_name(h, r, c, hasOut)
                           \/ fsql_result_value_at(h, r, c, hasOut)
               \/ \E h \in Args("Value") :
                     fsql_value_get_text(h, hasOut) \/ fsql_value_get_vector(h, hasOut)
        PROVE  FfiInv'
    BY <2>5, ResultCalls
  <2>6. QED
    BY <2>1, <2>2, <2>3, <2>4, <2>5, FreeInv DEF Next
<1>2. QED
  BY <1>1, InitInv, PTL DEF Spec

\* A caller of ffi.rs who frees every handle once owns exactly the live
\* handles, each as what it is: no leak and no stale pointer.
THEOREM CallersKnowEveryHandle == Spec => []OwnedIsLive
BY FfiInvariant, PTL DEF FfiInv

\* Pointers are null or addresses and no pool has more permits than its size,
\* so fsql_connection_free returns none that was not taken.
THEOREM PermitsBounded == Spec => []TypeOK
<1>1. FfiInv => TypeOK
  <2> SUFFICES ASSUME FfiInv PROVE TypeOK
    OBVIOUS
  <2>1. ASSUME NEW p \in DOMAIN inner PROVE inner[p].permits \in 0..inner[p].size
    <3>1. /\ inner[p].permits \in Nat /\ inner[p].size \in Nat
          /\ inner[p].permits + Cardinality(Connections(p)) = inner[p].size
          /\ Cardinality(Connections(p)) \in Nat
      BY ConnectionsFinite DEF FfiInv, Inners
    <3>2. QED
      BY <3>1
  <2>2. QED
    BY <2>1 DEF TypeOK, FfiInv, Objects
<1>2. QED
  BY <1>1, FfiInvariant, PTL

\* A pool's inner state (the Arc of ffi.rs' pool handle) lives exactly as long
\* as one of its users, and its permits and live connections add up.
THEOREM InnerLivesWithItsUsers == Spec => []InnerShared
<1>1. FfiInv => InnerShared
  <2> SUFFICES ASSUME FfiInv PROVE InnerShared
    OBVIOUS
  <2>1. DOMAIN inner = {heap[h].inner : h \in Of("Pool") \cup Of("Connection")}
    BY Views DEF FfiInv, Inners
  <2>2. \A p \in DOMAIN inner :
            inner[p].permits + Cardinality(Users(p) \cap Of("Connection")) = inner[p].size
    BY Views DEF FfiInv, Inners
  <2>3. QED
    BY <2>1, <2>2 DEF InnerShared
<1>2. QED
  BY <1>1, FfiInvariant, PTL

\* The cache of parse_with_cache never passes its capacity and never answers
\* with another statement than the parser would.
THEOREM CachesAreTransparent == Spec => []CacheTransparent
<1>1. FfiInv => CacheTransparent
  <2> SUFFICES ASSUME FfiInv, NEW h \in Of("Database") \cup Of("Connection")
               PROVE  CacheOK(heap[h].cache)
    BY DEF CacheTransparent, CacheOK
  <2>1. QED
    BY DEF FfiInv, Objects, IsObject, Of, Plain
<1>2. QED
  BY <1>1, FfiInvariant, PTL
=============================================================================
