--------------------------- MODULE PermitsProofs ---------------------------
(***************************************************************************)
(* Proofs about Permits, for any finite set of threads and any pool size.  *)
(* PermitsInv is inductive: the wakeup argument needs the types, and the   *)
(* refinement needs the conservation of permits, to know that a thread     *)
(* that finds a permit is not one too many.                                *)
(***************************************************************************)
EXTENDS Permits, FiniteSetTheorems, TLAPS

\* permits' bound MaxConnections is a consequence (PermitsBounded).
PermitsInv ==
    /\ permits \in Nat
    /\ pc \in [Thread -> Where]
    /\ poisoned \in BOOLEAN
    /\ PermitsConserved
    /\ NoLostWakeup

-----------------------------------------------------------------------------
(* Counting the threads at a place *)

\* The threads at some places are finitely many.
LEMMA InFinite ==
    ASSUME NEW S
    PROVE  /\ IsFiniteSet(In(S)) /\ Cardinality(In(S)) \in Nat
           /\ Cardinality(In(S)) = 0 <=> In(S) = {}
<1>1. In(S) \in SUBSET Thread
  BY DEF In
<1>2. IsFiniteSet(In(S))
  BY <1>1, FS_Subset, PermitsAssumption
<1> QED
  BY <1>2, FS_CardinalityType, FS_EmptySet

\* The three ways a move can concern a set of places.
LEMMA Enter ==
    ASSUME pc \in [Thread -> Where], NEW t \in Thread, NEW w \in Where, NEW S, Goto(t, w),
           w \in S, pc[t] \notin S
    PROVE  Cardinality(In(S)') = Cardinality(In(S)) + 1
<1>1. t \notin In(S) /\ In(S)' = In(S) \cup {t}
  BY DEF Goto, In
<1> QED
  BY <1>1, InFinite, FS_AddElement

\* A thread that leaves a set of places makes the set of threads there smaller by one.
LEMMA Leave ==
    ASSUME pc \in [Thread -> Where], NEW t \in Thread, NEW w \in Where, NEW S, Goto(t, w),
           w \notin S, pc[t] \in S
    PROVE  Cardinality(In(S)') = Cardinality(In(S)) - 1
<1>1. t \in In(S) /\ In(S)' = In(S) \ {t}
  BY DEF Goto, In
<1> QED
  BY <1>1, InFinite, FS_RemoveElement

\* A thread that moves between two places of a set leaves the set of threads there as it was.
LEMMA Stay ==
    ASSUME pc \in [Thread -> Where], NEW t \in Thread, NEW w \in Where, NEW S, Goto(t, w),
           w \in S <=> pc[t] \in S
    PROVE  In(S)' = In(S)
BY DEF Goto, In

-----------------------------------------------------------------------------
(* The invariant *)

HoldsPlaces == {"capacity", "connected", "begun", "executing", "dropping"}

\* Holders is the set of threads at the places that hold a connection, before and after a step.
LEMMA HoldersIn == Holders = In(HoldsPlaces) /\ Holders' = In(HoldsPlaces)'
BY DEF Holders, HoldsPlaces

\* The sets of threads at some places are finite, their sizes natural numbers.
LEMMA CountTypes ==
    /\ Cardinality(Holders) \in Nat
    /\ Cardinality(In({"woken"})) \in Nat /\ Cardinality(In({"woken"})') \in Nat
<1>1. In({"woken"})' \in SUBSET Thread
  BY DEF In
<1>2. Cardinality(In({"woken"})') \in Nat
  BY <1>1, FS_Subset, FS_CardinalityType, PermitsAssumption
<1> QED
  BY <1>2, InFinite DEF Holders

\* Going to wait, which only a thread that found no permit does.
LEMMA WaitInv ==
    ASSUME PermitsInv, NEW t \in Thread, pc[t] \in {"idle", "woken"},
           permits = 0, Goto(t, "waiting"), UNCHANGED permits, UNCHANGED poisoned
    PROVE  PermitsInv'
<1> USE DEF PermitsInv
<1>1. "waiting" \in Where /\ "waiting" \notin HoldsPlaces /\ pc[t] \notin HoldsPlaces
  BY DEF Where, HoldsPlaces
<1>2. pc' \in [Thread -> Where]
  BY <1>1 DEF Goto
<1>3. Holders' = Holders
  BY <1>1, Stay, HoldersIn
<1> QED
  BY <1>2, <1>3, CountTypes DEF PermitsConserved, NoLostWakeup

\* Taking a permit, from "idle" or from "woken": a woken thread pays for the
\* permit it takes with its own wakeup.
LEMMA TakeInv ==
    ASSUME PermitsInv, NEW t \in Thread, pc[t] \in {"idle", "woken"},
           permits > 0, Goto(t, "capacity"), permits' = permits - 1, UNCHANGED poisoned
    PROVE  PermitsInv'
<1> USE DEF PermitsInv
<1>0. MaxConnections \in Nat
  BY PermitsAssumption
<1>1. "capacity" \in Where /\ "capacity" \in HoldsPlaces /\ pc[t] \notin HoldsPlaces
  BY DEF Where, HoldsPlaces
<1>2. pc' \in [Thread -> Where]
  BY <1>1 DEF Goto
<1>3. Cardinality(Holders') = Cardinality(Holders) + 1
  BY <1>1, Enter, HoldersIn
<1>4. In({"waiting"})' = In({"waiting"})
  BY <1>1, Stay
<1>5. Cardinality(In({"woken"})') >= Cardinality(In({"woken"})) - 1
  <2>1. CASE pc[t] = "woken"
    <3>1. Cardinality(In({"woken"})') = Cardinality(In({"woken"})) - 1
      BY <1>1, <2>1, Leave
    <3> QED
      BY <3>1, CountTypes
  <2>2. CASE pc[t] = "idle"
    <3>1. In({"woken"})' = In({"woken"})
      BY <1>1, <2>2, Stay
    <3> QED
      BY <3>1, CountTypes
  <2> QED
    BY <2>1, <2>2
<1> QED
  BY <1>0, <1>2, <1>3, <1>4, <1>5, CountTypes DEF PermitsConserved, NoLostWakeup

\* The loop of get keeps the invariant, from idle as from a wakeup.
LEMMA TakeOrWaitInv ==
    ASSUME PermitsInv, NEW t \in Thread, pc[t] \in {"idle", "woken"}, TakeOrWait(t),
           UNCHANGED poisoned
    PROVE  PermitsInv'
BY WaitInv, TakeInv DEF TakeOrWait

\* A move of a thread that has a connection before and after.
LEMMA HolderMoveInv ==
    ASSUME PermitsInv, NEW t \in Thread, NEW w \in HoldsPlaces, Goto(t, w),
           UNCHANGED permits, poisoned' = poisoned \/ poisoned' = TRUE, pc[t] \in HoldsPlaces
    PROVE  PermitsInv'
<1> USE DEF PermitsInv
<1>1. w \in Where /\ w \notin {"waiting", "woken"} /\ pc[t] \notin {"waiting", "woken"}
  BY DEF Where, HoldsPlaces
<1>2. pc' \in [Thread -> Where]
  BY <1>1 DEF Goto
<1>3. Holders' = Holders
  BY <1>1, Stay, HoldersIn
<1>4. In({"waiting"})' = In({"waiting"}) /\ In({"woken"})' = In({"woken"})
  BY <1>1, Stay
<1> QED
  BY <1>2, <1>3, <1>4 DEF PermitsConserved, NoLostWakeup

\* A get that returns the error of a poisoned shared gives up a holder's place
\* and no permit.
LEMMA CapacityErrorInv ==
    ASSUME PermitsInv, NEW t \in Thread, CapacityError(t)
    PROVE  PermitsInv'
<1> USE DEF PermitsInv
<1>0. pc[t] = "capacity" /\ Goto(t, "idle") /\ permits' = permits /\ poisoned' = TRUE
  BY DEF CapacityError, PermitsInv
<1>1. "idle" \in Where /\ "idle" \notin HoldsPlaces /\ pc[t] \in HoldsPlaces
  BY <1>0 DEF Where, HoldsPlaces
<1>2. pc' \in [Thread -> Where]
  BY <1>0, <1>1 DEF Goto
<1>3. Cardinality(Holders') = Cardinality(Holders) - 1
  BY <1>0, <1>1, Leave, HoldersIn
<1>4. In({"waiting"})' = In({"waiting"}) /\ In({"woken"})' = In({"woken"})
  BY <1>0, <1>1, Stay
<1> QED
  BY <1>0, <1>2, <1>3, <1>4, CountTypes, PermitsAssumption DEF PermitsConserved, NoLostWakeup

\* A wait that ends by itself adds a woken thread and nothing else.
LEMMA SpuriousInv ==
    ASSUME PermitsInv, NEW t \in Thread, SpuriousWakeup(t)
    PROVE  PermitsInv'
<1> USE DEF PermitsInv
<1>1. pc[t] = "waiting" /\ Goto(t, "woken") /\ permits' = permits /\ poisoned' = poisoned
  BY DEF SpuriousWakeup
<1>2. "woken" \in Where /\ "woken" \notin HoldsPlaces /\ pc[t] \notin HoldsPlaces
  BY <1>1 DEF Where, HoldsPlaces
<1>3. pc' \in [Thread -> Where]
  BY <1>1, <1>2 DEF Goto
<1>4. Holders' = Holders
  BY <1>1, <1>2, Stay, HoldersIn
<1>5. Cardinality(In({"woken"})') = Cardinality(In({"woken"})) + 1
  BY <1>1, <1>2, Enter
<1>6. t \in In({"waiting"})
  BY <1>1 DEF In
<1> QED
  BY <1>1, <1>3, <1>4, <1>5, <1>6, CountTypes DEF PermitsConserved, NoLostWakeup

\* Returning a permit wakes a waiter for it, if there is one.
LEMMA ReturnInv ==
    ASSUME PermitsInv, NEW t \in Thread, ReturnPermit(t)
    PROVE  PermitsInv'
<1> USE DEF PermitsInv
<1>0. /\ pc[t] = "dropping" /\ permits' = permits + 1 /\ MaxConnections \in Nat
      /\ poisoned' = poisoned
  BY PermitsAssumption DEF ReturnPermit
<1>1. CASE In({"waiting"}) = {} /\ Goto(t, "idle")
  <2>1. "idle" \in Where /\ "idle" \notin HoldsPlaces /\ pc[t] \in HoldsPlaces
    BY <1>0 DEF Where, HoldsPlaces
  <2>2. pc' \in [Thread -> Where]
    BY <1>1, <2>1 DEF Goto
  <2>3. Cardinality(Holders') = Cardinality(Holders) - 1
    BY <1>1, <2>1, Leave, HoldersIn
  <2>4. In({"waiting"})' = {}
    BY <1>0, <1>1, <2>1, Stay
  <2> QED
    BY <1>0, <2>2, <2>3, <2>4, CountTypes DEF PermitsConserved, NoLostWakeup
<1>2. ASSUME NEW w \in In({"waiting"}), Notify(t, w)
      PROVE  PermitsInv'
  <2>1. w \in Thread /\ pc[w] = "waiting" /\ w # t
    BY <1>0 DEF In
  <2>2. pc' \in [Thread -> Where]
    BY <1>2 DEF Notify, Where
  <2>3. Holders' = Holders \ {t} /\ t \in Holders
    BY <1>0, <1>2, <2>1 DEF Notify, Holders, In
  <2>4. In({"woken"})' = In({"woken"}) \cup {w} /\ w \notin In({"woken"})
    BY <1>0, <1>2, <2>1 DEF Notify, In
  <2>5. IsFiniteSet(Holders) /\ IsFiniteSet(In({"woken"}))
    BY InFinite DEF Holders
  <2>6. Cardinality(Holders') = Cardinality(Holders) - 1
    BY <2>3, <2>5, FS_RemoveElement
  <2>7. Cardinality(In({"woken"})') = Cardinality(In({"woken"})) + 1
    BY <2>4, <2>5, FS_AddElement
  <2>8. permits <= Cardinality(In({"woken"}))
    BY <1>2 DEF NoLostWakeup
  <2> QED
    BY <1>0, <2>2, <2>6, <2>7, <2>8, CountTypes DEF PermitsConserved, NoLostWakeup
<1> QED
  BY <1>1, <1>2 DEF ReturnPermit

\* Every step of the checkout keeps the invariant.
LEMMA PermitsStep == PermitsInv /\ [Next]_vars => PermitsInv'
<1> SUFFICES ASSUME PermitsInv, [Next]_vars PROVE PermitsInv'
  OBVIOUS
<1>1. CASE UNCHANGED vars
  BY <1>1 DEF PermitsInv, PermitsConserved, NoLostWakeup, Holders, In, vars
<1>2. ASSUME NEW t \in Thread, get(t) \/ resume(t) PROVE PermitsInv'
  BY <1>2, TakeOrWaitInv DEF get, resume
<1>3. ASSUME NEW t \in Thread, try_get(t) PROVE PermitsInv'
  BY <1>3, TakeOrWaitInv DEF try_get, TakeOrWait
<1>4. ASSUME NEW t \in Thread, SpuriousWakeup(t) PROVE PermitsInv'
  BY <1>4, SpuriousInv
<1>5. ASSUME NEW t \in Thread, ReadCapacity(t) PROVE PermitsInv'
  BY <1>5, HolderMoveInv DEF ReadCapacity, HoldsPlaces
<1>10. ASSUME NEW t \in Thread, CapacityError(t) PROVE PermitsInv'
  BY <1>10, CapacityErrorInv
<1>11. ASSUME NEW t \in Thread, Panic(t) PROVE PermitsInv'
  BY <1>11, HolderMoveInv DEF Panic, HoldsPlaces
<1>6. ASSUME NEW t \in Thread, Execute(t) PROVE PermitsInv'
  BY <1>6, HolderMoveInv DEF Execute, HoldsPlaces
<1>7. ASSUME NEW t \in Thread, Executed(t) PROVE PermitsInv'
  BY <1>7, HolderMoveInv DEF Executed, HoldsPlaces
<1>8. ASSUME NEW t \in Thread, DropLocks(t) PROVE PermitsInv'
  BY <1>8, HolderMoveInv DEF DropLocks, HoldsPlaces
<1>9. ASSUME NEW t \in Thread, ReturnPermit(t) PROVE PermitsInv'
  BY <1>9, ReturnInv
<1> QED
  BY <1>1, <1>2, <1>3, <1>4, <1>5, <1>6, <1>7, <1>8, <1>9, <1>10, <1>11 DEF Next

\* The invariant holds in a new pool.
LEMMA PermitsInit == Init => PermitsInv
<1> SUFFICES ASSUME Init PROVE PermitsInv
  OBVIOUS
<1>1. Holders = {} /\ In({"waiting"}) = {}
  BY DEF Init, Holders, In
<1>2. Cardinality(Holders) = 0
  BY <1>1, FS_EmptySet
<1>3. permits \in Nat /\ pc \in [Thread -> Where] /\ poisoned \in BOOLEAN
  BY PermitsAssumption DEF Init, Where
<1>4. PermitsConserved
  BY <1>2, PermitsAssumption DEF Init, PermitsConserved
<1> QED
  BY <1>1, <1>3, <1>4 DEF PermitsInv, NoLostWakeup

\* The inductive invariant holds.
LEMMA PermitsInvariant == Spec => []PermitsInv
BY PermitsInit, PermitsStep, PTL DEF Spec

\* The number of free permits stays within the size of the pool.
LEMMA PermitsBounded == PermitsInv => permits \in 0..MaxConnections
BY CountTypes, PermitsAssumption DEF PermitsInv, PermitsConserved

\* The counter of free permits never leaves 0..MaxConnections: no underflow
\* in get, and Drop returns no permit that was not taken.
THEOREM PermitsTypeOK == Spec => []TypeOK
<1>1. PermitsInv => TypeOK
  BY PermitsBounded DEF PermitsInv, TypeOK
<1> QED
  BY <1>1, PermitsInvariant, PTL

\* Free permits and connections always add up to the pool's size.
THEOREM PermitsAreConserved == Spec => []PermitsConserved
<1>1. PermitsInv => PermitsConserved
  BY DEF PermitsInv
<1> QED
  BY <1>1, PermitsInvariant, PTL

\* Every free permit that somebody waits for has a woken thread of its own.
THEOREM WakeupsAreNotLost == Spec => []NoLostWakeup
<1>1. PermitsInv => NoLostWakeup
  BY DEF PermitsInv
<1> QED
  BY <1>1, PermitsInvariant, PTL

-----------------------------------------------------------------------------
(* Refinement *)

\* Cardinality of the instanced Semaphore is the Cardinality of this module.
LEMMA SemCardinality == \A S : Sem!Cardinality(S) = Cardinality(S)
BY DEF Sem!Cardinality, Cardinality

\* A thread that takes a permit becomes a holder the semaphore has room for.
LEMMA TakeAcquires ==
    ASSUME PermitsInv, NEW t \in Thread, pc[t] \in {"idle", "woken"}, permits > 0,
           Goto(t, "capacity")
    PROVE  Sem!Next
<1>1. t \notin Holders /\ Holders' = Holders \cup {t}
  BY DEF PermitsInv, Holders, In, Goto
<1>2. Cardinality(Holders) < MaxConnections
  BY CountTypes, PermitsAssumption DEF PermitsInv, PermitsConserved
<1> QED
  BY <1>1, <1>2, SemCardinality DEF Sem!Next, Sem!Acquire

\* Every step of the checkout is a step of the semaphore or leaves it alone.
LEMMA SemaphoreStep == PermitsInv /\ [Next]_vars => [Sem!Next]_Holders
<1> SUFFICES ASSUME PermitsInv, [Next]_vars PROVE [Sem!Next]_Holders
  OBVIOUS
<1> USE DEF PermitsInv
<1>1. CASE UNCHANGED vars
  BY <1>1 DEF Holders, In, vars
<1>2. ASSUME NEW t \in Thread, pc[t] \in {"idle", "woken"}, TakeOrWait(t)
      PROVE  [Sem!Next]_Holders
  <2>1. CASE Goto(t, "waiting")
    BY <1>2, <2>1 DEF Goto, Holders, In
  <2> QED
    BY <1>2, <2>1, TakeAcquires DEF TakeOrWait
<1>3. ASSUME NEW t \in Thread, get(t) \/ resume(t) PROVE [Sem!Next]_Holders
  BY <1>2, <1>3 DEF get, resume
<1>4. ASSUME NEW t \in Thread, try_get(t) PROVE [Sem!Next]_Holders
  BY <1>4, TakeAcquires DEF try_get
<1>5. ASSUME NEW t \in Thread,
             \/ SpuriousWakeup(t) \/ ReadCapacity(t) \/ Execute(t) \/ Executed(t)
             \/ Panic(t) \/ DropLocks(t)
      PROVE  [Sem!Next]_Holders
  <2>1. Holders' = Holders
    BY <1>5 DEF SpuriousWakeup, ReadCapacity, Execute, Executed, Panic, DropLocks, Goto, Holders, In
  <2> QED
    BY <2>1
<1>6. ASSUME NEW t \in Thread, CapacityError(t) PROVE [Sem!Next]_Holders
  BY <1>6 DEF CapacityError, Goto, Holders, In, Sem!Next, Sem!Release
<1>7. ASSUME NEW t \in Thread, ReturnPermit(t) PROVE [Sem!Next]_Holders
  <2>1. pc[t] = "dropping"
    BY <1>7 DEF ReturnPermit
  <2>2. CASE Goto(t, "idle")
    BY <2>1, <2>2 DEF Goto, Holders, In, Sem!Next, Sem!Release
  <2>3. ASSUME NEW w \in In({"waiting"}), Notify(t, w) PROVE Sem!Next
    <3>1. w \in Thread /\ pc[w] = "waiting" /\ w # t
      BY <2>1 DEF In
    <3>2. t \in Holders /\ Holders' = Holders \ {t}
      BY <2>1, <2>3, <3>1 DEF Notify, Holders, In
    <3> QED
      BY <3>2 DEF Sem!Next, Sem!Release
  <2> QED
    BY <1>7, <2>2, <2>3 DEF ReturnPermit
<1> QED
  BY <1>1, <1>3, <1>4, <1>5, <1>6, <1>7 DEF Next

\* The permits and the condition variable implement a counting semaphore:
\* never more than MaxConnections connections are out.
THEOREM CheckoutIsSemaphore == Spec => ImplementsSemaphore
<1>1. Init => Sem!Init
  BY DEF Init, Sem!Init, Holders, In
<1> QED
  BY <1>1, SemaphoreStep, PermitsInvariant, PTL DEF Spec, ImplementsSemaphore, Sem!Spec
=============================================================================
