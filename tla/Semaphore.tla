----------------------------- MODULE Semaphore -----------------------------
(***************************************************************************)
(* What the pool's checkout promises: at most Size threads hold a          *)
(* connection at a time, and each returns the one it holds.                *)
(***************************************************************************)
EXTENDS Integers, FiniteSets

CONSTANTS Thread, Size
VARIABLE holders

Init == holders = {}

Acquire(t) ==
    /\ t \notin holders /\ Cardinality(holders) < Size
    /\ holders' = holders \cup {t}

Release(t) == t \in holders /\ holders' = holders \ {t}

Next == \E t \in Thread : Acquire(t) \/ Release(t)
Spec == Init /\ [][Next]_holders
=============================================================================
