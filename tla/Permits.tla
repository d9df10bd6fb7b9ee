------------------------------ MODULE Permits ------------------------------
(***************************************************************************)
(* pool.rs' checkout: the permits mutex, the condition variable available, *)
(* and the shared mutex that get takes while it holds permits, as do the   *)
(* statements of the connections already out.                              *)
(*                                                                         *)
(* pc[t] is where thread t is:                                             *)
(*   "idle"       holds no connection;                                     *)
(*   "waiting"    in Condvar::wait, permits released;                      *)
(*   "woken"      wait is over, permits not yet locked again;              *)
(*   "capacity"   took a permit, holds permits, wants shared;              *)
(*   "connected"  has a connection without a transaction;                  *)
(*   "begun"      has a connection with a transaction;                     *)
(*   "executing"  holds shared;                                            *)
(*   "dropping"   gave up its locks, has not yet returned its permit.      *)
(* A mutex is held by the threads whose pc says so; lock is one action     *)
(* that is enabled when nobody holds it.  poisoned: a thread panicked      *)
(* while it held shared, and every later lock of shared is an error.       *)
(***************************************************************************)
EXTENDS Integers, FiniteSets

CONSTANTS Thread, MaxConnections

ASSUME PermitsAssumption ==
    /\ IsFiniteSet(Thread)
    /\ MaxConnections \in Nat \ {0}       \* from_database refuses a pool of size 0

VARIABLES permits, pc, poisoned
vars == <<permits, pc, poisoned>>

Where ==
    {"idle", "waiting", "woken", "capacity", "connected", "begun", "executing", "dropping"}
In(where) == {t \in Thread : pc[t] \in where}

PermitsFree == In({"capacity"}) = {}
SharedFree == In({"executing"}) = {}

Init ==
    /\ permits = MaxConnections
    /\ pc = [t \in Thread |-> "idle"]
    /\ poisoned = FALSE

Goto(t, where) == pc' = [pc EXCEPT ![t] = where]

\* (mutants) A permit is taken without a look at permits; or not counted.
TakeAlways(t) == Goto(t, "capacity") /\ permits' = permits - 1
TakeUncounted(t) ==
    \/ permits = 0 /\ Goto(t, "waiting") /\ UNCHANGED permits
    \/ permits > 0 /\ Goto(t, "capacity") /\ UNCHANGED permits

\* The loop of get, from the lock of permits or from the end of a wait: wait
\* while there is no permit, else take one.
TakeOrWait(t) ==
    \/ permits = 0 /\ Goto(t, "waiting") /\ UNCHANGED permits
    \/ permits > 0 /\ Goto(t, "capacity") /\ permits' = permits - 1

get(t) == pc[t] = "idle" /\ PermitsFree /\ TakeOrWait(t) /\ UNCHANGED poisoned
resume(t) == pc[t] = "woken" /\ PermitsFree /\ TakeOrWait(t) /\ UNCHANGED poisoned

\* A wait may end without a notification.
SpuriousWakeup(t) == pc[t] = "waiting" /\ Goto(t, "woken") /\ UNCHANGED <<permits, poisoned>>

\* try_get returns None, and changes nothing, when there is no permit.
try_get(t) ==
    /\ pc[t] = "idle" /\ PermitsFree /\ permits > 0
    /\ Goto(t, "capacity") /\ permits' = permits - 1 /\ UNCHANGED poisoned

\* get reads cache_capacity under shared, and only then unlocks permits.
ReadCapacity(t) ==
    /\ pc[t] = "capacity" /\ SharedFree /\ ~poisoned
    /\ Goto(t, "connected") /\ UNCHANGED <<permits, poisoned>>

\* The error of a poisoned shared leaves get after the permit was taken, and
\* no connection to return it.
CapacityError(t) ==
    /\ pc[t] = "capacity" /\ poisoned
    /\ Goto(t, "idle") /\ UNCHANGED <<permits, poisoned>>

\* With shared poisoned a statement is an error and changes nothing.  BEGIN, COMMIT
\* and ROLLBACK are statements too: one may leave a transaction open or end it.
Execute(t) ==
    /\ pc[t] \in {"connected", "begun"} /\ SharedFree /\ ~poisoned
    /\ Goto(t, "executing") /\ UNCHANGED <<permits, poisoned>>
Executed(t) ==
    /\ pc[t] = "executing"
    /\ \E after \in {"connected", "begun"} : Goto(t, after)
    /\ UNCHANGED <<permits, poisoned>>

\* A thread that panics in a statement drops its connection as it unwinds; the
\* connection's own transaction mutex is poisoned too, so Drop takes no lock
\* but permits.
Panic(t) ==
    pc[t] = "executing" /\ Goto(t, "dropping") /\ poisoned' = TRUE /\ UNCHANGED permits

\* Drop: with a transaction open, its row locks are given up under shared, which
\* must be free and is unlocked again; without one shared is not taken.  Then the
\* permit and notify_one, which wakes one waiter if there is one.
DropLocks(t) ==
    /\ pc[t] = "connected" \/ (pc[t] = "begun" /\ SharedFree)
    /\ Goto(t, "dropping") /\ UNCHANGED <<permits, poisoned>>

Notify(t, w) == pc' = [pc EXCEPT ![t] = "idle", ![w] = "woken"]

\* (mutant) The permit comes back without notify_one.
ReturnSilently(t) ==
    /\ pc[t] = "dropping" /\ PermitsFree /\ permits' = permits + 1
    /\ Goto(t, "idle") /\ UNCHANGED poisoned

ReturnPermit(t) ==
    /\ pc[t] = "dropping" /\ PermitsFree
    /\ permits' = permits + 1 /\ UNCHANGED poisoned
    /\ IF In({"waiting"}) = {} THEN Goto(t, "idle")
       ELSE \E w \in In({"waiting"}) : Notify(t, w)

Next ==
    \E t \in Thread :
        \/ get(t) \/ try_get(t) \/ resume(t) \/ SpuriousWakeup(t) \/ ReadCapacity(t)
        \/ CapacityError(t) \/ Execute(t) \/ Executed(t) \/ Panic(t) \/ DropLocks(t) \/ ReturnPermit(t)

Spec == Init /\ [][Next]_vars

\* A runnable thread inside the pool's code goes on: it finishes its statement,
\* its checkout and its drop, and a woken one relocks permits.  Nothing is
\* assumed of who calls get, nor that a mutex is granted in any order.
Fairness ==
    \A t \in Thread :
        /\ WF_vars(resume(t)) /\ WF_vars(ReadCapacity(t)) /\ WF_vars(CapacityError(t))
        /\ WF_vars(Executed(t) \/ Panic(t)) /\ WF_vars(ReturnPermit(t))

FairSpec == Spec /\ Fairness

-----------------------------------------------------------------------------
(* Properties *)

\* Every thread is at a known place and the permits, an unsigned count, stay
\* between 0 and the pool's size: no checkout takes one that is not there.
TypeOK ==
    permits \in 0..MaxConnections /\ pc \in [Thread -> Where] /\ poisoned \in BOOLEAN

Holders == In({"capacity", "connected", "begun", "executing", "dropping"})

\* No permit is made, and none is lost as long as shared is not poisoned: free
\* ones and connections add up to the size.  (Of a poisoned pool, each get that
\* returns the error loses one.)
PermitsConserved ==
    /\ permits + Cardinality(Holders) <= MaxConnections
    /\ ~poisoned => permits + Cardinality(Holders) = MaxConnections

\* A permit that is free while somebody waits has a woken thread on its way
\* to it: no wakeup is lost between the test of permits and the wait, nor to a
\* thread that barges in before the woken one (notify_one is enough).
NoLostWakeup == In({"waiting"}) # {} => permits <= Cardinality(In({"woken"}))

\* A free permit that somebody waits for is taken: some thread gets as far as
\* holding it.  (Whether that checkout then finishes depends on shared, which
\* the standard mutex may keep handing to the threads that execute.)
FreePermitIsTaken ==
    (permits > 0 /\ In({"waiting"}) # {}) ~>
        (permits = 0 \/ In({"waiting"}) = {} \/ In({"capacity"}) # {})

\* The checkout implements a counting semaphore.
Sem == INSTANCE Semaphore WITH holders <- Holders, Size <- MaxConnections
ImplementsSemaphore == Sem!Spec
=============================================================================
