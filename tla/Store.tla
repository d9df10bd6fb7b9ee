------------------------------- MODULE Store -------------------------------
(***************************************************************************)
(* What a file-backed Database promises: durable data that changes only by *)
(* whole statements outside a transaction and by whole transactions, and   *)
(* that survives the end of the process; staged data that is dropped.      *)
(***************************************************************************)
EXTENDS Integers, Sequences

VARIABLES durable,      \* table name -> contents, as a new process would find it
          staged        \* <<>>, or <<the contents the open transaction sees>>

vars == <<durable, staged>>

\* A statement touches at most one table, and no statement drops one.
OneStatement(a, b) ==
    /\ DOMAIN a \subseteq DOMAIN b
    /\ \E n \in DOMAIN b : \A m \in DOMAIN b \ {n} : m \in DOMAIN a /\ b[m] = a[m]

Init == DOMAIN durable = {} /\ staged = <<>>

Autocommit == staged = <<>> /\ OneStatement(durable, durable') /\ UNCHANGED staged
Begin == staged = <<>> /\ staged' = <<durable>> /\ UNCHANGED durable
Stage ==
    /\ staged # <<>> /\ Len(staged') = 1
    /\ OneStatement(staged[1], staged'[1])
    /\ UNCHANGED durable
Commit == staged # <<>> /\ durable' = staged[1] /\ staged' = <<>>
Discard == staged # <<>> /\ staged' = <<>> /\ UNCHANGED durable

Next == Autocommit \/ Begin \/ Stage \/ Commit \/ Discard
Spec == Init /\ [][Next]_vars
=============================================================================
