----------------------------- MODULE MCPermits -----------------------------
(* Six threads share a pool of three connections. *)
EXTENDS Permits
=============================================================================
