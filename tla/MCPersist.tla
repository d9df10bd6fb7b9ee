----------------------------- MODULE MCPersist -----------------------------
(* Two databases of one process, in one directory. *)
EXTENDS Persist, TLC

CONSTANTS a, b
DbSymmetry == Permutations(Db)

\* "a.db" and "b.db"; and "a.db" and "a.bak", which differ in their extension.
\* A temporary name is named after the database whose stem it has.
DistinctStems == a :> a @@ b :> b
SameStem == a :> a @@ b :> a

\* Whether the directory can be synced makes no difference to a database that
\* never syncs: one of the two cases is enough.
OneNever == \A d \in Db : fsync_mode[d] = "Never" => parent[d]
=============================================================================
