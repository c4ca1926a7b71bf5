-------------------------- MODULE MCPostgresBackend --------------------------
(* The PostgreSQL backend on small instances. *)
EXTENDS PostgresBackend, TLC

CONSTANTS c1, c2, h1, h2

Symmetry == Permutations(Conns) \union Permutations(HolderIDs)
=============================================================================
