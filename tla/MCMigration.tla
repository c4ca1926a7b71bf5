---------------------------- MODULE MCMigration ----------------------------
(***************************************************************************)
(* Two tenants, and two coordinators at a time.                            *)
(***************************************************************************)
EXTENDS Migration, TLC

CONSTANTS r1, r2, w1, h1, t1, t2

MCTenants == <<t1, t2>>
MCWorkOf == [r \in Runs |-> w1]
MCHolderOf == [r \in Runs |-> h1]

(* Every cursor the migration can reach. *)
MCStates == {Encode(SubSeq(MCTenants, 1, n)) : n \in 0..2}
MCFinals == MCStates \union {NoState}

(* The runs of one work ID and one holder ID are interchangeable. *)
Symmetry == Permutations(Runs)
=============================================================================
