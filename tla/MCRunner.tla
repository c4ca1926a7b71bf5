------------------------------ MODULE MCRunner ------------------------------
(***************************************************************************)
(* Runs of two processes that compete for one work ID.                     *)
(***************************************************************************)
EXTENDS Runner, TLC

CONSTANTS r1, r2, w1, h1

MCWorkOf == [r \in Runs |-> w1]
MCHolderOf == [r \in Runs |-> h1]

(* The runs of one work ID and one holder ID are interchangeable. *)
Symmetry == Permutations(Runs)
=============================================================================
