------------------------------- MODULE MCPool -------------------------------
(***************************************************************************)
(* A pool of two work IDs, and at most one competing process.              *)
(***************************************************************************)
EXTENDS Pool, TLC

CONSTANTS r1, r2, r3, w1, w2, h1

(* r1 and r2 are the slots of the pool, r3 competes for the first. *)
MCWorkOf == [r \in Runs |-> IF r = r2 THEN w2 ELSE w1]
MCHolderOf == [r \in Runs |-> h1]
=============================================================================
