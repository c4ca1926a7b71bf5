------------------------------ MODULE MCLeader ------------------------------
(***************************************************************************)
(* Two processes that compete for leadership.                              *)
(***************************************************************************)
EXTENDS Leader, TLC

CONSTANTS e1, e2, h1

MCHolderOf == [e \in Elects |-> h1]
=============================================================================
