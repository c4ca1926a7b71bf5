---------------------------- MODULE MCLeaseClient ----------------------------
(***************************************************************************)
(* Two sessions of two processes that compete for one work ID.             *)
(***************************************************************************)
EXTENDS LeaseClient, TLC

CONSTANTS s1, s2, h1

(* Two processes that were configured with the same holder ID, so that     *)
(* only the fencing token tells them apart.                                *)
MCSameHolder == s1 :> h1 @@ s2 :> h1

(* A single session, for the liveness of its goroutines. *)
MCOneSession == s1 :> h1

(* With the same holder ID the sessions are interchangeable. *)
Symmetry == Permutations(Sessions)
=============================================================================
