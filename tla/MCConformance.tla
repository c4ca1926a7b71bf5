--------------------------- MODULE MCConformance ---------------------------
(***************************************************************************)
(* The conformance suite on a clock that between two calls stands still,   *)
(* moves by a retention, by two, or by a whole TTL, and that moves by at   *)
(* most one inside a call.                                                 *)
(***************************************************************************)
EXTENDS Conformance

MCExpired == -1
=============================================================================
