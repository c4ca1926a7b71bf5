------------------------------- MODULE Backend -------------------------------
(***************************************************************************)
(* The vocabulary every storage backend shares: exit modes, error results  *)
(* and lease records, from backend/backend.go and backend/errors.go.       *)
(* Work IDs, holder IDs and checkpoint states are opaque to the library,   *)
(* so they are members of constant sets.                                   *)
(***************************************************************************)
EXTENDS Integers

CONSTANTS
    WorkIDs,    \* identifiers of units of work
    HolderIDs,  \* Config.HolderID values; the empty string is rejected by New
    NoHolder,   \* the empty string, the PrevHolderID of a new row
    States,     \* checkpoint payloads of at least one byte
    NoState     \* a nil checkpoint state

ASSUME NamesAssumption == NoHolder \notin HolderIDs /\ NoState \notin States

ExitNone      == "none"
ExitFinished  == "finished"
ExitAbandoned == "abandoned"
ExitRetired   == "retired"
ExitExpired   == "expired"

ExitModes == {ExitNone, ExitFinished, ExitAbandoned, ExitRetired, ExitExpired}

(* The modes Release accepts. *)
DeclarableExits == {ExitFinished, ExitAbandoned, ExitRetired}

(* What a row may store as its current holder's exit. *)
StoredExits == {ExitNone} \union DeclarableExits

(* The exit a reacquisition captures: the declared one, or ExitExpired. *)
CapturedExit(stored) == IF stored = ExitNone THEN ExitExpired ELSE stored

(* Results of a backend call: success, a sentinel, or the context's error. *)
OK                 == "ok"
ErrFenced          == "ErrFenced"
ErrLeaseHeld       == "ErrLeaseHeld"
ErrLeaseExpired    == "ErrLeaseExpired"
ErrInvalidExitMode == "ErrInvalidExitMode"
ErrContext         == "ctx.Err()"

(* The fields of a LeaseRecord that a backend compares. *)
LeaseRecord == [WorkID : WorkIDs, HolderID : HolderIDs, FencingToken : Nat]
=============================================================================
