---------------------------- MODULE LeaseService ----------------------------
(***************************************************************************)
(* The calls of worklease.Lease as worker.Runner, leader.Elect and         *)
(* pool.Pool meet them: each changes the ledger of LeaseContract and       *)
(* returns a result.  There are no clocks here, so a lease may lapse, and  *)
(* a competitor be granted the next tenure, at any moment.  Any call may   *)
(* also fail with a driver or context error, before or after it took       *)
(* effect.                                                                 *)
(***************************************************************************)
EXTENDS Backend

CONSTANT TokenSpace   \* the numbers a fencing token is drawn from

VARIABLE ledger       \* fencing token -> tenure

C == INSTANCE LeaseContract

Tokens == DOMAIN ledger

ErrOther == "driver error"

(* What a call may return instead of its own result. *)
Faults == {ErrOther, ErrContext}

(* The token no longer matches the stored lease. *)
Fenced(t) == ~C!Current(t)

(* What is stored for t, if it still matches, is state. *)
Stored(t, state) == C!Current(t) /\ C!TrueState(t, state)

AcquireCall(w, h, t, err) ==
    \/ err \in Faults \union {OK} /\ C!Grant(t, w, h)
    \/ err = ErrLeaseHeld /\ (\E u \in Tokens : ledger[u].work = w /\ C!Open(u)) /\ UNCHANGED ledger
    \/ err \in Faults /\ UNCHANGED ledger

(* PrevExit and PrevHolderID are left to the backends' modules. *)
ReadCheckpointCall(t, state, err) ==
    /\ \/ err = OK /\ Stored(t, state)
       \/ err = ErrFenced /\ Fenced(t)
       \/ err \in Faults
    /\ UNCHANGED ledger

(* A lapsed lease without successor is revived by the write; only a        *)
(* declared exit refuses it.                                               *)
CheckpointCall(t, state, err) ==
    \/ err \in Faults \union {OK} /\ C!Save(t, state)
    \/ err = ErrFenced /\ Fenced(t) /\ UNCHANGED ledger
    \/ err = ErrLeaseExpired /\ C!Current(t) /\ ledger[t].exit # ExitNone /\ UNCHANGED ledger
    \/ err \in Faults /\ UNCHANGED ledger

(* Expiry is a matter of clocks: Release may find any lease expired. *)
ReleaseCall(t, mode, err) ==
    \/ err \in Faults \union {OK} /\ C!Declare(t, mode)
    \/ err = ErrFenced /\ Fenced(t) /\ UNCHANGED ledger
    \/ err = ErrLeaseExpired /\ C!Current(t) /\ UNCHANGED ledger
    \/ err \in Faults /\ UNCHANGED ledger

(* A Sweep, or a Forget by an operator, deletes the stored row of t. *)
RowDeleted(t) == C!Current(t) /\ C!Erase({t})

-----------------------------------------------------------------------------
(* The cause of a renewal context that StartRenewal's goroutine cancelled. *)
NoCause        == "none"
CauseFenced    == "ErrFenced"
CauseExhausted == "ErrLeaseWindowExhausted"

(* What the renewal goroutine of t may cancel its context with: ErrFenced  *)
(* once a Renew was refused, an exhausted window at any time.              *)
RenewalLoss(t, c) == c = CauseExhausted \/ (c = CauseFenced /\ Fenced(t))
=============================================================================
