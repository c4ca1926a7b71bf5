----------------------------- MODULE LeaseClient -----------------------------
(***************************************************************************)
(* The lease client of package worklease (acquire.go, renewal.go and the   *)
(* delegating methods of worklease.go) over one backend.  Sessions compete *)
(* for one work ID.  A session is one use of the library: Acquire, maybe   *)
(* polling, StartRenewal, work, stopRenewal, Release; it may crash at any  *)
(* point.  Its renewal goroutine and the goroutine of each Renew call run  *)
(* concurrently with it.                                                   *)
(*                                                                         *)
(* The backend has the memory backend's semantics, but a call may also     *)
(* fail with a driver error, before or after it took effect, as any other  *)
(* Backend's may.  Local clocks differ from the backend's by Offset.  The  *)
(* lengths of the ticker and of the backoffs are left open: those timers   *)
(* may fire at any moment, while a window timer fires only once the window *)
(* has closed, and possibly late.                                          *)
(***************************************************************************)
EXTENDS Backend

CONSTANTS Sessions, HolderOf, Work, TTL, Offset,
          Modes,   \* exit modes sessions declare
          Retentions, Grace, MaxStall, MaxTime, MaxSeq

ASSUME ClientAssumption ==
    /\ HolderOf \in [Sessions -> HolderIDs]
    /\ Work \in WorkIDs
    /\ TTL \in Nat \ {0}
    /\ Offset \in Int
    /\ Modes \subseteq ExitModes
    /\ Retentions \subseteq Nat \ {0}
    /\ Grace \in Nat \ {0}
    /\ MaxStall \in Nat /\ MaxTime \in Nat /\ MaxSeq \in Nat

VARIABLES
    records, seq, now, ledger,    \* the backend
    pc, tok, start, reply,        \* the session's own thread
    ren, window, published,       \* its renewal goroutine
    cause, parent,                \* the renewal context
    callAt, callStart, callErr    \* its Renew call in flight

storeVars == <<records, seq, now, ledger>>
appVars   == <<pc, tok, start, reply>>
renVars   == <<ren, window, published, cause>>
callVars  == <<callAt, callStart, callErr>>
vars      == <<storeVars, appVars, renVars, parent, callVars>>

B == INSTANCE MemoryBackend WITH TTLs <- {TTL}

ErrOther == "driver error"

(* Values of cause: what the goroutine cancelled the renewal context with. *)
NoCause        == "none"
CauseFenced    == "ErrFenced"
CauseExhausted == "ErrLeaseWindowExhausted"
CauseExpired   == "ErrLeaseWindowExhausted+ErrLeaseExpired"

Local == now + Offset

rec(s) == [WorkID |-> Work, HolderID |-> HolderOf[s], FencingToken |-> tok[s]]

HasToken(s) == pc[s] \in {"held", "stopping", "stopped"}

(* stopCh is closed. *)
StopRequested(s) == pc[s] = "stopping"

(* The renewal goroutine moves to l. *)
Goto(s, l) == ren' = [ren EXCEPT ![s] = l]

(* The renewal context is done. *)
Done(s) == cause[s] # NoCause \/ parent[s]

(* Only the first cancellation of a context sets its cause. *)
CancelCause(s, c) == cause' = [cause EXCEPT ![s] = IF Done(s) THEN @ ELSE c]

(* Mutant: a window that closes one instant early. *)
WindowClosedEarly(s) == ~(Local < window[s] - 1)

WindowClosed(s) == ~(Local < window[s])

(* LeaseWindow reports an end that has not passed, and the session has not *)
(* called Release or Forget: it may act on the belief that nobody else     *)
(* holds the lease.  LeaseWindow itself goes on reporting the window after *)
(* those two calls; a caller that has given its lease up must not ask.     *)
WindowOpen(s) == HasToken(s) /\ ~Done(s) /\ Local < published[s]

Init ==
    /\ B!New
    /\ pc = [s \in Sessions |-> "idle"]
    /\ tok = [s \in Sessions |-> 0]
    /\ start = [s \in Sessions |-> 0]
    /\ reply = [s \in Sessions |-> "none"]
    /\ ren = [s \in Sessions |-> "off"]
    /\ window = [s \in Sessions |-> 0]
    /\ published = [s \in Sessions |-> 0]
    /\ cause = [s \in Sessions |-> NoCause]
    /\ parent = [s \in Sessions |-> FALSE]
    /\ callAt = [s \in Sessions |-> "none"]
    /\ callStart = [s \in Sessions |-> 0]
    /\ callErr = [s \in Sessions |-> "none"]

-----------------------------------------------------------------------------
(* Acquire: a local start, the backend call, its return.                   *)

AcquireBegin(s) ==
    /\ pc[s] \in {"idle", "polling"}
    /\ pc' = [pc EXCEPT ![s] = "acquiring"]
    /\ start' = [start EXCEPT ![s] = Local]
    /\ UNCHANGED <<storeVars, tok, reply, renVars, parent, callVars>>

(* err is what the caller sees: the backend's result, or a driver error    *)
(* although the call took effect.                                          *)
AcquireTakesEffect(s, rd, lost) ==
    /\ pc[s] = "acquiring" /\ reply[s] = "none"
    /\ B!Acquire(Work, HolderOf[s], TTL, rd)
    /\ reply' = [reply EXCEPT ![s] = IF lost THEN ErrOther ELSE B!AcquireResult(Work)]
    /\ tok' = [tok EXCEPT ![s] = IF B!AcquireResult(Work) = OK /\ ~lost
                                 THEN B!nextToken(Work) ELSE @]
    /\ UNCHANGED <<pc, start, renVars, parent, callVars>>

AcquireFails(s) ==
    /\ pc[s] = "acquiring" /\ reply[s] = "none"
    /\ reply' = [reply EXCEPT ![s] = ErrOther]
    /\ UNCHANGED <<storeVars, pc, tok, start, renVars, parent, callVars>>

(* Mutant: the window is counted from the return of Acquire. *)
newTokenAtReturn(s) == Local + TTL

(* The deadline of a token: the local start of the acquiring call plus TTL. *)
newToken(s) == start[s] + TTL

(* Acquire returns a token and StartRenewal is called on it. *)
StartRenewal(s) ==
    /\ pc[s] = "acquiring" /\ reply[s] = OK
    /\ pc' = [pc EXCEPT ![s] = "held"]
    /\ reply' = [reply EXCEPT ![s] = "none"]
    /\ window' = [window EXCEPT ![s] = newToken(s)]
    /\ published' = [published EXCEPT ![s] = newToken(s)]
    /\ Goto(s, "select")
    /\ start' = [start EXCEPT ![s] = 0]
    /\ UNCHANGED <<storeVars, tok, cause, parent, callVars>>

(* Refused: with WithWaitForLease wait for the poll timer, otherwise give  *)
(* up; any other error is returned at once.                                *)
AcquireRefused(s, waits) ==
    /\ pc[s] = "acquiring" /\ reply[s] \in {ErrLeaseHeld, ErrOther}
    /\ pc' = [pc EXCEPT ![s] = IF waits /\ reply[s] = ErrLeaseHeld THEN "polling" ELSE "over"]
    /\ reply' = [reply EXCEPT ![s] = "none"]
    /\ start' = [start EXCEPT ![s] = 0]
    /\ UNCHANGED <<storeVars, tok, renVars, parent, callVars>>

(* The caller's context ends while Acquire waits for its next poll. *)
PollCancelled(s) ==
    /\ pc[s] = "polling"
    /\ pc' = [pc EXCEPT ![s] = "over"]
    /\ UNCHANGED <<storeVars, tok, start, reply, renVars, parent, callVars>>

-----------------------------------------------------------------------------
(* The renewal goroutine.  ren is where it is: in the outer select, about  *)
(* to launch a Renew call, waiting on that call, in a backoff, about to    *)
(* publish a new window, or exited.                                        *)

(* Mutant: renewAttempt waits on the Renew call alone. *)
WaitingNotOnCall(s) == ren[s] \in {"select", "backoff"}

Waiting(s) == ren[s] \in {"select", "attempt", "backoff"}

(* Each of the three selects has these three cases. *)
SeesStop(s) ==
    /\ Waiting(s) /\ StopRequested(s)
    /\ Goto(s, "exited")
    /\ UNCHANGED <<storeVars, appVars, window, published, cause, parent, callVars>>

SeesParentDone(s) ==
    /\ Waiting(s) /\ parent[s]
    /\ Goto(s, "exited")
    /\ UNCHANGED <<storeVars, appVars, window, published, cause, parent, callVars>>

(* Mutant: exits without cancelling the renewal context. *)
SeesWindowClosedSilently(s) ==
    /\ Waiting(s) /\ WindowClosed(s)
    /\ Goto(s, "exited")
    /\ UNCHANGED <<storeVars, appVars, window, published, cause, parent, callVars>>

SeesWindowClosed(s) ==
    /\ Waiting(s) /\ WindowClosed(s)
    /\ CancelCause(s, CauseExhausted)
    /\ Goto(s, "exited")
    /\ UNCHANGED <<storeVars, appVars, window, published, parent, callVars>>

(* The ticker or the backoff timer fires; the window is checked again, as  *)
(* the select may have preferred the timer to a closed window.             *)
TimerFires(s) ==
    /\ ren[s] \in {"select", "backoff"}
    /\ IF WindowClosed(s)
       THEN CancelCause(s, CauseExhausted) /\ Goto(s, "exited")
       ELSE Goto(s, "launch") /\ UNCHANGED cause
    /\ UNCHANGED <<storeVars, appVars, window, published, parent, callVars>>

(* renewAttempt reads its start and launches the call on its own goroutine. *)
LaunchRenew(s) ==
    /\ ren[s] = "launch"
    /\ callAt' = [callAt EXCEPT ![s] = "sent"]
    /\ callStart' = [callStart EXCEPT ![s] = Local]
    /\ Goto(s, "attempt")
    /\ UNCHANGED <<storeVars, appVars, window, published, cause, parent, callErr>>

(* Mutant: the window is counted from the arrival of the result. *)
RenewedWindowAtReturn(s) == Local + TTL

RenewedWindow(s) == callStart[s] + TTL

(* The call's result arrives while the goroutine still waits for it. *)
TakesResult(s) ==
    /\ ren[s] = "attempt" /\ callAt[s] = "answered"
    /\ callAt' = [callAt EXCEPT ![s] = "none"]
    /\ callStart' = [callStart EXCEPT ![s] = 0]
    /\ callErr' = [callErr EXCEPT ![s] = "none"]
    /\ \/ /\ callErr[s] = OK
          /\ window' = [window EXCEPT ![s] = RenewedWindow(s)]
          /\ Goto(s, "publish")
          /\ UNCHANGED cause
       \/ /\ callErr[s] = ErrFenced
          /\ CancelCause(s, CauseFenced)
          /\ Goto(s, "exited")
          /\ UNCHANGED window
       \/ /\ callErr[s] = ErrLeaseExpired
          /\ CancelCause(s, CauseExpired)
          /\ Goto(s, "exited")
          /\ UNCHANGED window
       \/ /\ callErr[s] \in {ErrOther, ErrContext}
          /\ IF WindowClosed(s)
             THEN CancelCause(s, CauseExhausted) /\ Goto(s, "exited")
             ELSE Goto(s, "backoff") /\ UNCHANGED cause
          /\ UNCHANGED window
    /\ UNCHANGED <<storeVars, appVars, published, parent>>

(* tw.end.Store: from here on LeaseWindow reports the renewed window. *)
Publish(s) ==
    /\ ren[s] = "publish"
    /\ published' = [published EXCEPT ![s] = window[s]]
    /\ Goto(s, "select")
    /\ UNCHANGED <<storeVars, appVars, window, cause, parent, callVars>>

Goroutine(s) == \/ SeesStop(s) \/ SeesParentDone(s) \/ SeesWindowClosed(s) \/ TimerFires(s)
                \/ LaunchRenew(s) \/ TakesResult(s) \/ Publish(s)

-----------------------------------------------------------------------------
(* The goroutine of a Renew call.  Its context is done once the attempt is *)
(* abandoned, the parent is cancelled or the window has closed; the method *)
(* looks at the context once, before it waits for the mutex.               *)

CallContextDone(s) == ren[s] # "attempt" \/ parent[s] \/ WindowClosed(s)

(* The result goes into the buffered channel; nobody reads it there once   *)
(* the attempt is abandoned.                                               *)
Answer(s, err) ==
    /\ IF ren[s] = "attempt"
       THEN /\ callAt' = [callAt EXCEPT ![s] = "answered"]
            /\ callErr' = [callErr EXCEPT ![s] = err]
            /\ UNCHANGED callStart
       ELSE /\ callAt' = [callAt EXCEPT ![s] = "none"]
            /\ callStart' = [callStart EXCEPT ![s] = 0]
            /\ UNCHANGED callErr
    /\ UNCHANGED <<appVars, renVars, parent>>

RenewEnters(s) ==
    /\ callAt[s] = "sent"
    /\ IF CallContextDone(s)
       THEN Answer(s, ErrContext)
       ELSE /\ callAt' = [callAt EXCEPT ![s] = "entered"]
            /\ UNCHANGED <<appVars, renVars, parent, callStart, callErr>>
    /\ UNCHANGED storeVars

RenewTakesEffect(s, rd, lost) ==
    /\ callAt[s] = "entered"
    /\ B!Renew(rec(s), TTL, rd)
    /\ Answer(s, IF lost THEN ErrOther ELSE B!RenewResult(rec(s)))

RenewFails(s) ==
    /\ callAt[s] = "entered"
    /\ Answer(s, ErrOther)
    /\ UNCHANGED storeVars

-----------------------------------------------------------------------------
(* The session's thread once it holds a token.                             *)

CheckpointWork(s, state, rd) ==
    /\ HasToken(s)
    /\ B!Checkpoint(rec(s), state, TTL, rd)
    /\ UNCHANGED <<appVars, renVars, parent, callVars>>

(* A Renew of the caller's own; the tracked window does not advance. *)
RenewLease(s, rd) ==
    /\ HasToken(s)
    /\ B!Renew(rec(s), TTL, rd)
    /\ UNCHANGED <<appVars, renVars, parent, callVars>>

CancelParent(s) ==
    /\ HasToken(s) /\ ~parent[s]
    /\ parent' = [parent EXCEPT ![s] = TRUE]
    /\ UNCHANGED <<storeVars, appVars, renVars, callVars>>

(* stopRenewal closes stopCh, then waits for the goroutine only. *)
StopRenewal(s) ==
    /\ pc[s] = "held"
    /\ pc' = [pc EXCEPT ![s] = "stopping"]
    /\ UNCHANGED <<storeVars, tok, start, reply, renVars, parent, callVars>>

StopReturns(s) ==
    /\ pc[s] = "stopping" /\ ren[s] = "exited"
    /\ pc' = [pc EXCEPT ![s] = "stopped"]
    /\ UNCHANGED <<storeVars, tok, start, reply, renVars, parent, callVars>>

(* The session drops its renewal context and moves to l. *)
LeaveTo(s, l) ==
    /\ pc' = [pc EXCEPT ![s] = l]
    /\ Goto(s, "exited")
    /\ window' = [window EXCEPT ![s] = 0]
    /\ published' = [published EXCEPT ![s] = 0]
    /\ cause' = [cause EXCEPT ![s] = NoCause]
    /\ parent' = [parent EXCEPT ![s] = FALSE]
    /\ start' = [start EXCEPT ![s] = 0]
    /\ reply' = [reply EXCEPT ![s] = "none"]
    /\ UNCHANGED <<tok, callVars>>

Leave(s) == LeaveTo(s, "over")

(* Release follows stopRenewal; a Renew call may still be in flight.  The  *)
(* reply may be lost: the caller then releases again, or gives up.  A call *)
(* without effect leaves the session stopped.                              *)
ReleaseLease(s, mode, rd, lost) ==
    /\ pc[s] \in {"stopped", "released"}
    /\ B!Release(rec(s), mode, rd)
    /\ LeaveTo(s, IF lost THEN "released" ELSE "over")

ForgetLease(s) ==
    /\ pc[s] = "stopped"
    /\ B!Forget(rec(s))
    /\ Leave(s)

(* The process dies.  What it sent may still reach the backend; while an   *)
(* Acquire call is in flight this is the case of a lost reply.             *)
Crash(s) ==
    /\ pc[s] \notin {"idle", "over"} /\ ~(pc[s] = "acquiring" /\ reply[s] = "none")
    /\ Leave(s)
    /\ UNCHANGED storeVars

VacuumSweep(retention, includeExpired) ==
    /\ B!Sweep(retention, includeExpired)
    /\ UNCHANGED <<appVars, renVars, parent, callVars>>

Tick == B!Tick /\ UNCHANGED <<appVars, renVars, parent, callVars>>

SessionStep(s) ==
    \/ AcquireBegin(s) \/ AcquireFails(s) \/ StartRenewal(s) \/ PollCancelled(s)
    \/ \E rd \in B!Readings, lost \in BOOLEAN : AcquireTakesEffect(s, rd, lost)
    \/ \E waits \in BOOLEAN : AcquireRefused(s, waits)
    \/ \E state \in States \union {NoState}, rd \in B!Readings : CheckpointWork(s, state, rd)
    \/ \E rd \in B!Readings : RenewLease(s, rd)
    \/ CancelParent(s) \/ StopRenewal(s) \/ StopReturns(s)
    \/ \E mode \in Modes, rd \in B!Readings, lost \in BOOLEAN : ReleaseLease(s, mode, rd, lost)
    \/ ForgetLease(s) \/ Crash(s)

CallStep(s) ==
    \/ RenewEnters(s) \/ RenewFails(s)
    \/ \E rd \in B!Readings, lost \in BOOLEAN : RenewTakesEffect(s, rd, lost)

Next ==
    \/ \E s \in Sessions : SessionStep(s) \/ Goroutine(s) \/ CallStep(s)
    \/ \E retention \in Retentions, includeExpired \in BOOLEAN : VacuumSweep(retention, includeExpired)
    \/ Tick

Spec == Init /\ [][Next]_vars

(* A goroutine that can run does run, and its selects do not prefer other  *)
(* ready cases to a closed stopCh for ever: Go picks among ready cases     *)
(* uniformly.  Nothing is assumed of the backend: calls may hang.          *)
FairSpec ==
    /\ Spec
    /\ \A s \in Sessions : /\ WF_vars(Goroutine(s)) /\ SF_vars(SeesStop(s))
                           /\ WF_vars(StopReturns(s))

-----------------------------------------------------------------------------
(* Every variable keeps its type, the backend's included (worklease.go,    *)
(* renewal.go: one renewal goroutine and one Renew call per session).      *)
TypeOK ==
    /\ B!TypeOK
    /\ pc \in [Sessions -> {"idle", "acquiring", "polling", "held", "stopping", "stopped", "released", "over"}]
    /\ tok \in [Sessions -> Nat]
    /\ start \in [Sessions -> Int]
    /\ reply \in [Sessions -> {"none", OK, ErrLeaseHeld, ErrOther}]
    /\ ren \in [Sessions -> {"off", "select", "launch", "attempt", "backoff", "publish", "exited"}]
    /\ window \in [Sessions -> Int] /\ published \in [Sessions -> Int]
    /\ cause \in [Sessions -> {NoCause, CauseFenced, CauseExhausted, CauseExpired}]
    /\ parent \in [Sessions -> BOOLEAN]
    /\ callAt \in [Sessions -> {"none", "sent", "entered", "answered"}]
    /\ callStart \in [Sessions -> Int]
    /\ callErr \in [Sessions -> {"none", OK, ErrFenced, ErrLeaseExpired, ErrContext, ErrOther}]

(* Until a session's own Release or Forget, while LeaseWindow reports an   *)
(* open window, the stored lease is the session's own, without a declared  *)
(* exit, and expires no earlier than the window: no clock offset, late     *)
(* reply, lost reply, concurrent Checkpoint, abandoned Renew, Sweep or     *)
(* competitor undercuts it (renewal.go: the window is a local start plus   *)
(* TTL).                                                                   *)
WindowWithinExpiry ==
    \A s \in Sessions : WindowOpen(s) =>
        /\ Work \in DOMAIN records
        /\ records[Work].fencingToken = tok[s]
        /\ records[Work].exitMode = ExitNone
        /\ published[s] <= records[Work].expiresAt + Offset

(* Two sessions, neither of which has called Release or Forget, never have *)
(* an open window at the same time.                                        *)
OneOpenWindow ==
    \A s, u \in Sessions : WindowOpen(s) /\ WindowOpen(u) => s = u

(* The cause of a cancelled renewal context is the truth, also when the    *)
(* reply it rests on was slow: ErrFenced means that the session will never *)
(* again match the stored lease, and a window cause, with or without       *)
(* ErrLeaseExpired, means that its window has closed (renewal.go           *)
(* renewCycle).                                                            *)
CauseIsTrue ==
    \A s \in Sessions :
        /\ cause[s] = CauseFenced => B!Fenced(rec(s))
        /\ cause[s] \in {CauseExhausted, CauseExpired} => Local >= window[s]

(* Once a holder has declared its exit, a successor is not kept out by the *)
(* old holder's Renew call that was still in flight when stopRenewal       *)
(* returned (renewal.go: stopRenewal does not wait for the call).          *)
ReleasedStaysFree == B!HandoffIsImmediate

(* stopRenewal returns, also while a Renew call hangs for ever.            *)
StopRenewalReturns ==
    \A s \in Sessions : pc[s] = "stopping" ~> pc[s] # "stopping"

(* A holder whose window has closed is told: its renewal context is done,  *)
(* or it was renewed after all, or it has itself stopped (renewal.go: the  *)
(* goroutine cancels wherever it waits, and never waits on a call alone).  *)
LossIsSignalled ==
    \A s \in Sessions :
        (pc[s] = "held" /\ WindowClosed(s)) ~> (Done(s) \/ pc[s] # "held" \/ ~WindowClosed(s))
=============================================================================
