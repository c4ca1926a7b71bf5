------------------------------- MODULE Leader -------------------------------
(***************************************************************************)
(* leader.Elect: acquire, OnElected, fn under renewal, OnLost, release     *)
(* with the exit mode, OnRelinquished, and the waits that pace a caller    *)
(* looping over Elect.  Elects are calls of Elect by competing processes.  *)
(***************************************************************************)
EXTENDS LeaseService

CONSTANTS Elects, Work, HolderOf

ASSUME LeaderAssumption ==
    /\ Work \in WorkIDs /\ HolderOf \in [Elects -> HolderIDs]
    /\ TokenSpace \subseteq Nat \ {0}

VARIABLES
    pc, tok,          \* where Elect is and its token
    cancelled,        \* the context passed to Elect is done
    cause,            \* what the renewal goroutine cancelled the context with
    fnErr, result,    \* what fn returned and what Elect returns
    calls             \* the callbacks Elect has made

electVars == <<pc, tok, cancelled, cause, fnErr, result, calls>>
vars      == <<ledger, electVars>>

NilErr     == "nil"
ErrRetire  == "ErrRetire"
FnFailed   == "an error of fn"
ErrRelease == "leader: release"
Panicked   == "panic"
Unset      == "none"

FnErrs == {NilErr, ErrRetire, ErrFenced, FnFailed}

Init ==
    /\ C!Init
    /\ pc = [e \in Elects |-> "call"]
    /\ tok = [e \in Elects |-> 0]
    /\ cancelled = [e \in Elects |-> FALSE]
    /\ cause = [e \in Elects |-> NoCause]
    /\ fnErr = [e \in Elects |-> Unset]
    /\ result = [e \in Elects |-> Unset]
    /\ calls = [e \in Elects |-> {}]

Goto(e, l) == pc' = [pc EXCEPT ![e] = l]

Call(e, callback) == calls' = [calls EXCEPT ![e] = @ \union {callback}]

(* Elect will return err, after a wait or at once. *)
Leave(e, l, err) == Goto(e, l) /\ result' = [result EXCEPT ![e] = err]

(* renewCtx.Err() # nil. *)
RenewalDone(e) == cause[e] # NoCause \/ cancelled[e]

-----------------------------------------------------------------------------
(* Mutant: the token of a failed Acquire is kept. *)
AcquireKeepingToken(e, t, err) ==
    /\ pc[e] = "call"
    /\ AcquireCall(Work, HolderOf[e], t, err)
    /\ tok' = [tok EXCEPT ![e] = t]
    /\ IF err = OK
       THEN Goto(e, "elected") /\ UNCHANGED result
       ELSE Leave(e, IF err = ErrContext THEN "returned" ELSE "pause", err)
    /\ UNCHANGED <<cancelled, cause, fnErr, calls>>

(* Step 2: a context error returns at once, ErrLeaseHeld waits             *)
(* IdleInterval, any other error BackoffInterval.                          *)
Acquire(e, t, err) ==
    /\ pc[e] = "call"
    /\ AcquireCall(Work, HolderOf[e], t, err)
    /\ IF err = OK
       THEN /\ Goto(e, "elected")
            /\ tok' = [tok EXCEPT ![e] = t]
            /\ UNCHANGED result
       ELSE /\ Leave(e, IF err = ErrContext THEN "returned" ELSE "pause", err)
            /\ UNCHANGED tok
    /\ UNCHANGED <<cancelled, cause, fnErr, calls>>

(* Steps 3 to 5: OnElected, StartRenewal, fn is called. *)
Lead(e) ==
    /\ pc[e] = "elected"
    /\ Call(e, "OnElected")
    /\ Goto(e, "leading")
    /\ UNCHANGED <<ledger, tok, cancelled, cause, fnErr, result>>

(* The renewal goroutine runs until stopRenewal returns. *)
LoseLease(e, c) ==
    /\ pc[e] \in {"leading", "led", "doubt", "reported"} /\ ~RenewalDone(e)
    /\ RenewalLoss(tok[e], c)
    /\ cause' = [cause EXCEPT ![e] = c]
    /\ UNCHANGED <<ledger, pc, tok, cancelled, fnErr, result, calls>>

Cancel(e) ==
    /\ pc[e] \notin {"returned", "crashed"} /\ ~cancelled[e]
    /\ cancelled' = [cancelled EXCEPT ![e] = TRUE]
    /\ UNCHANGED <<ledger, pc, tok, cause, fnErr, result, calls>>

(* fn returns ErrFenced only if a lease call of its own did. *)
FnReturns(e, err) ==
    /\ pc[e] = "leading"
    /\ err = ErrFenced => Fenced(tok[e])
    /\ fnErr' = [fnErr EXCEPT ![e] = err]
    /\ Goto(e, "led")
    /\ UNCHANGED <<ledger, tok, cancelled, cause, result, calls>>

FnPanics(e) ==
    /\ pc[e] = "leading"
    /\ Leave(e, "returned", Panicked)
    /\ UNCHANGED <<ledger, tok, cancelled, cause, fnErr, calls>>

-----------------------------------------------------------------------------
(* Step 6 reads two contexts, one after the other; either may be cancelled *)
(* between the reads, and the renewal context after them.                  *)

(* Mutant: only a fencing is taken for a loss, an exhausted window is not. *)
SeesFencingOnly(e) ==
    /\ pc[e] = "led"
    /\ Goto(e, IF cause[e] = CauseFenced \/ cancelled[e] THEN "doubt" ELSE "reported")
    /\ UNCHANGED <<ledger, tok, cancelled, cause, fnErr, result, calls>>

SeesRenewalContext(e) ==
    /\ pc[e] = "led"
    /\ Goto(e, IF RenewalDone(e) THEN "doubt" ELSE "reported")
    /\ UNCHANGED <<ledger, tok, cancelled, cause, fnErr, result, calls>>

(* Mutant: a cancelled parent is reported as a lost lease. *)
ReportsLossAnyway(e) ==
    /\ pc[e] = "doubt"
    /\ Goto(e, "reported")
    /\ Call(e, "OnLost")
    /\ UNCHANGED <<ledger, tok, cancelled, cause, fnErr, result>>

ReportsLoss(e) ==
    /\ pc[e] = "doubt"
    /\ Goto(e, "reported")
    /\ IF cancelled[e] THEN UNCHANGED calls ELSE Call(e, "OnLost")
    /\ UNCHANGED <<ledger, tok, cancelled, cause, fnErr, result>>

(* Steps 7 and 8: stopRenewal, the cause, the outcome. *)
StopAndClassify(e) ==
    /\ pc[e] = "reported"
    /\ CASE ErrFenced \in {fnErr[e], cause[e]} -> Leave(e, "returned", ErrFenced)
         [] ErrFenced \notin {fnErr[e], cause[e]} /\ cause[e] = CauseExhausted ->
                Leave(e, "pause", IF fnErr[e] = NilErr THEN CauseExhausted ELSE fnErr[e])
         [] OTHER -> Leave(e, "release", IF fnErr[e] = ErrRetire THEN NilErr ELSE fnErr[e])
    /\ UNCHANGED <<ledger, tok, cancelled, cause, fnErr, calls>>

Mode(e) == CASE fnErr[e] = ErrRetire -> ExitRetired
             [] fnErr[e] = NilErr    -> ExitFinished
             [] OTHER                -> ExitAbandoned

(* Mutant: OnRelinquished whatever Release answered. *)
RelinquishesUnrecorded(e, err) == Mode(e) # ExitAbandoned

Relinquishes(e, err) == err = OK /\ Mode(e) # ExitAbandoned

ReleaseResult(e, err) ==
    CASE err = ErrFenced                -> ErrFenced
      [] err # OK /\ result[e] = NilErr -> ErrRelease
      [] OTHER                          -> result[e]

(* Steps 9 to 11; every outcome but a fencing then waits BackoffInterval. *)
Release(e, err) ==
    /\ pc[e] = "release"
    /\ ReleaseCall(tok[e], Mode(e), err)
    /\ IF Relinquishes(e, err) THEN Call(e, "OnRelinquished") ELSE UNCHANGED calls
    /\ Leave(e, IF err = ErrFenced THEN "returned" ELSE "pause", ReleaseResult(e, err))
    /\ UNCHANGED <<tok, cancelled, cause, fnErr>>

(* Mutant: the wait ends only when the context is done. *)
PauseEndsWithContext(e) ==
    /\ pc[e] = "pause" /\ cancelled[e]
    /\ Goto(e, "returned")
    /\ UNCHANGED <<ledger, tok, cancelled, cause, fnErr, result, calls>>

(* The timer of the wait fires, or the context ends it. *)
PauseEnds(e) ==
    /\ pc[e] = "pause"
    /\ Goto(e, "returned")
    /\ UNCHANGED <<ledger, tok, cancelled, cause, fnErr, result, calls>>

Crash(e) ==
    /\ pc[e] \notin {"returned", "crashed"}
    /\ Goto(e, "crashed")
    /\ UNCHANGED <<ledger, tok, cancelled, cause, fnErr, result, calls>>

DeleteRow == (\E t \in Tokens : RowDeleted(t)) /\ UNCHANGED electVars

Errors == {OK, ErrFenced, ErrLeaseHeld, ErrLeaseExpired} \union Faults

Acquires(e) == \E t \in TokenSpace, err \in Errors : Acquire(e, t, err)
FnEnds(e)   == \E err \in FnErrs : FnReturns(e, err)
Finishes(e) == \/ SeesRenewalContext(e) \/ ReportsLoss(e) \/ StopAndClassify(e)
               \/ (\E err \in Errors : Release(e, err)) \/ PauseEnds(e)

ElectStep(e) ==
    \/ Acquires(e) \/ Lead(e) \/ FnEnds(e) \/ FnPanics(e) \/ Finishes(e)
    \/ \E c \in {CauseFenced, CauseExhausted} : LoseLease(e, c)

Next ==
    \/ \E e \in Elects : ElectStep(e) \/ Cancel(e) \/ Crash(e)
    \/ DeleteRow

Spec == Init /\ [][Next]_vars

(* Calls and callbacks return, timers fire, and fn returns once its        *)
(* context is done; nothing is assumed of fn before.                       *)
FairSpec ==
    /\ Spec
    /\ \A e \in Elects : /\ WF_vars(Acquires(e) \/ Lead(e)) /\ WF_vars(Finishes(e))
                         /\ WF_vars(RenewalDone(e) /\ FnEnds(e))

-----------------------------------------------------------------------------
(* Every variable has its type. *)
TypeOK ==
    /\ Tokens \subseteq TokenSpace /\ \A t \in Tokens : ledger[t] \in C!Tenure
    /\ pc \in [Elects -> {"call", "elected", "leading", "led", "doubt", "reported", "release", "pause",
                          "returned", "crashed"}]
    /\ tok \in [Elects -> Tokens \union {0}]
    /\ cancelled \in [Elects -> BOOLEAN]
    /\ cause \in [Elects -> {NoCause, CauseFenced, CauseExhausted}]
    /\ fnErr \in [Elects -> FnErrs \union {Unset}]
    /\ result \in [Elects -> FnErrs \union Faults \union {Unset, ErrLeaseHeld, CauseExhausted, ErrRelease, Panicked}]
    /\ calls \in [Elects -> SUBSET {"OnElected", "OnLost", "OnRelinquished"}]

(* OnRelinquished tells the truth: the exit the successor will see is      *)
(* Finished or Retired, as fn returned, and it was recorded by this call;  *)
(* and Elect returns nil only to a leader that was told so, whatever       *)
(* failed on the way.                                                      *)
RelinquishedIsRecorded ==
    \A e \in Elects :
        /\ "OnRelinquished" \in calls[e] =>
              ledger[tok[e]].exit = IF fnErr[e] = ErrRetire THEN ExitRetired ELSE ExitFinished
        /\ (pc[e] = "returned" /\ result[e] = NilErr) => "OnRelinquished" \in calls[e]

(* OnLost tells the truth, whichever context ends between its two reads:   *)
(* a leader told so has lost its lease or its window, declares nothing and *)
(* is never also told that it relinquished.                                *)
LostIsTrue ==
    \A e \in Elects : "OnLost" \in calls[e] =>
        /\ cause[e] # NoCause
        /\ ledger[tok[e]].exit = ExitNone
        /\ "OnRelinquished" \notin calls[e]

(* Elect returns ErrFenced only when the token can never match again. *)
FencedIsTrue ==
    \A e \in Elects : (pc[e] = "returned" /\ result[e] = ErrFenced) => Fenced(tok[e])

(* A call of Elect whose context is cancelled, or that lost or never got   *)
(* its lease, returns, whatever it was waiting for.                        *)
ElectReturns ==
    \A e \in Elects : (RenewalDone(e) \/ pc[e] = "pause") ~> pc[e] \in {"returned", "crashed"}

(* A leader whose lease or window is lost before the check of step 6, by   *)
(* fencing or by exhaustion, hears of it: OnLost is called, unless the     *)
(* caller cancels, fn panics or the process dies first.                    *)
LossIsAnnounced ==
    \A e \in Elects :
        (pc[e] \in {"leading", "led"} /\ cause[e] # NoCause) ~>
            ("OnLost" \in calls[e] \/ cancelled[e] \/ pc[e] = "crashed" \/ result[e] = Panicked)

(* "OnLost is called when the renewal context is cancelled by fencing or   *)
(* by an exhausted lease window, and the parent context is not cancelled"  *)
(* (leader/leader.go:91).  Does not hold for a loss after step 6: the code *)
(* asks before it stops renewal.                                           *)
LossIsReported ==
    \A e \in Elects :
        (pc[e] = "returned" /\ result[e] # Panicked /\ cause[e] # NoCause /\ ~cancelled[e]) =>
            "OnLost" \in calls[e]
=============================================================================
