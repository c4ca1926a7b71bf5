------------------------------- MODULE Runner -------------------------------
(***************************************************************************)
(* worker.Runner.Run: acquire, read the checkpoint, start renewal, call    *)
(* WorkFn, stop renewal, classify the outcome, save the final state,       *)
(* release with the exit mode.  Runs are calls of Run by competing         *)
(* processes; the steps of a run interleave with the other runs, with its  *)
(* own renewal goroutine, with the cancellation of its context, with       *)
(* deletions of rows and with a crash of its process.                      *)
(***************************************************************************)
EXTENDS LeaseService

CONSTANTS Runs, WorkOf, HolderOf,
          Finals, WorkErrs,  \* what a WorkFn may return
          EmptyFinal         \* a final state that is empty but not nil

VARIABLES
    pc, tok,          \* where Run is and its token
    cancelled,        \* the context passed to Run is done
    cause,            \* what the renewal goroutine cancelled the context with
    workErr, final,   \* what WorkFn returned; NoState is a nil final state
    mode, result      \* the exit mode to declare, what Run returns

runVars == <<pc, tok, cancelled, cause, workErr, final, mode, result>>
vars    == <<ledger, runVars>>

(* Errors as Run tells them apart; NilErr is no error. *)
NilErr        == "nil"
ErrRetire     == "ErrRetire"
WorkFailed    == "an error of WorkFn"
WorkPermanent == "a PermanentError of WorkFn"
ErrRead       == "worker: read checkpoint"
ErrCheckpoint == "worker: checkpoint"
ErrRelease    == "worker: release"
Panicked      == "panic"

Unset == "none"

ASSUME RunnerAssumption ==
    /\ WorkOf \in [Runs -> WorkIDs] /\ HolderOf \in [Runs -> HolderIDs]
    /\ TokenSpace \subseteq Nat \ {0}
    /\ WorkErrs \subseteq {NilErr, ErrRetire, ErrFenced, WorkFailed, WorkPermanent}
    /\ EmptyFinal \notin States \union {NoState}
    /\ Finals \subseteq States \union {NoState, EmptyFinal}

RunResults == {NilErr, ErrRetire, ErrFenced, ErrLeaseHeld, ErrOther, ErrRead, WorkFailed, WorkPermanent,
               CauseExhausted, ErrCheckpoint, ErrRelease, Panicked}

Init ==
    /\ C!Init
    /\ pc = [r \in Runs |-> "call"]
    /\ tok = [r \in Runs |-> 0]
    /\ cancelled = [r \in Runs |-> FALSE]
    /\ cause = [r \in Runs |-> NoCause]
    /\ workErr = [r \in Runs |-> Unset]
    /\ final = [r \in Runs |-> NoState]
    /\ mode = [r \in Runs |-> ExitNone]
    /\ result = [r \in Runs |-> Unset]

(* WorkFn runs under the renewal goroutine until stopRenewal returns. *)
Renewing(r) == pc[r] \in {"working", "worked"}

Return(r, err) ==
    /\ pc' = [pc EXCEPT ![r] = "returned"]
    /\ result' = [result EXCEPT ![r] = err]

-----------------------------------------------------------------------------
(* Mutant: the token of a failed Acquire is kept. *)
AcquireKeepingToken(r, t, err) ==
    /\ pc[r] = "call"
    /\ AcquireCall(WorkOf[r], HolderOf[r], t, err)
    /\ tok' = [tok EXCEPT ![r] = t]
    /\ IF err = OK
       THEN pc' = [pc EXCEPT ![r] = "acquired"] /\ UNCHANGED result
       ELSE Return(r, err)
    /\ UNCHANGED <<cancelled, cause, workErr, final, mode>>

(* Step 1: any error of Acquire is returned. *)
Acquire(r, t, err) ==
    /\ pc[r] = "call"
    /\ AcquireCall(WorkOf[r], HolderOf[r], t, err)
    /\ IF err = OK
       THEN /\ pc' = [pc EXCEPT ![r] = "acquired"]
            /\ tok' = [tok EXCEPT ![r] = t]
            /\ UNCHANGED result
       ELSE Return(r, err) /\ UNCHANGED tok
    /\ UNCHANGED <<cancelled, cause, workErr, final, mode>>

(* Steps 2 and 3: a failed ReadCheckpoint returns without Release; on      *)
(* success renewal starts and WorkFn is called with state.                 *)
ReadCheckpoint(r, state, err) ==
    /\ pc[r] = "acquired"
    /\ ReadCheckpointCall(tok[r], state, err)
    /\ IF err = OK
       THEN /\ pc' = [pc EXCEPT ![r] = "working"]
            /\ UNCHANGED result
       ELSE Return(r, IF err = ErrFenced THEN ErrFenced ELSE ErrRead)
    /\ UNCHANGED <<tok, cancelled, cause, workErr, final, mode>>

(* The renewal goroutine ends the renewal context, unless the parent did. *)
LoseLease(r, c) ==
    /\ Renewing(r) /\ cause[r] = NoCause /\ ~cancelled[r]
    /\ RenewalLoss(tok[r], c)
    /\ cause' = [cause EXCEPT ![r] = c]
    /\ UNCHANGED <<ledger, pc, tok, cancelled, workErr, final, mode, result>>

(* The caller cancels the context it passed to Run. *)
Cancel(r) ==
    /\ pc[r] \notin {"returned", "crashed"} /\ ~cancelled[r]
    /\ cancelled' = [cancelled EXCEPT ![r] = TRUE]
    /\ UNCHANGED <<ledger, pc, tok, cause, workErr, final, mode, result>>

-----------------------------------------------------------------------------
(* WorkFn: it may save state at any time, whatever it makes of the error,  *)
(* and ends with a final state and an error, or panics.  It returns        *)
(* ErrFenced only if a call of its own did.                                *)

WorkCheckpoint(r, state, err) ==
    /\ pc[r] = "working"
    /\ CheckpointCall(tok[r], state, err)
    /\ UNCHANGED runVars

WorkReturns(r, state, err) ==
    /\ pc[r] = "working"
    /\ err = ErrFenced => Fenced(tok[r])
    /\ pc' = [pc EXCEPT ![r] = "worked"]
    /\ workErr' = [workErr EXCEPT ![r] = err]
    /\ final' = [final EXCEPT ![r] = state]
    /\ UNCHANGED <<ledger, tok, cancelled, cause, mode, result>>

(* The deferred stopRenewal runs and the panic propagates. *)
WorkPanics(r) ==
    /\ pc[r] = "working"
    /\ Return(r, Panicked)
    /\ UNCHANGED <<ledger, tok, cancelled, cause, workErr, final, mode>>

-----------------------------------------------------------------------------
(* Mutant: an exhausted window is released like any other outcome. *)
LostAlreadyIgnoringWindow(r) == ErrFenced \in {workErr[r], cause[r]}

(* The lease is gone, or may be: nothing may be written or released. *)
LostAlready(r) == ErrFenced \in {workErr[r], cause[r]} \/ cause[r] = CauseExhausted

LostResult(r) ==
    IF ErrFenced \in {workErr[r], cause[r]} THEN ErrFenced
    ELSE IF workErr[r] # NilErr THEN workErr[r] ELSE CauseExhausted

(* Steps 5 and 6: stopRenewal returns, the cause is final, the outcome is  *)
(* classified.                                                             *)
StopAndClassify(r) ==
    /\ pc[r] = "worked"
    /\ IF LostAlready(r)
       THEN Return(r, LostResult(r)) /\ UNCHANGED mode
       ELSE /\ pc' = [pc EXCEPT ![r] = "cleanup"]
            /\ mode' = [mode EXCEPT ![r] = CASE workErr[r] = ErrRetire -> ExitRetired
                                             [] workErr[r] = NilErr    -> ExitFinished
                                             [] OTHER                  -> ExitAbandoned]
            /\ result' = [result EXCEPT ![r] = IF workErr[r] = ErrRetire THEN NilErr ELSE workErr[r]]
    /\ UNCHANGED <<ledger, tok, cancelled, cause, workErr, final>>

(* Mutant: a failed final Checkpoint does not change the exit mode. *)
ModeAfterCheckpointKept(r, err) == mode[r]

(* The exit mode once the final Checkpoint answered err. *)
ModeAfterCheckpoint(r, err) == IF err = OK THEN mode[r] ELSE ExitAbandoned

(* Mutant: a failed final Checkpoint is returned instead of WorkFn's own   *)
(* error.                                                                  *)
ResultAfterCheckpointFirst(r, err) == IF err = OK THEN result[r] ELSE ErrCheckpoint

ResultAfterCheckpoint(r, err) ==
    IF err # OK /\ result[r] = NilErr THEN ErrCheckpoint ELSE result[r]

(* What a backend stores of a final state that is not nil. *)
AsStored(state) == IF state = EmptyFinal THEN NoState ELSE state

(* Step 8, on the cleanup context, which outlives a cancelled parent: a    *)
(* nil final state leaves the checkpoint as it is, an empty one clears it. *)
FinalCheckpoint(r, err) ==
    /\ pc[r] = "cleanup"
    /\ IF final[r] = NoState
       THEN err = OK /\ UNCHANGED ledger
       ELSE CheckpointCall(tok[r], AsStored(final[r]), err)
    /\ IF err = ErrFenced
       THEN Return(r, ErrFenced) /\ UNCHANGED mode
       ELSE /\ pc' = [pc EXCEPT ![r] = "release"]
            /\ mode' = [mode EXCEPT ![r] = ModeAfterCheckpoint(r, err)]
            /\ result' = [result EXCEPT ![r] = ResultAfterCheckpoint(r, err)]
    /\ UNCHANGED <<tok, cancelled, cause, workErr, final>>

(* Mutant: a failed Release is not reported. *)
ResultAfterReleaseSilent(r, err) == IF err = ErrFenced THEN ErrFenced ELSE result[r]

(* Mutant: any failed Release is reported as a loss of the lease. *)
ResultAfterReleaseLost(r, err) == IF err = OK THEN result[r] ELSE ErrFenced

ResultAfterRelease(r, err) ==
    CASE err = ErrFenced                  -> ErrFenced
      [] err # OK /\ result[r] = NilErr   -> ErrRelease
      [] OTHER                            -> result[r]

(* Step 9. *)
Release(r, err) ==
    /\ pc[r] = "release"
    /\ ReleaseCall(tok[r], mode[r], err)
    /\ Return(r, ResultAfterRelease(r, err))
    /\ UNCHANGED <<tok, cancelled, cause, workErr, final, mode>>

-----------------------------------------------------------------------------
(* The process of r dies; a call it had sent may have taken effect. *)
Crash(r) ==
    /\ pc[r] \notin {"returned", "crashed"}
    /\ pc' = [pc EXCEPT ![r] = "crashed"]
    /\ UNCHANGED <<ledger, tok, cancelled, cause, workErr, final, mode, result>>

DeleteRow == (\E t \in Tokens : RowDeleted(t)) /\ UNCHANGED runVars

(* Run does not tell a context's error from a driver's. *)
Errors == {OK, ErrFenced, ErrLeaseHeld, ErrLeaseExpired, ErrOther}

Acquires(r)        == \E t \in TokenSpace, err \in Errors : Acquire(r, t, err)
Reads(r)           == \E state \in States \union {NoState}, err \in Errors : ReadCheckpoint(r, state, err)
Works(r)           == \E state \in States \union {NoState}, err \in Errors : WorkCheckpoint(r, state, err)
Worked(r)          == \E state \in Finals, err \in WorkErrs : WorkReturns(r, state, err)
Cleans(r)          == \E err \in Errors : FinalCheckpoint(r, err)
Releases(r)        == \E err \in Errors : Release(r, err)

RunStep(r) ==
    \/ Acquires(r) \/ Reads(r) \/ Works(r) \/ Worked(r) \/ WorkPanics(r)
    \/ StopAndClassify(r) \/ Cleans(r) \/ Releases(r)
    \/ \E c \in {CauseFenced, CauseExhausted} : LoseLease(r, c)

Next ==
    \/ \E r \in Runs : RunStep(r) \/ Cancel(r) \/ Crash(r)
    \/ DeleteRow

Spec == Init /\ [][Next]_vars

-----------------------------------------------------------------------------
(* Every variable has its type; a run past Acquire has a token of its own. *)
TypeOK ==
    /\ Tokens \subseteq TokenSpace /\ \A t \in Tokens : ledger[t] \in C!Tenure
    /\ pc \in [Runs -> {"call", "acquired", "working", "worked", "cleanup", "release", "returned", "crashed"}]
    /\ tok \in [Runs -> Tokens \union {0}]
    /\ cancelled \in [Runs -> BOOLEAN]
    /\ cause \in [Runs -> {NoCause, CauseFenced, CauseExhausted}]
    /\ workErr \in [Runs -> WorkErrs \union {Unset}]
    /\ final \in [Runs -> States \union {NoState, EmptyFinal}]
    /\ mode \in [Runs -> StoredExits]
    /\ result \in [Runs -> RunResults \union {Unset}]

(* The final state of r, if there is one, is what its tenure stored last. *)
FinalSaved(r) == final[r] # NoState => ledger[tok[r]].saved = {AsStored(final[r])}

(* "Run returns nil when WorkFn returns nil or an error wrapping ErrRetire *)
(* and the exit is recorded": whatever failed, was lost or was overtaken   *)
(* on the way, a nil result means that the successor will see the success  *)
(* and the final state.                                                    *)
NilMeansRecorded ==
    \A r \in Runs : (pc[r] = "returned" /\ result[r] = NilErr) =>
        /\ ledger[tok[r]].exit = IF workErr[r] = ErrRetire THEN ExitRetired ELSE ExitFinished
        /\ FinalSaved(r)

(* A recorded Finished or Retired, also one whose reply was lost or whose  *)
(* process died right after, belongs to a WorkFn that returned so, with    *)
(* its final state stored: a successor may rely on what it reads.          *)
RecordedSuccessIsComplete ==
    \A r \in Runs : (tok[r] # 0 /\ ledger[tok[r]].exit \in {ExitFinished, ExitRetired}) =>
        /\ workErr[r] = IF ledger[tok[r]].exit = ExitRetired THEN ErrRetire ELSE NilErr
        /\ FinalSaved(r)

(* A run whose WorkFn did not return, panicked or lost the lease before    *)
(* stopRenewal, declares nothing: the successor sees ExitExpired.          *)
LostRunsDeclareNothing ==
    \A r \in Runs : (tok[r] # 0 /\ (workErr[r] \in {Unset, ErrFenced} \/ cause[r] # NoCause)) =>
        ledger[tok[r]].exit = ExitNone

(* ErrFenced is returned only to a run that can never again write: its     *)
(* caller may treat the work ID as taken over.                             *)
FencedIsTrue ==
    \A r \in Runs : (pc[r] = "returned" /\ result[r] = ErrFenced) => Fenced(tok[r])

(* An error of WorkFn reaches the caller, through failing cleanup and      *)
(* exhausted windows; only a true fencing takes its place.                 *)
WorkErrorSurvives ==
    \A r \in Runs : (pc[r] = "returned" /\ workErr[r] \in {WorkFailed, WorkPermanent}) =>
        result[r] \in {workErr[r], ErrFenced}
=============================================================================
